------------------------- MODULE MtpResponder_proofs -------------------------
(***************************************************************************)
(* What the responder's handles mean, for any card, any host and any number *)
(* of handles: the lemmas say what the operators on paths, on the table and *)
(* on the card preserve, Follows what every handler leaves behind.          *)
(***************************************************************************)
EXTENDS MtpResponder, SequenceTheorems, FiniteSetTheorems, WellFoundedInduction, TLAPS

(* Paths.                                                                    *)

\* A prefix, element by element.
LEMMA PrefixPoints ==
  ASSUME NEW p \in Seq(Names), NEW q \in Seq(Names)
  PROVE  IsPrefix(p, q) <=> Len(p) <= Len(q) /\ \A i \in 1 .. Len(p) : p[i] = q[i]
<1>1. Len(p) \in Nat /\ Len(q) \in Nat
  BY LenProperties
<1>2. SubSeq(p, 1, Len(p)) = p
  BY SubSeqFull
<1>3. ASSUME Len(p) <= Len(q)
      PROVE  /\ SubSeq(q, 1, Len(p)) \in Seq(Names) /\ Len(SubSeq(q, 1, Len(p))) = Len(p)
             /\ \A i \in 1 .. Len(p) : SubSeq(q, 1, Len(p))[i] = q[i]
  <2>1. \A i \in 1 .. Len(p) : q[i] \in Names
    BY <1>1, <1>3, ElementOfSeq
  <2>2. /\ SubSeq(q, 1, Len(p)) \in Seq(Names)
        /\ Len(SubSeq(q, 1, Len(p))) = IF 1 <= Len(p) THEN Len(p) - 1 + 1 ELSE 0
        /\ \A i \in 1 .. Len(p) - 1 + 1 : SubSeq(q, 1, Len(p))[i] = q[1 + i - 1]
    BY <1>1, <2>1, SubSeqProperties
  <2>3. /\ Len(SubSeq(q, 1, Len(p))) = Len(p)
        /\ \A i \in 1 .. Len(p) : SubSeq(q, 1, Len(p))[i] = q[i]
    BY <2>2, <1>1
  <2> QED BY <2>2, <2>3
<1>4. ASSUME Len(p) <= Len(q), \A i \in 1 .. Len(p) : p[i] = q[i]
      PROVE  p = SubSeq(q, 1, Len(p))
  <2>1. \A i \in 1 .. Len(p) : p[i] = SubSeq(q, 1, Len(p))[i]
    BY <1>3, <1>4
  <2> QED BY <1>3, <1>4, <2>1, SeqEqual
<1> QED BY <1>2, <1>3, <1>4 DEF IsPrefix

\* What a path is.
LEMMA PathFacts ==
  ASSUME NEW p \in Paths
  PROVE  /\ p \in Seq(Names) /\ Len(p) \in Nat \ {0} /\ p # <<>>
         /\ Front(p) \in Seq(Names) /\ Len(Front(p)) = Len(p) - 1
         /\ \A i \in 1 .. (Len(p) - 1) : Front(p)[i] = p[i]
         /\ Last(p) \in Names
<1>1. p \in Seq(Names) /\ Len(p) >= 1 /\ Len(p) \in Nat
  BY LenProperties DEF Paths
<1>2. p # <<>>
  BY <1>1, EmptySeq
<1>3. \A i \in 1 .. Len(p) : p[i] \in Names
  BY <1>1, ElementOfSeq
<1>4. /\ SubSeq(p, 1, Len(p) - 1) \in Seq(Names)
      /\ Len(SubSeq(p, 1, Len(p) - 1)) = IF 1 <= Len(p) - 1 THEN (Len(p) - 1) - 1 + 1 ELSE 0
      /\ \A i \in 1 .. ((Len(p) - 1) - 1 + 1) : SubSeq(p, 1, Len(p) - 1)[i] = p[1 + i - 1]
  <2>1. \A i \in 1 .. (Len(p) - 1) : p[i] \in Names
    BY <1>1, <1>3
  <2>2. Len(p) - 1 \in Int
    BY <1>1
  <2> QED BY <2>1, <2>2, SubSeqProperties
<1>5. /\ Len(SubSeq(p, 1, Len(p) - 1)) = Len(p) - 1
      /\ \A i \in 1 .. (Len(p) - 1) : SubSeq(p, 1, Len(p) - 1)[i] = p[i]
  <2>1. (Len(p) - 1) - 1 + 1 = Len(p) - 1
    BY <1>1
  <2>2. \A i \in 1 .. (Len(p) - 1) : 1 + i - 1 = i
    OBVIOUS
  <2>3. Len(SubSeq(p, 1, Len(p) - 1)) = Len(p) - 1
    <3> DEFINE k == Len(p) - 1
               l == Len(SubSeq(p, 1, Len(p) - 1))
    <3>1. l = IF 1 <= k THEN k - 1 + 1 ELSE 0
      BY <1>4
    <3>2. k \in Nat
      BY <1>1
    <3> HIDE DEF k, l
    <3>3. l = k
      BY <3>1, <3>2
    <3> QED BY <3>3 DEF k, l
  <2>4. \A i \in 1 .. (Len(p) - 1) : SubSeq(p, 1, Len(p) - 1)[i] = p[1 + i - 1]
    BY <1>4, <2>1
  <2> QED BY <2>2, <2>3, <2>4
<1> QED BY <1>1, <1>2, <1>3, <1>4, <1>5 DEF Front, Last

\* The folder a new path is in.
LEMMA Extended ==
  ASSUME NEW f \in Seq(Names), NEW n \in Names
  PROVE  Append(f, n) \in Paths /\ Front(Append(f, n)) = f
<1>1. /\ Append(f, n) \in Seq(Names) /\ Len(Append(f, n)) = Len(f) + 1 /\ Len(f) \in Nat
      /\ \A i \in 1 .. Len(f) : Append(f, n)[i] = f[i]
  BY AppendProperties, LenProperties
<1>2. Append(f, n) \in Paths
  BY <1>1 DEF Paths
<1>3. /\ Front(Append(f, n)) \in Seq(Names)
      /\ Len(Front(Append(f, n))) = Len(Append(f, n)) - 1
      /\ \A i \in 1 .. (Len(Append(f, n)) - 1) : Front(Append(f, n))[i] = Append(f, n)[i]
  BY <1>2, PathFacts
<1>4. Len(Append(f, n)) - 1 = Len(f)
  BY <1>1
<1>5. Len(Front(Append(f, n))) = Len(f) /\ \A i \in 1 .. Len(f) : Front(Append(f, n))[i] = f[i]
  BY <1>1, <1>3, <1>4
<1> QED BY <1>2, <1>3, <1>5, SeqEqual

\* Below, element by element.
LEMMA BelowPoints ==
  ASSUME NEW p \in Seq(Names), NEW q \in Seq(Names)
  PROVE  /\ Below(p, q) <=> Len(p) <= Len(q) /\ \A i \in 1 .. Len(p) : p[i] = q[i]
         /\ IsStrictPrefix(p, q) <=> Len(p) < Len(q) /\ \A i \in 1 .. Len(p) : p[i] = q[i]
         /\ IsStrictPrefix(p, q) <=> Below(p, q) /\ p # q
<1>1. Len(p) \in Nat /\ Len(q) \in Nat
  BY LenProperties
<1>2. IsPrefix(p, q) <=> Len(p) <= Len(q) /\ \A i \in 1 .. Len(p) : p[i] = q[i]
  BY PrefixPoints
<1>3. Below(p, q) <=> Len(p) <= Len(q) /\ \A i \in 1 .. Len(p) : p[i] = q[i]
  BY <1>1, <1>2 DEF Below, IsStrictPrefix
<1>4. Len(p) = Len(q) /\ (\A i \in 1 .. Len(p) : p[i] = q[i]) => p = q
  BY SeqEqual
<1>5. IsStrictPrefix(p, q) <=> Len(p) < Len(q) /\ \A i \in 1 .. Len(p) : p[i] = q[i]
  BY <1>1, <1>2, <1>4 DEF IsStrictPrefix
<1> QED BY <1>3, <1>5, <1>2 DEF Below, IsStrictPrefix

\* Below is an order in which what a path leads through is a chain.
LEMMA BelowOrder ==
  ASSUME NEW p \in Seq(Names), NEW q \in Seq(Names), NEW r \in Seq(Names)
  PROVE  /\ Below(p, p) /\ ~IsStrictPrefix(p, p)
         /\ Below(p, q) /\ Below(q, r) => Below(p, r)
         /\ Below(p, q) /\ IsStrictPrefix(q, r) => IsStrictPrefix(p, r)
         /\ IsStrictPrefix(p, q) /\ Below(q, r) => IsStrictPrefix(p, r)
         /\ Below(p, r) /\ Below(q, r) => Below(p, q) \/ IsStrictPrefix(q, p)
         /\ Below(p, q) <=> p = q \/ IsStrictPrefix(p, q)
<1>1. Len(p) \in Nat /\ Len(q) \in Nat /\ Len(r) \in Nat
  BY LenProperties
<1>2. Below(p, p) /\ ~IsStrictPrefix(p, p)
  BY BelowPoints
<1>3. Below(p, q) /\ Below(q, r) => Below(p, r)
  <2>1. ASSUME Below(p, q), Below(q, r) PROVE Below(p, r)
    <3>1. Len(p) <= Len(q) /\ \A i \in 1 .. Len(p) : p[i] = q[i]
      BY <2>1, BelowPoints
    <3>2. Len(q) <= Len(r) /\ \A i \in 1 .. Len(q) : q[i] = r[i]
      BY <2>1, BelowPoints
    <3>3. Len(p) <= Len(r) /\ \A i \in 1 .. Len(p) : p[i] = r[i]
      BY <1>1, <3>1, <3>2
    <3> QED BY <3>3, BelowPoints
  <2> QED BY <2>1
<1>4. Below(p, q) /\ IsStrictPrefix(q, r) => IsStrictPrefix(p, r)
  <2>1. ASSUME Below(p, q), IsStrictPrefix(q, r) PROVE IsStrictPrefix(p, r)
    <3>1. Len(p) <= Len(q) /\ \A i \in 1 .. Len(p) : p[i] = q[i]
      BY <2>1, BelowPoints
    <3>2. Len(q) < Len(r) /\ \A i \in 1 .. Len(q) : q[i] = r[i]
      BY <2>1, BelowPoints
    <3>3. Len(p) < Len(r) /\ \A i \in 1 .. Len(p) : p[i] = r[i]
      BY <1>1, <3>1, <3>2
    <3> QED BY <3>3, BelowPoints
  <2> QED BY <2>1
<1>5. IsStrictPrefix(p, q) /\ Below(q, r) => IsStrictPrefix(p, r)
  <2>1. ASSUME IsStrictPrefix(p, q), Below(q, r) PROVE IsStrictPrefix(p, r)
    <3>1. Len(p) < Len(q) /\ \A i \in 1 .. Len(p) : p[i] = q[i]
      BY <2>1, BelowPoints
    <3>2. Len(q) <= Len(r) /\ \A i \in 1 .. Len(q) : q[i] = r[i]
      BY <2>1, BelowPoints
    <3>3. Len(p) < Len(r) /\ \A i \in 1 .. Len(p) : p[i] = r[i]
      BY <1>1, <3>1, <3>2
    <3> QED BY <3>3, BelowPoints
  <2> QED BY <2>1
<1>6. Below(p, r) /\ Below(q, r) => Below(p, q) \/ IsStrictPrefix(q, p)
  <2>1. ASSUME Below(p, r), Below(q, r) PROVE Below(p, q) \/ IsStrictPrefix(q, p)
    <3>1. Len(p) <= Len(r) /\ \A i \in 1 .. Len(p) : p[i] = r[i]
      BY <2>1, BelowPoints
    <3>2. Len(q) <= Len(r) /\ \A i \in 1 .. Len(q) : q[i] = r[i]
      BY <2>1, BelowPoints
    <3>3. CASE Len(p) <= Len(q)
      <4>1. \A i \in 1 .. Len(p) : p[i] = q[i]
        BY <1>1, <3>1, <3>2, <3>3
      <4> QED BY <4>1, <3>3, BelowPoints
    <3>4. CASE Len(q) < Len(p)
      <4>1. \A i \in 1 .. Len(q) : q[i] = p[i]
        BY <1>1, <3>1, <3>2, <3>4
      <4> QED BY <4>1, <3>4, BelowPoints
    <3> QED BY <1>1, <3>3, <3>4
  <2> QED BY <2>1
<1>7. Below(p, q) <=> p = q \/ IsStrictPrefix(p, q)
  BY DEF Below
<1> QED BY <1>2, <1>3, <1>4, <1>5, <1>6, <1>7

\* What a path leads through, from its folder up.
LEMMA FolderFirst ==
  ASSUME NEW q \in Paths, NEW r \in Paths
  PROVE  /\ Front(q) # <<>> => Front(q) \in Paths /\ IsStrictPrefix(Front(q), q)
         /\ IsStrictPrefix(r, q) => /\ Front(q) \in Paths
                                    /\ r = Front(q) \/ IsStrictPrefix(r, Front(q))
<1>1. /\ q \in Seq(Names) /\ Len(q) \in Nat \ {0}
      /\ Front(q) \in Seq(Names) /\ Len(Front(q)) = Len(q) - 1
      /\ \A i \in 1 .. (Len(q) - 1) : Front(q)[i] = q[i]
      /\ r \in Seq(Names) /\ Len(r) \in Nat \ {0}
  BY PathFacts
<1>2. ASSUME Front(q) # <<>>
      PROVE  Front(q) \in Paths /\ IsStrictPrefix(Front(q), q)
  <2>1. Len(Front(q)) # 0
    BY <1>1, <1>2, EmptySeq
  <2>2. Front(q) \in Paths
    BY <1>1, <2>1 DEF Paths
  <2>3. Len(Front(q)) < Len(q) /\ \A i \in 1 .. Len(Front(q)) : Front(q)[i] = q[i]
    BY <1>1
  <2> QED BY <1>1, <2>2, <2>3, BelowPoints
<1>3. ASSUME IsStrictPrefix(r, q)
      PROVE  Front(q) \in Paths /\ (r = Front(q) \/ IsStrictPrefix(r, Front(q)))
  <2>1. Len(r) < Len(q) /\ \A i \in 1 .. Len(r) : r[i] = q[i]
    BY <1>1, <1>3, BelowPoints
  <2>2. Len(r) <= Len(Front(q)) /\ \A i \in 1 .. Len(r) : r[i] = Front(q)[i]
    BY <1>1, <2>1
  <2>3. Below(r, Front(q))
    BY <1>1, <2>2, BelowPoints
  <2>4. Front(q) \in Paths
    BY <1>1, <2>2 DEF Paths
  <2> QED BY <2>3, <2>4 DEF Below
<1> QED BY <1>2, <1>3

\* What is below a folder is in it, or below what is in it.
LEMMA ThroughFolder ==
  ASSUME NEW p \in Paths, NEW q \in Paths, IsStrictPrefix(p, q)
  PROVE  \E r \in Paths : Front(r) = p /\ (r = q \/ IsStrictPrefix(r, q))
<1> DEFINE r == Append(p, q[Len(p) + 1])
<1>1. /\ p \in Seq(Names) /\ Len(p) \in Nat \ {0}
      /\ q \in Seq(Names) /\ Len(q) \in Nat \ {0}
  BY PathFacts
<1>2. Len(p) < Len(q) /\ \A i \in 1 .. Len(p) : p[i] = q[i]
  BY <1>1, BelowPoints
<1>3. q[Len(p) + 1] \in Names
  BY <1>1, <1>2, ElementOfSeq
<1>4. /\ r \in Paths /\ Front(r) = p /\ r \in Seq(Names) /\ Len(r) = Len(p) + 1
      /\ \A i \in 1 .. Len(p) : r[i] = p[i]
      /\ r[Len(p) + 1] = q[Len(p) + 1]
  BY <1>1, <1>3, Extended, AppendProperties
<1>5. Len(r) <= Len(q) /\ \A i \in 1 .. Len(r) : r[i] = q[i]
  BY <1>1, <1>2, <1>4
<1>6. Below(r, q)
  BY <1>1, <1>4, <1>5, BelowPoints
<1> QED BY <1>4, <1>6 DEF Below

\* Where what moves with a folder goes: to one place below its new path, and
\* back from there.
LEMMA RebasedFacts ==
  ASSUME NEW p \in Paths, NEW to \in Paths, NEW q \in Paths, Below(p, q)
  PROVE  /\ Rebased(p, to, q) \in Paths /\ Below(to, Rebased(p, to, q))
         /\ Len(Rebased(p, to, q)) = Len(to) + (Len(q) - Len(p))
         /\ \A i \in 1 .. Len(to) : Rebased(p, to, q)[i] = to[i]
         /\ \A i \in 1 .. (Len(q) - Len(p)) : Rebased(p, to, q)[Len(to) + i] = q[Len(p) + i]
<1> DEFINE tail == SubSeq(q, Len(p) + 1, Len(q))
           k    == Len(q) - Len(p)
<1>1. /\ p \in Seq(Names) /\ Len(p) \in Nat \ {0}
      /\ q \in Seq(Names) /\ Len(q) \in Nat \ {0}
      /\ to \in Seq(Names) /\ Len(to) \in Nat \ {0}
  BY PathFacts
<1>2. Len(p) <= Len(q)
  BY <1>1, BelowPoints
<1>3. k \in Nat
  BY <1>1, <1>2
<1>4. \A i \in (Len(p) + 1) .. Len(q) : q[i] \in Names
  BY <1>1, ElementOfSeq
<1>5. /\ tail \in Seq(Names)
      /\ Len(tail) = IF Len(p) + 1 <= Len(q) THEN Len(q) - (Len(p) + 1) + 1 ELSE 0
      /\ \A i \in 1 .. (Len(q) - (Len(p) + 1) + 1) : tail[i] = q[(Len(p) + 1) + i - 1]
  <2>1. Len(p) + 1 \in Int /\ Len(q) \in Int
    BY <1>1
  <2> QED BY <1>4, <2>1, SubSeqProperties
<1>6. Len(tail) = k /\ \A i \in 1 .. k : tail[i] = q[Len(p) + i]
  BY <1>1, <1>2, <1>5
<1>7. /\ to \o tail \in Seq(Names)
      /\ Len(to \o tail) = Len(to) + Len(tail)
      /\ \A i \in 1 .. Len(to) + Len(tail) :
           (to \o tail)[i] = IF i <= Len(to) THEN to[i] ELSE tail[i - Len(to)]
  BY <1>1, <1>5, ConcatProperties
<1> DEFINE m == to \o tail
<1>8. Rebased(p, to, q) = m
  BY DEF Rebased
<1> HIDE DEF tail, m
<1>9. /\ m \in Seq(Names) /\ Len(m) = Len(to) + k
      /\ \A i \in 1 .. (Len(to) + k) : m[i] = IF i <= Len(to) THEN to[i] ELSE tail[i - Len(to)]
  BY <1>6, <1>7 DEF m
<1>10. \A i \in 1 .. Len(to) : m[i] = to[i]
  BY <1>1, <1>3, <1>9
<1>11. \A i \in 1 .. k : m[Len(to) + i] = q[Len(p) + i]
  <2>1. SUFFICES ASSUME NEW i \in 1 .. k
                 PROVE  m[Len(to) + i] = q[Len(p) + i]
    OBVIOUS
  <2>2. Len(to) + i \in 1 .. (Len(to) + k) /\ ~(Len(to) + i <= Len(to))
        /\ (Len(to) + i) - Len(to) = i
    BY <1>1, <1>3
  <2>3. m[Len(to) + i] = tail[i]
    BY <1>9, <2>2
  <2> QED BY <2>3, <1>6
<1>12. m \in Paths
  BY <1>1, <1>3, <1>9 DEF Paths
<1>13. Below(to, m)
  <2>1. Len(to) <= Len(m)
    BY <1>1, <1>3, <1>9
  <2> QED BY <1>1, <1>9, <1>10, <2>1, BelowPoints
<1> QED BY <1>8, <1>9, <1>10, <1>11, <1>12, <1>13

LEMMA RebasedBack ==
  ASSUME NEW p \in Paths, NEW to \in Paths, NEW q \in Paths, Below(p, q)
  PROVE  Rebased(to, p, Rebased(p, to, q)) = q
<1> DEFINE r == Rebased(p, to, q)
           b == Rebased(to, p, r)
<1>1. /\ p \in Seq(Names) /\ Len(p) \in Nat \ {0}
      /\ q \in Seq(Names) /\ Len(q) \in Nat \ {0}
      /\ to \in Seq(Names) /\ Len(to) \in Nat \ {0}
  BY PathFacts
<1>2. Len(p) <= Len(q) /\ \A i \in 1 .. Len(p) : p[i] = q[i]
  BY <1>1, BelowPoints
<1>3. /\ r \in Paths /\ Below(to, r) /\ Len(r) = Len(to) + (Len(q) - Len(p))
      /\ \A i \in 1 .. (Len(q) - Len(p)) : r[Len(to) + i] = q[Len(p) + i]
  BY RebasedFacts
<1> HIDE DEF r
<1>4. /\ b \in Paths /\ Len(b) = Len(p) + (Len(r) - Len(to))
      /\ \A i \in 1 .. Len(p) : b[i] = p[i]
      /\ \A i \in 1 .. (Len(r) - Len(to)) : b[Len(p) + i] = r[Len(to) + i]
  BY <1>3, RebasedFacts
<1> HIDE DEF b
<1>5. Len(r) - Len(to) = Len(q) - Len(p) /\ Len(b) = Len(q)
  BY <1>1, <1>2, <1>3, <1>4
<1>6. \A i \in 1 .. (Len(q) - Len(p)) : b[Len(p) + i] = q[Len(p) + i]
  BY <1>3, <1>4, <1>5
<1>7. \A i \in 1 .. Len(q) : b[i] = q[i]
  <2>1. SUFFICES ASSUME NEW i \in 1 .. Len(q) PROVE b[i] = q[i]
    OBVIOUS
  <2>2. CASE i <= Len(p)
    BY <2>2, <1>1, <1>2, <1>4
  <2>3. CASE i > Len(p)
    <3>1. i - Len(p) \in 1 .. (Len(q) - Len(p)) /\ Len(p) + (i - Len(p)) = i
      BY <1>1, <2>3
    <3> QED BY <3>1, <1>6
  <2> QED BY <1>1, <2>2, <2>3
<1>8. b \in Seq(Names)
  BY <1>4, PathFacts
<1>9. b = q
  BY <1>1, <1>5, <1>7, <1>8, SeqEqual
<1> QED BY <1>9 DEF r, b

\* What leads to a moved path from its new folder on moved with it.
LEMMA RebasedChain ==
  ASSUME NEW p \in Paths, NEW to \in Paths, NEW q \in Paths, Below(p, q),
         NEW r \in Paths, Below(to, r), IsStrictPrefix(r, Rebased(p, to, q))
  PROVE  /\ Rebased(to, p, r) \in Paths /\ Below(p, Rebased(to, p, r))
         /\ IsStrictPrefix(Rebased(to, p, r), q)
         /\ Rebased(p, to, Rebased(to, p, r)) = r
<1> DEFINE m == Rebased(p, to, q)
           s == Rebased(to, p, r)
<1>1. /\ p \in Seq(Names) /\ Len(p) \in Nat \ {0}
      /\ q \in Seq(Names) /\ Len(q) \in Nat \ {0}
      /\ to \in Seq(Names) /\ Len(to) \in Nat \ {0}
      /\ r \in Seq(Names) /\ Len(r) \in Nat \ {0}
  BY PathFacts
<1>2. /\ Len(p) <= Len(q) /\ \A i \in 1 .. Len(p) : p[i] = q[i]
      /\ Len(to) <= Len(r)
  BY <1>1, BelowPoints
<1>3. /\ m \in Paths /\ Len(m) = Len(to) + (Len(q) - Len(p))
      /\ \A i \in 1 .. (Len(q) - Len(p)) : m[Len(to) + i] = q[Len(p) + i]
  BY RebasedFacts
<1> HIDE DEF m
<1>4. /\ s \in Paths /\ Below(p, s) /\ Len(s) = Len(p) + (Len(r) - Len(to))
      /\ \A i \in 1 .. Len(p) : s[i] = p[i]
      /\ \A i \in 1 .. (Len(r) - Len(to)) : s[Len(p) + i] = r[Len(to) + i]
  <2> HIDE DEF s
  <2>1. /\ Rebased(to, p, r) \in Paths /\ Below(p, Rebased(to, p, r))
        /\ Len(Rebased(to, p, r)) = Len(p) + (Len(r) - Len(to))
        /\ \A i \in 1 .. Len(p) : Rebased(to, p, r)[i] = p[i]
        /\ \A i \in 1 .. (Len(r) - Len(to)) : Rebased(to, p, r)[Len(p) + i] = r[Len(to) + i]
    BY RebasedFacts, Zenon
  <2> QED BY <2>1, Zenon DEF s
<1>5. m \in Seq(Names) /\ s \in Seq(Names)
  BY <1>3, <1>4, PathFacts
<1>6. Len(r) < Len(m) /\ \A i \in 1 .. Len(r) : r[i] = m[i]
  BY <1>1, <1>5, BelowPoints DEF m
<1>7. Rebased(p, to, s) = r
  BY RebasedBack
<1> HIDE DEF s
<1>8. Len(s) < Len(q)
  BY <1>1, <1>2, <1>3, <1>4, <1>6
<1>9. \A i \in 1 .. Len(s) : s[i] = q[i]
  <2>1. SUFFICES ASSUME NEW i \in 1 .. Len(s) PROVE s[i] = q[i]
    OBVIOUS
  <2>2. CASE i <= Len(p)
    BY <2>2, <1>1, <1>2, <1>4
  <2>3. CASE i > Len(p)
    <3>0. Len(s) \in Nat
      BY <1>1, <1>2, <1>4
    <3> DEFINE k == i - Len(p)
    <3>1. /\ k \in 1 .. (Len(r) - Len(to)) /\ k \in 1 .. (Len(q) - Len(p))
          /\ Len(to) + k \in 1 .. Len(r) /\ Len(p) + k = i
      BY <1>1, <1>2, <1>4, <1>8, <2>3, <3>0
    <3> HIDE DEF k
    <3>2. s[i] = r[Len(to) + k] /\ q[i] = m[Len(to) + k]
      BY <1>3, <1>4, <3>1
    <3> QED BY <1>6, <3>1, <3>2
  <2> QED BY <1>1, <1>4, <2>2, <2>3
<1>10. IsStrictPrefix(s, q)
  BY <1>1, <1>5, <1>8, <1>9, BelowPoints
<1> QED BY <1>4, <1>7, <1>10 DEF s
-----------------------------------------------------------------------------
(* The table.                                                                *)

Tables == Seq(Objects(Paths))

LEMMA TableFacts ==
  ASSUME NEW t \in Tables
  PROVE  /\ Len(t) \in Nat /\ DOMAIN t = 1 .. Len(t)
         /\ t \in [1 .. Len(t) -> Objects(Paths)]
         /\ \A h \in DOMAIN t :
              /\ t[h].valid \in BOOLEAN /\ t[h].dir \in BOOLEAN
              /\ t[h].valid => t[h].path \in Paths /\ t[h] = Object(t[h].path, t[h].dir)
              /\ ~t[h].valid => t[h] = Ended
<1>1. Len(t) \in Nat /\ DOMAIN t = 1 .. Len(t) /\ t \in [1 .. Len(t) -> Objects(Paths)]
  BY LenProperties DEF Tables
<1>2. \A h \in DOMAIN t : t[h] \in Objects(Paths)
  BY <1>1
<1>3. \A o \in Objects(Paths) :
        /\ o.valid \in BOOLEAN /\ o.dir \in BOOLEAN
        /\ o.valid => o.path \in Paths /\ o = Object(o.path, o.dir)
        /\ ~o.valid => o = Ended
  <2>1. ASSUME NEW o \in [path : Paths, dir : BOOLEAN, valid : {TRUE}]
        PROVE  /\ o.valid = TRUE /\ o.dir \in BOOLEAN /\ o.path \in Paths
               /\ o = [path |-> o.path, dir |-> o.dir, valid |-> TRUE]
    <3>1. o.valid = TRUE /\ o.dir \in BOOLEAN /\ o.path \in Paths
      OBVIOUS
    <3>2. o = [path |-> o.path, dir |-> o.dir, valid |-> TRUE]
      OBVIOUS
    <3> QED BY <3>1, <3>2
  <2>2. Ended.valid = FALSE /\ Ended.dir = FALSE
    BY DEF Ended
  <2> QED BY <2>1, <2>2 DEF Objects, Object
<1> QED BY <1>1, <1>2, <1>3

LEMMA TableIntro ==
  ASSUME NEW n \in Nat, NEW t \in [1 .. n -> Objects(Paths)]
  PROVE  t \in Tables /\ Len(t) = n /\ DOMAIN t = 1 .. n
<1>1. t \in Seq(Objects(Paths))
  BY SeqDef
<1>2. Len(t) \in Nat /\ DOMAIN t = 1 .. Len(t) /\ DOMAIN t = 1 .. n
  BY <1>1, LenProperties
<1> QED BY <1>1, <1>2 DEF Tables

\* Objects there may be.
LEMMA ObjectFacts ==
  /\ Ended \in Objects(Paths) /\ ~Ended.valid
  /\ \A p \in Paths, d \in BOOLEAN : /\ Object(p, d) \in Objects(Paths)
                                     /\ Object(p, d).valid /\ Object(p, d).path = p
                                     /\ Object(p, d).dir = d
BY DEF Objects, Object, Ended

\* A known path has the least of its handles, an unknown one the next.
LEMMA HandleForFacts ==
  ASSUME NEW t \in Tables, NEW p
  PROVE  /\ HandleFor(t, p) \in 1 .. (Len(t) + 1)
         /\ HandleFor(t, p) \in DOMAIN t =>
              t[HandleFor(t, p)].valid /\ t[HandleFor(t, p)].path = p
         /\ HandleFor(t, p) \notin DOMAIN t => Find(t, p) = {} /\ HandleFor(t, p) = Len(t) + 1
<1>1. Len(t) \in Nat /\ DOMAIN t = 1 .. Len(t)
  BY TableFacts
<1>2. Find(t, p) \subseteq DOMAIN t /\ Find(t, p) \subseteq Nat
  BY <1>1 DEF Find
<1>3. CASE Find(t, p) = {}
  BY <1>1, <1>3 DEF HandleFor
<1>4. CASE Find(t, p) # {}
  <2>1. \E h \in Find(t, p) : \A g \in Find(t, p) : ~(<<g, h>> \in OpToRel(<, Nat))
    BY <1>2, <1>4, NatLessThanWellFounded, WFMin
  <2>2. \E h \in Find(t, p) : \A g \in Find(t, p) : h <= g
    <3>1. PICK h \in Find(t, p) : \A g \in Find(t, p) : ~(<<g, h>> \in OpToRel(<, Nat))
      BY <2>1
    <3>2. \A g \in Find(t, p) : ~(g < h)
      BY <3>1, <1>2 DEF OpToRel
    <3> QED BY <3>2, <1>2
  <2>3. HandleFor(t, p) \in Find(t, p)
    BY <2>2, <1>4 DEF HandleFor
  <2> QED BY <2>3, <1>1 DEF Find
<1> QED BY <1>3, <1>4

\* Interning gives a path a valid entry and changes no other.
LEMMA InternFacts ==
  ASSUME NEW t \in Tables, NEW p \in Paths, NEW d \in BOOLEAN
  PROVE  /\ Intern(t, p, d) \in Tables
         /\ DOMAIN Intern(t, p, d) = DOMAIN t \cup {HandleFor(t, p)}
         /\ HandleFor(t, p) \in Nat \ {0}
         /\ Intern(t, p, d)[HandleFor(t, p)] = Object(p, d)
         /\ \A g \in DOMAIN t : g # HandleFor(t, p) => Intern(t, p, d)[g] = t[g]
         /\ HandleFor(t, p) \in DOMAIN t =>
              t[HandleFor(t, p)].valid /\ t[HandleFor(t, p)].path = p
<1> DEFINE k == HandleFor(t, p)
           u == Intern(t, p, d)
           n == IF k \in DOMAIN t THEN Len(t) ELSE Len(t) + 1
<1>1. /\ Len(t) \in Nat /\ DOMAIN t = 1 .. Len(t)
      /\ t \in [1 .. Len(t) -> Objects(Paths)]
  BY TableFacts
<1>2. /\ k \in 1 .. (Len(t) + 1) /\ k \in DOMAIN t => t[k].valid /\ t[k].path = p
      /\ k \notin DOMAIN t => k = Len(t) + 1
  BY HandleForFacts
<1>3. u = [g \in DOMAIN t \cup {k} |-> IF g = k THEN Object(p, d) ELSE t[g]]
  BY DEF Intern
<1> HIDE DEF k, u
<1>4. n \in Nat /\ DOMAIN t \cup {k} = 1 .. n
  BY <1>1, <1>2
<1>5. u \in [1 .. n -> Objects(Paths)]
  BY <1>1, <1>3, <1>4, ObjectFacts
<1>6. u \in Tables /\ DOMAIN u = DOMAIN t \cup {k}
  BY <1>4, <1>5, TableIntro
<1>7. u[k] = Object(p, d) /\ \A g \in DOMAIN t : g # k => u[g] = t[g]
  BY <1>3
<1>8. k \in Nat \ {0}
  BY <1>1, <1>2
<1> QED BY <1>2, <1>6, <1>7, <1>8 DEF k, u

\* Invalidating ends one entry.
LEMMA InvalidateFacts ==
  ASSUME NEW t \in Tables, NEW k
  PROVE  LET u == Invalidate(t, k)
         IN /\ u \in Tables /\ DOMAIN u = DOMAIN t
            /\ \A g \in DOMAIN t : u[g].valid <=> (g # k /\ t[g].valid)
            /\ \A g \in DOMAIN t : u[g].valid => u[g] = t[g]
<1> DEFINE u == Invalidate(t, k)
<1>1. /\ Len(t) \in Nat /\ DOMAIN t = 1 .. Len(t)
      /\ t \in [1 .. Len(t) -> Objects(Paths)]
  BY TableFacts
<1>2. u = [g \in DOMAIN t |-> IF g = k THEN Ended ELSE t[g]]
  BY DEF Invalidate
<1> HIDE DEF u
<1>3. u \in [1 .. Len(t) -> Objects(Paths)]
  BY <1>1, <1>2, ObjectFacts
<1>4. u \in Tables /\ DOMAIN u = DOMAIN t
  BY <1>1, <1>3, TableIntro
<1>5. \A g \in DOMAIN t : (u[g].valid <=> (g # k /\ t[g].valid)) /\ (u[g].valid => u[g] = t[g])
  BY <1>2, ObjectFacts
<1> QED BY <1>4, <1>5 DEF u

\* Renaming moves one entry and ends those below it.
LEMMA RenameFacts ==
  ASSUME NEW t \in Tables, NEW k \in DOMAIN t, t[k].valid, NEW to \in Paths
  PROVE  LET u == Rename(t, k, to)
         IN /\ u \in Tables /\ DOMAIN u = DOMAIN t
            /\ u[k].valid /\ u[k].path = to /\ u[k].dir = t[k].dir
            /\ \A g \in DOMAIN t : g # k /\ u[g].valid => u[g] = t[g] /\ g \notin Descendants(t, k)
<1> DEFINE u == Rename(t, k, to)
<1>1. /\ Len(t) \in Nat /\ DOMAIN t = 1 .. Len(t)
      /\ t \in [1 .. Len(t) -> Objects(Paths)]
      /\ t[k].dir \in BOOLEAN /\ t[k] = Object(t[k].path, t[k].dir)
  BY TableFacts
<1>2. u = [c \in DOMAIN t |-> IF c = k THEN [t[c] EXCEPT !.path = to]
                              ELSE IF c \in Descendants(t, k) THEN Ended ELSE t[c]]
  BY DEF Rename
<1> HIDE DEF u
<1>3. u[k] = Object(to, t[k].dir)
  <2>1. u[k] = [t[k] EXCEPT !.path = to]
    BY <1>2
  <2>2. t[k] \in [path : Paths, dir : BOOLEAN, valid : {TRUE}]
    <3>1. t[k] \in Objects(Paths)
      BY <1>1
    <3> QED BY <3>1, ObjectFacts DEF Objects
  <2>3. [t[k] EXCEPT !.path = to] = [path |-> to, dir |-> t[k].dir, valid |-> TRUE]
    <3> DEFINE o == [t[k] EXCEPT !.path = to]
    <3>1. /\ o \in [path : Paths, dir : BOOLEAN, valid : {TRUE}]
          /\ o.path = to /\ o.dir = t[k].dir
      BY <2>2
    <3> HIDE DEF o
    <3>2. o = [path |-> to, dir |-> t[k].dir, valid |-> TRUE]
      BY <3>1
    <3> QED BY <3>2 DEF o
  <2> QED BY <2>1, <2>3 DEF Object
<1>4. \A g \in DOMAIN t : g # k => u[g] = IF g \in Descendants(t, k) THEN Ended ELSE t[g]
  BY <1>2
<1>5. DOMAIN u = 1 .. Len(t) /\ u = [g \in 1 .. Len(t) |-> u[g]]
  BY <1>1, <1>2
<1>6. \A g \in 1 .. Len(t) : u[g] \in Objects(Paths)
  BY <1>1, <1>3, <1>4, ObjectFacts
<1>7. u \in [1 .. Len(t) -> Objects(Paths)]
  BY <1>5, <1>6
<1>8. u \in Tables /\ DOMAIN u = DOMAIN t
  BY <1>1, <1>7, TableIntro
<1> QED BY <1>1, <1>3, <1>4, <1>8, ObjectFacts DEF u
-----------------------------------------------------------------------------
(* The card.                                                                 *)

\* What a path leads through is a folder, and no two paths share an object.
Tree(fs) ==
  \A q \in DOMAIN fs, p \in Paths : IsStrictPrefix(p, q) => p \in DOMAIN fs /\ fs[p].dir
CardOK(fs) ==
  /\ DOMAIN fs \subseteq Paths /\ fs \in [DOMAIN fs -> Inode] /\ IsFiniteSet(DOMAIN fs)
  /\ Tree(fs)
  /\ \A p, q \in DOMAIN fs : fs[p].ino = fs[q].ino => p = q

\* Nothing is below a file, or below an empty folder.
LEMMA NothingBelow ==
  ASSUME NEW fs, CardOK(fs), NEW p \in Paths,
         ~(p \in DOMAIN fs /\ fs[p].dir) \/ InFolder(fs, p) = {}
  PROVE  \A q \in DOMAIN fs : ~IsStrictPrefix(p, q)
<1>1. SUFFICES ASSUME NEW q \in DOMAIN fs, IsStrictPrefix(p, q) PROVE FALSE
  OBVIOUS
<1>2. q \in Paths
  BY DEF CardOK
<1>3. p \in DOMAIN fs /\ fs[p].dir
  BY <1>1 DEF CardOK, Tree
<1>4. PICK r \in Paths : Front(r) = p /\ (r = q \/ IsStrictPrefix(r, q))
  BY <1>1, <1>2, ThroughFolder
<1>5. r \in DOMAIN fs
  BY <1>4 DEF CardOK, Tree
<1>6. r \in InFolder(fs, p)
  BY <1>4, <1>5 DEF InFolder
<1> QED BY <1>3, <1>6

LEMMA RemovedFacts ==
  ASSUME NEW fs, CardOK(fs), NEW p,
         p \in DOMAIN fs => \A q \in DOMAIN fs : ~IsStrictPrefix(p, q)
  PROVE  /\ CardOK(Removed(fs, p)) /\ DOMAIN Removed(fs, p) = DOMAIN fs \ {p}
         /\ \A q \in DOMAIN fs \ {p} : Removed(fs, p)[q] = fs[q]
<1> DEFINE m == Removed(fs, p)
<1>1. DOMAIN m = DOMAIN fs \ {p} /\ \A q \in DOMAIN m : m[q] = fs[q]
  BY DEF Removed
<1>2. m \in [DOMAIN m -> Inode]
  <2>1. m = [q \in DOMAIN m |-> m[q]]
    BY DEF Removed
  <2>2. \A q \in DOMAIN m : m[q] \in Inode
    BY <1>1 DEF CardOK
  <2> HIDE DEF m
  <2> QED BY <2>1, <2>2
<1> HIDE DEF m
<1>3. IsFiniteSet(DOMAIN m)
  BY <1>1, FS_RemoveElement DEF CardOK
<1>4. Tree(m)
  <2>1. SUFFICES ASSUME NEW q \in DOMAIN m, NEW r \in Paths, IsStrictPrefix(r, q)
                 PROVE  r \in DOMAIN m /\ m[r].dir
    BY DEF Tree
  <2>2. r \in DOMAIN fs /\ fs[r].dir
    BY <1>1, <2>1 DEF CardOK, Tree
  <2>3. r # p
    BY <1>1, <2>1, <2>2
  <2> QED BY <1>1, <2>2, <2>3
<1>5. \A q, r \in DOMAIN m : m[q].ino = m[r].ino => q = r
  BY <1>1 DEF CardOK
<1>6. DOMAIN m \subseteq Paths
  BY <1>1 DEF CardOK
<1>7. CardOK(m)
  BY <1>2, <1>3, <1>4, <1>5, <1>6 DEF CardOK
<1> QED BY <1>1, <1>7 DEF m

LEMMA PutFacts ==
  ASSUME NEW fs, CardOK(fs), NEW p \in Paths, IsFolder(fs, Front(p)),
         ~(p \in DOMAIN fs /\ fs[p].dir),
         NEW i \in Inode, \A q \in DOMAIN fs : fs[q].ino # i.ino
  PROVE  CardOK(Put(fs, p, i))
<1> DEFINE m == Put(fs, p, i)
<1>1. /\ DOMAIN m = DOMAIN fs \cup {p} /\ m[p] = i
      /\ \A q \in DOMAIN fs \ {p} : m[q] = fs[q]
  BY DEF Put
<1>2. m \in [DOMAIN m -> Inode]
  <2>1. m = [q \in DOMAIN m |-> m[q]]
    BY DEF Put
  <2>2. \A q \in DOMAIN m : m[q] \in Inode
    BY <1>1 DEF CardOK
  <2> HIDE DEF m
  <2> QED BY <2>1, <2>2
<1> HIDE DEF m
<1>3. IsFiniteSet(DOMAIN m)
  BY <1>1, FS_AddElement DEF CardOK
<1>4. Tree(m)
  <2>1. SUFFICES ASSUME NEW q \in DOMAIN m, NEW r \in Paths, IsStrictPrefix(r, q)
                 PROVE  r \in DOMAIN m /\ m[r].dir
    BY DEF Tree
  <2>2. q \in Paths /\ q \in Seq(Names) /\ p \in Seq(Names)
    BY <1>1, PathFacts DEF CardOK
  <2>3. r \in DOMAIN fs /\ fs[r].dir
    <3>1. CASE q = p
      <4>1. Front(p) \in Paths /\ (r = Front(p) \/ IsStrictPrefix(r, Front(p)))
        BY <3>1, <2>1, FolderFirst
      <4>2. Front(p) # <<>>
        BY <4>1, PathFacts
      <4>3. Front(p) \in DOMAIN fs /\ fs[Front(p)].dir
        BY <4>2 DEF IsFolder
      <4> QED BY <4>1, <4>3 DEF CardOK, Tree
    <3>2. CASE q # p
      BY <1>1, <2>1, <3>2 DEF CardOK, Tree
    <3> QED BY <3>1, <3>2
  <2>4. r # p
    BY <2>3
  <2> QED BY <1>1, <2>3, <2>4
<1>5. \A q, r \in DOMAIN m : m[q].ino = m[r].ino => q = r
  <2>1. SUFFICES ASSUME NEW q \in DOMAIN m, NEW r \in DOMAIN m, m[q].ino = m[r].ino
                 PROVE  q = r
    OBVIOUS
  <2>2. CASE q = p /\ r # p
    BY <1>1, <2>1, <2>2
  <2>3. CASE q # p /\ r = p
    BY <1>1, <2>1, <2>3
  <2>4. CASE q # p /\ r # p
    <3>1. q \in DOMAIN fs /\ r \in DOMAIN fs /\ fs[q].ino = fs[r].ino
      BY <1>1, <2>1, <2>4
    <3> QED BY <3>1 DEF CardOK
  <2> QED BY <2>2, <2>3, <2>4
<1>6. DOMAIN m \subseteq Paths
  BY <1>1 DEF CardOK
<1>7. CardOK(m)
  BY <1>2, <1>3, <1>4, <1>5, <1>6 DEF CardOK
<1> QED BY <1>7 DEF m

\* What a move leaves: what was not below the folder stays, the rest is below
\* its new path, where nothing was.
LEMMA MovedFacts ==
  ASSUME NEW fs, CardOK(fs), NEW p, NEW to \in Paths, CanMove(fs, p, to)
  PROVE  LET m == Moved(fs, p, to)
         IN /\ CardOK(m)
            /\ \A q \in DOMAIN fs : ~Below(p, q) => q \in DOMAIN m /\ m[q] = fs[q]
            /\ \A q \in DOMAIN fs : Below(p, q) => /\ Rebased(p, to, q) \in DOMAIN m
                                                   /\ m[Rebased(p, to, q)] = fs[q]
            /\ \A q \in DOMAIN m :
                 \/ q \in DOMAIN fs /\ ~Below(p, q)
                 \/ \E r \in DOMAIN fs : Below(p, r) /\ q = Rebased(p, to, r)
<1> DEFINE m == Moved(fs, p, to)
           stay == {q \in DOMAIN fs : ~Below(p, q)}
           go == DOMAIN fs \ stay
           gone == {Rebased(p, to, r) : r \in go}
           from(q) == CHOOSE r \in go : Rebased(p, to, r) = q
<1>1. /\ p \in DOMAIN fs /\ p \in Paths /\ to \notin DOMAIN fs /\ ~Below(p, to)
      /\ IsFolder(fs, Front(to)) /\ DOMAIN fs \subseteq Paths
      /\ p \in Seq(Names) /\ to \in Seq(Names)
  BY PathFacts DEF CanMove, CardOK
<1>2. m = [q \in stay \cup gone |-> IF q \in stay THEN fs[q] ELSE fs[from(q)]]
  BY DEF Moved
<1>3. \A q \in go : q \in DOMAIN fs /\ q \in Paths /\ Below(p, q)
  BY <1>1
<1>4. \A q \in go : /\ Rebased(p, to, q) \in Paths /\ Below(to, Rebased(p, to, q))
                    /\ Rebased(to, p, Rebased(p, to, q)) = q
  BY <1>1, <1>3, RebasedFacts, RebasedBack
<1>5. \A q \in DOMAIN fs : ~Below(to, q)
  <2>1. SUFFICES ASSUME NEW q \in DOMAIN fs, Below(to, q) PROVE FALSE
    OBVIOUS
  <2>2. q = to \/ IsStrictPrefix(to, q)
    BY <2>1 DEF Below
  <2> QED BY <1>1, <2>2 DEF CardOK, Tree
<1>6. \A q \in gone : q \in Paths /\ Below(to, q) /\ q \notin DOMAIN fs /\ q \notin stay
  BY <1>4, <1>5
<1>7. \A q \in go : from(Rebased(p, to, q)) = q
  <2>1. SUFFICES ASSUME NEW q \in go PROVE from(Rebased(p, to, q)) = q
    OBVIOUS
  <2>2. from(Rebased(p, to, q)) \in go /\ Rebased(p, to, from(Rebased(p, to, q))) = Rebased(p, to, q)
    OBVIOUS
  <2> HIDE DEF from
  <2> QED BY <1>4, <2>2
<1> HIDE DEF from
<1>8. /\ DOMAIN m = stay \cup gone
      /\ \A q \in stay : m[q] = fs[q]
      /\ \A q \in go : Rebased(p, to, q) \in gone /\ m[Rebased(p, to, q)] = fs[q]
  <2>1. DOMAIN m = stay \cup gone /\ \A q \in stay : m[q] = fs[q]
    BY <1>2
  <2>2. ASSUME NEW q \in go
        PROVE  Rebased(p, to, q) \in gone /\ m[Rebased(p, to, q)] = fs[q]
    <3>1. Rebased(p, to, q) \in gone /\ Rebased(p, to, q) \notin stay
      BY <1>6
    <3>2. m[Rebased(p, to, q)] = fs[from(Rebased(p, to, q))]
      BY <1>2, <3>1
    <3> QED BY <1>7, <3>1, <3>2
  <2> QED BY <2>1, <2>2
<1>9. \A q \in DOMAIN m : q \in stay \/ \E r \in go : q = Rebased(p, to, r) /\ m[q] = fs[r]
  BY <1>8
<1>10. m \in [DOMAIN m -> Inode]
  <2>1. m = [q \in DOMAIN m |-> m[q]]
    BY <1>2
  <2>2. \A q \in DOMAIN m : m[q] \in Inode
    BY <1>8, <1>9 DEF CardOK
  <2> HIDE DEF m
  <2> QED BY <2>1, <2>2
<1> HIDE DEF m
<1>11. IsFiniteSet(DOMAIN m)
  <2>1. IsFiniteSet(DOMAIN fs)
    BY DEF CardOK
  <2>2. IsFiniteSet(stay) /\ IsFiniteSet(go)
    BY <2>1, FS_Subset
  <2>3. IsFiniteSet(gone)
    <3> DEFINE f == [r \in go |-> Rebased(p, to, r)]
    <3>1. f \in Surjection(go, gone)
      BY DEF Surjection
    <3> QED BY <2>2, <3>1, FS_Surjection
  <2> HIDE DEF stay, go, gone
  <2>4. IsFiniteSet(stay \cup gone)
    BY <2>2, <2>3, FS_Union
  <2> QED BY <1>8, <2>4
<1>12. DOMAIN m \subseteq Paths
  BY <1>1, <1>6, <1>8
<1>13. Tree(m)
  <2>1. SUFFICES ASSUME NEW q \in DOMAIN m, NEW r \in Paths, IsStrictPrefix(r, q)
                 PROVE  r \in DOMAIN m /\ m[r].dir
    BY DEF Tree
  <2>2. q \in Paths /\ q \in Seq(Names) /\ r \in Seq(Names)
    BY <1>12, PathFacts
  \* What leads to a path that stays, stays.
  <2>3. ASSUME r \in DOMAIN fs, fs[r].dir, ~Below(p, r)
        PROVE  r \in DOMAIN m /\ m[r].dir
    <3>1. r \in stay
      BY <2>3
    <3> QED BY <1>8, <2>3, <3>1
  <2>4. CASE q \in stay
    <3>1. r \in DOMAIN fs /\ fs[r].dir
      BY <2>1, <2>4 DEF CardOK, Tree
    <3>2. ~Below(p, r)
      BY <1>1, <2>1, <2>2, <2>4, BelowOrder
    <3> QED BY <2>3, <3>1, <3>2
  <2>5. CASE q \in gone
    <3>1. PICK w \in go : q = Rebased(p, to, w)
      BY <2>5
    <3>2. w \in DOMAIN fs /\ w \in Paths /\ Below(p, w) /\ Below(to, q)
      BY <1>3, <1>4, <3>1
    <3>3. Below(to, r) \/ IsStrictPrefix(r, to)
      BY <1>1, <2>1, <2>2, <3>2, BelowOrder
    <3>4. CASE IsStrictPrefix(r, to)
      <4>1. Front(to) \in Paths /\ (r = Front(to) \/ IsStrictPrefix(r, Front(to)))
        BY <3>4, FolderFirst
      <4>2. Front(to) \in DOMAIN fs /\ fs[Front(to)].dir
        BY <1>1, <4>1, PathFacts DEF IsFolder
      <4>3. r \in DOMAIN fs /\ fs[r].dir
        BY <4>1, <4>2 DEF CardOK, Tree
      <4>4. ~Below(p, r)
        <5>1. Below(r, to)
          BY <3>4 DEF Below
        <5> QED BY <1>1, <2>2, <5>1, BelowOrder
      <4> QED BY <2>3, <4>3, <4>4
    <3>5. CASE Below(to, r)
      <4> DEFINE s == Rebased(to, p, r)
      <4>0. IsStrictPrefix(r, Rebased(p, to, w))
        BY <2>1, <3>1
      <4>1. s \in Paths /\ Below(p, s) /\ IsStrictPrefix(s, w) /\ Rebased(p, to, s) = r
        BY <1>1, <3>2, <3>5, <4>0, RebasedChain
      <4> HIDE DEF s
      <4>2. s \in DOMAIN fs /\ fs[s].dir
        BY <3>2, <4>1 DEF CardOK, Tree
      <4>3. s \in go
        BY <4>1, <4>2
      <4>4. r \in gone /\ m[r] = fs[s]
        BY <1>8, <4>1, <4>3
      <4> QED BY <1>8, <4>2, <4>4
    <3> QED BY <3>3, <3>4, <3>5
  <2> QED BY <1>8, <2>4, <2>5
<1>14. \A q, r \in DOMAIN m : m[q].ino = m[r].ino => q = r
  <2>1. SUFFICES ASSUME NEW q \in DOMAIN m, NEW r \in DOMAIN m, m[q].ino = m[r].ino
                 PROVE  q = r
    OBVIOUS
  <2>2. \A x \in DOMAIN m : \E w \in DOMAIN fs :
          m[x] = fs[w] /\ IF w \in stay THEN x = w ELSE x = Rebased(p, to, w)
    BY <1>8, <1>9
  <2>3. PICK v \in DOMAIN fs :
          m[q] = fs[v] /\ IF v \in stay THEN q = v ELSE q = Rebased(p, to, v)
    BY <2>2
  <2>4. PICK w \in DOMAIN fs :
          m[r] = fs[w] /\ IF w \in stay THEN r = w ELSE r = Rebased(p, to, w)
    BY <2>2
  <2>5. v = w
    BY <2>1, <2>3, <2>4 DEF CardOK
  <2> QED BY <2>3, <2>4, <2>5
<1>15. CardOK(m)
  BY <1>10, <1>11, <1>12, <1>13, <1>14 DEF CardOK
<1>16. \A q \in DOMAIN fs : ~Below(p, q) => q \in DOMAIN m /\ m[q] = fs[q]
  BY <1>8
<1>17. \A q \in DOMAIN fs : Below(p, q) => /\ Rebased(p, to, q) \in DOMAIN m
                                           /\ m[Rebased(p, to, q)] = fs[q]
  BY <1>8
<1>18. \A q \in DOMAIN m : \/ q \in DOMAIN fs /\ ~Below(p, q)
                           \/ \E r \in DOMAIN fs : Below(p, r) /\ q = Rebased(p, to, r)
  BY <1>3, <1>9
<1> QED BY <1>15, <1>16, <1>17, <1>18 DEF m
-----------------------------------------------------------------------------
(* The invariant.                                                            *)

\* A handle stands for what it was shown for, and for a folder only if it is
\* one: renaming a folder ends the handles below it by that.
Linked(t, fs, s) ==
  \A h \in DOMAIN t : t[h].valid => /\ t[h].path \in DOMAIN fs
                                    /\ fs[t[h].path].ino = s[h]
                                    /\ fs[t[h].path].dir => t[h].dir
OnePath(t) ==
  \A g, h \in DOMAIN t : t[g].valid /\ t[h].valid /\ t[g].path = t[h].path => g = h
Tracked == Linked(db, sd, shown) /\ OnePath(db)

\* The file of a pending upload is the one the host was given its handle for.
Uploading ==
  pending # NoUpload => /\ writer \in DOMAIN sd /\ ~sd[writer].dir
                        /\ sd[writer].ino = shown[pending.handle]

Base == TypeOK /\ CardOK(sd) /\ UploadOwned /\ Uploading

\* A copy that fails on the card removes what a handle may stand for.
MtInv == Base /\ ("write" \notin Faults => Tracked)

\* What a handler finds once the dispatcher abandoned a pending upload.
Kept == Linked(Db, Sd, shown) /\ OnePath(Db)

LEMMA Abandoned ==
  ASSUME Base
  PROVE  /\ Db \in Tables /\ DOMAIN Db = DOMAIN db
         /\ \A h \in DOMAIN db : Db[h].valid => db[h].valid /\ Db[h] = db[h]
         /\ CardOK(Sd) /\ DOMAIN Sd \subseteq DOMAIN sd /\ \A q \in DOMAIN Sd : Sd[q] = sd[q]
         /\ Writer = NoUpload
         /\ pending # NoUpload => /\ pending.handle \in DOMAIN db /\ ~Db[pending.handle].valid
                                  /\ pending.path \in DOMAIN sd /\ pending.path \notin DOMAIN Sd
                                  /\ sd[pending.path].ino = shown[pending.handle]
         /\ Tracked => Kept
<1>0. db \in Tables
  BY DEF Base, TypeOK, Tables
<1>1. CASE pending = NoUpload
  <2>1. Db = db /\ Sd = sd /\ Writer = writer
    BY <1>1 DEF Db, Sd, Writer
  <2>2. writer = NoUpload
    BY <1>1 DEF Base, UploadOwned
  <2> QED BY <1>0, <1>1, <2>1, <2>2 DEF Base, Tracked, Kept
<1>2. CASE pending # NoUpload
  <2> DEFINE k == pending.handle
             p == pending.path
  <2>1. /\ writer = p /\ writer # NoUpload /\ k \in DOMAIN db /\ db[k].valid /\ db[k].path = p
        /\ p \in DOMAIN sd /\ ~sd[p].dir /\ sd[p].ino = shown[k]
    BY <1>2 DEF Base, UploadOwned, Uploading, Valid
  <2>2. Db = Invalidate(db, k) /\ Sd = Removed(sd, p) /\ Writer = NoUpload
    BY <1>2, <2>1 DEF Db, Sd, Writer, WriteEnd
  <2> HIDE DEF k, p
  <2>3. p \in Paths /\ \A q \in DOMAIN sd : ~IsStrictPrefix(p, q)
    BY <2>1, NothingBelow DEF Base, CardOK
  <2>4. /\ CardOK(Sd) /\ DOMAIN Sd = DOMAIN sd \ {p} /\ \A q \in DOMAIN sd \ {p} : Sd[q] = sd[q]
    BY <2>2, <2>3, RemovedFacts DEF Base
  <2>5. /\ Db \in Tables /\ DOMAIN Db = DOMAIN db
        /\ \A g \in DOMAIN db : Db[g].valid <=> (g # k /\ db[g].valid)
        /\ \A g \in DOMAIN db : Db[g].valid => Db[g] = db[g]
    BY <1>0, <2>2, InvalidateFacts
  <2>6. Tracked => Kept
    <3>1. SUFFICES ASSUME Tracked PROVE Linked(Db, Sd, shown) /\ OnePath(Db)
      BY DEF Kept
    <3>2. OnePath(Db)
      BY <2>5, <3>1 DEF Tracked, OnePath
    <3>3. ASSUME NEW h \in DOMAIN Db, Db[h].valid
          PROVE  /\ Db[h].path \in DOMAIN Sd /\ Sd[Db[h].path].ino = shown[h]
                 /\ Sd[Db[h].path].dir => Db[h].dir
      <4>1. h # k /\ h \in DOMAIN db /\ db[h].valid /\ Db[h] = db[h]
        BY <2>5, <3>3
      <4>2. db[h].path # p
        BY <2>1, <3>1, <4>1 DEF Tracked, OnePath
      <4> QED BY <2>4, <3>1, <4>1, <4>2 DEF Tracked, Linked
    <3> QED BY <3>2, <3>3 DEF Linked
  <2> QED BY <2>1, <2>2, <2>4, <2>5, <2>6 DEF k, p
<1> QED BY <1>1, <1>2
-----------------------------------------------------------------------------
(* What a handler leaves.                                                    *)

\* For every handle in table t, hs of them shown anew: the object on card fs.
Tracks(t, fs, hs) ==
  /\ OnePath(t)
  /\ \A h \in DOMAIN t : t[h].valid => /\ t[h].path \in DOMAIN fs
                                       /\ fs[t[h].path].dir => t[h].dir
                                       /\ h \notin hs => fs[t[h].path].ino = shown[h]

\* Table t and card fs may be left: no handle that ended is back, no object the
\* host knows by one that is gone is on the card.
Handled(t, fs, hs) ==
  /\ t \in Tables /\ CardOK(fs) /\ DOMAIN Db \subseteq DOMAIN t
  /\ \A h \in DOMAIN Db : t[h].valid => Db[h].valid
  /\ \A h \in DOMAIN t : t[h].valid => IF h \in hs THEN t[h].path \in DOMAIN fs
                                                   ELSE h \in DOMAIN Db
  /\ \A q \in DOMAIN fs : (\E p \in DOMAIN Sd : fs[q].ino = Sd[p].ino) \/ fs[q].ino \notin Inodes
  /\ "write" \notin Faults /\ Kept => Tracks(t, fs, hs)

\* Changing nothing.
LEMMA UntouchedHandled ==
  ASSUME Base
  PROVE  Handled(Db, Sd, {})
<1>1. Db \in Tables /\ CardOK(Sd)
  BY Abandoned
<1>2. Kept => Tracks(Db, Sd, {})
  BY DEF Kept, Tracks, Linked
<1> QED BY <1>1, <1>2 DEF Handled

\* A file or a folder made anew, or a file written over.
LEMMA PutHandled ==
  ASSUME Base, NEW p \in Paths, IsFolder(Sd, Front(p)), ~(p \in DOMAIN Sd /\ Sd[p].dir),
         Unused # {}, NEW d \in BOOLEAN, NEW len \in Nat
  PROVE  /\ Handled(Intern(Db, p, d), Put(Sd, p, Made(d, len)), {HandleFor(Db, p)})
         /\ p \in DOMAIN Put(Sd, p, Made(d, len)) /\ Put(Sd, p, Made(d, len))[p].dir = d
<1> DEFINE k == HandleFor(Db, p)
           t == Intern(Db, p, d)
           i == Made(d, len)
           fs == Put(Sd, p, i)
<1>1. Db \in Tables /\ CardOK(Sd)
  BY Abandoned
<1>2. i \in Inode /\ i.dir = d /\ i.ino \notin Inodes
  <2>1. (CHOOSE u \in Unused : TRUE) \in Unused
    OBVIOUS
  <2>2. \A u \in Unused : u \in Nat /\ u \notin Inodes
    BY MtpAssumption DEF Unused
  <2> QED BY <2>1, <2>2 DEF Made, Inode
<1> HIDE DEF i
<1>3. \A q \in DOMAIN Sd : Sd[q].ino # i.ino
  BY <1>2 DEF Inodes
<1>4. /\ CardOK(fs) /\ DOMAIN fs = DOMAIN Sd \cup {p} /\ fs[p] = i
      /\ \A q \in DOMAIN Sd \ {p} : fs[q] = Sd[q]
  <2>1. DOMAIN fs = DOMAIN Sd \cup {p} /\ fs[p] = i /\ \A q \in DOMAIN Sd \ {p} : fs[q] = Sd[q]
    BY DEF Put
  <2>2. CardOK(fs)
    BY <1>1, <1>2, <1>3, PutFacts, Zenon
  <2> QED BY <2>1, <2>2
<1>5. /\ t \in Tables /\ DOMAIN t = DOMAIN Db \cup {k} /\ k \in Nat \ {0}
      /\ t[k] = Object(p, d)
      /\ \A g \in DOMAIN Db : g # k => t[g] = Db[g]
      /\ k \in DOMAIN Db => Db[k].valid /\ Db[k].path = p
  <2> HIDE DEF fs
  <2> QED BY <1>1, InternFacts
<1>6. k \notin DOMAIN Db => Find(Db, p) = {}
  BY <1>1, HandleForFacts
<1> HIDE DEF k, t, fs
<1>t. /\ t[k].valid /\ t[k].path = p /\ t[k].dir = d
      /\ \A g \in DOMAIN Db : t[g].valid => Db[g].valid
  BY <1>5, ObjectFacts
<1>7. ASSUME Kept
      PROVE  Tracks(t, fs, {k})
  <2>1. \A g \in DOMAIN Db : Db[g].valid /\ g # k => Db[g].path # p
    <3>1. CASE k \in DOMAIN Db
      BY <1>5, <1>t, <1>7, <3>1 DEF Kept, OnePath
    <3>2. CASE k \notin DOMAIN Db
      BY <1>6, <3>2 DEF Find
    <3> QED BY <3>1, <3>2
  <2>2. OnePath(t)
    BY <1>5, <1>t, <1>7, <2>1 DEF Kept, OnePath
  <2>3. ASSUME NEW h \in DOMAIN t, t[h].valid
        PROVE  /\ t[h].path \in DOMAIN fs
               /\ fs[t[h].path].dir => t[h].dir
               /\ h \notin {k} => fs[t[h].path].ino = shown[h]
    <3>1. CASE h = k
      BY <1>2, <1>4, <1>5, <1>t, <3>1
    <3>2. CASE h # k
      <4>1. h \in DOMAIN Db /\ t[h] = Db[h] /\ Db[h].valid
        BY <1>5, <1>t, <2>3, <3>2
      <4>2. /\ Db[h].path \in DOMAIN Sd \ {p} /\ Sd[Db[h].path].ino = shown[h]
            /\ Sd[Db[h].path].dir => Db[h].dir
        BY <1>7, <2>1, <3>2, <4>1 DEF Kept, Linked
      <4> QED BY <1>4, <4>1, <4>2
    <3> QED BY <3>1, <3>2
  <2> QED BY <2>2, <2>3 DEF Tracks
<1>8. \A q \in DOMAIN fs : (\E r \in DOMAIN Sd : fs[q].ino = Sd[r].ino) \/ fs[q].ino \notin Inodes
  BY <1>2, <1>4
<1>9. Handled(t, fs, {k})
  BY <1>4, <1>5, <1>t, <1>7, <1>8 DEF Handled
<1> QED BY <1>2, <1>4, <1>9 DEF k, t, i, fs

\* A folder that mkdir found there.
LEMMA KnownHandled ==
  ASSUME Base, NEW p \in DOMAIN Sd
  PROVE  Handled(Intern(Db, p, TRUE), Sd, {HandleFor(Db, p)})
<1> DEFINE k == HandleFor(Db, p)
           t == Intern(Db, p, TRUE)
<1>1. Db \in Tables /\ CardOK(Sd) /\ p \in Paths
  BY Abandoned DEF CardOK
<1>a. /\ t \in Tables /\ DOMAIN t = DOMAIN Db \cup {k} /\ k \in Nat \ {0}
      /\ t[k] = Object(p, TRUE)
      /\ \A g \in DOMAIN Db : g # k => t[g] = Db[g]
      /\ k \in DOMAIN Db => Db[k].valid /\ Db[k].path = p
  <2>1. TRUE \in BOOLEAN
    OBVIOUS
  <2> QED BY <1>1, <2>1, InternFacts
<1>2. /\ t \in Tables /\ DOMAIN t = DOMAIN Db \cup {k} /\ k \in Nat \ {0}
      /\ t[k].valid /\ t[k].path = p /\ t[k].dir = TRUE
      /\ \A g \in DOMAIN Db : g # k => t[g] = Db[g]
      /\ \A g \in DOMAIN Db : t[g].valid => Db[g].valid
      /\ k \in DOMAIN Db => Db[k].valid /\ Db[k].path = p
  <2> HIDE DEF k, t
  <2> QED BY <1>1, <1>a, ObjectFacts
<1>3. k \notin DOMAIN Db => Find(Db, p) = {}
  BY <1>1, HandleForFacts
<1> HIDE DEF k, t
<1>4. ASSUME Kept
      PROVE  Tracks(t, Sd, {k})
  <2>1. \A g \in DOMAIN Db : Db[g].valid /\ g # k => Db[g].path # p
    <3>1. CASE k \in DOMAIN Db
      BY <1>2, <1>4, <3>1 DEF Kept, OnePath
    <3>2. CASE k \notin DOMAIN Db
      BY <1>3, <3>2 DEF Find
    <3> QED BY <3>1, <3>2
  <2>2. OnePath(t)
    BY <1>2, <1>4, <2>1 DEF Kept, OnePath
  <2>3. ASSUME NEW h \in DOMAIN t, t[h].valid
        PROVE  /\ t[h].path \in DOMAIN Sd
               /\ Sd[t[h].path].dir => t[h].dir
               /\ h \notin {k} => Sd[t[h].path].ino = shown[h]
    <3>1. CASE h = k
      BY <1>2, <3>1
    <3>2. CASE h # k
      <4>1. h \in DOMAIN Db /\ t[h] = Db[h] /\ Db[h].valid
        BY <1>2, <2>3, <3>2
      <4> QED BY <1>4, <4>1 DEF Kept, Linked
    <3> QED BY <3>1, <3>2
  <2> QED BY <2>2, <2>3 DEF Tracks
<1>5. Handled(t, Sd, {k})
  BY <1>1, <1>2, <1>4 DEF Handled
<1> QED BY <1>5 DEF k, t

\* An upload that is refused once its handle was reserved.
LEMMA ReservedHandled ==
  ASSUME Base, NEW p \in Paths
  PROVE  Handled(Invalidate(Intern(Db, p, FALSE), HandleFor(Db, p)), Sd, {})
<1> DEFINE k == HandleFor(Db, p)
           u == Intern(Db, p, FALSE)
           t == Invalidate(u, k)
<1>1. Db \in Tables /\ CardOK(Sd)
  BY Abandoned
<1>2. /\ u \in Tables /\ DOMAIN u = DOMAIN Db \cup {k}
      /\ \A g \in DOMAIN Db : g # k => u[g] = Db[g]
  <2>1. FALSE \in BOOLEAN
    OBVIOUS
  <2> QED BY <1>1, <2>1, InternFacts
<1> HIDE DEF u
<1>3. /\ t \in Tables /\ DOMAIN t = DOMAIN u
      /\ \A g \in DOMAIN u : t[g].valid <=> (g # k /\ u[g].valid)
      /\ \A g \in DOMAIN u : t[g].valid => t[g] = u[g]
  BY <1>2, InvalidateFacts
<1> HIDE DEF k, t
<1>4. \A h \in DOMAIN t : t[h].valid => h \in DOMAIN Db /\ t[h] = Db[h] /\ Db[h].valid
  BY <1>2, <1>3
<1>5. Kept => Tracks(t, Sd, {})
  BY <1>4 DEF Kept, Linked, OnePath, Tracks
<1>6. Handled(t, Sd, {})
  BY <1>1, <1>2, <1>3, <1>4, <1>5 DEF Handled
<1> QED BY <1>6 DEF k, u, t

\* What is deleted has no other handle.
LEMMA DeletedHandled ==
  ASSUME Base, NEW h \in DOMAIN Db, Db[h].valid, CanRemove(Sd, Db[h].path, Db[h].dir)
  PROVE  Handled(Invalidate(Db, h), Removed(Sd, Db[h].path), {})
<1> DEFINE p == Db[h].path
           t == Invalidate(Db, h)
           fs == Removed(Sd, p)
<1>1. Db \in Tables /\ CardOK(Sd)
  BY Abandoned
<1>2. p \in Paths /\ InFolder(Sd, p) = {}
  BY <1>1, TableFacts DEF CanRemove
<1> HIDE DEF p
<1>3. \A q \in DOMAIN Sd : ~IsStrictPrefix(p, q)
  BY <1>1, <1>2, NothingBelow
<1>4. CardOK(fs) /\ DOMAIN fs = DOMAIN Sd \ {p} /\ \A q \in DOMAIN Sd \ {p} : fs[q] = Sd[q]
  BY <1>1, <1>3, RemovedFacts
<1>5. /\ t \in Tables /\ DOMAIN t = DOMAIN Db
      /\ \A g \in DOMAIN Db : t[g].valid <=> (g # h /\ Db[g].valid)
      /\ \A g \in DOMAIN Db : t[g].valid => t[g] = Db[g]
  BY <1>1, InvalidateFacts
<1> HIDE DEF t, fs
<1>6. ASSUME Kept
      PROVE  Tracks(t, fs, {})
  <2>1. \A g \in DOMAIN t : t[g].valid => g # h /\ t[g] = Db[g] /\ Db[g].valid /\ Db[g].path # p
    BY <1>5, <1>6 DEF Kept, OnePath, p
  <2>2. OnePath(t)
    BY <1>5, <1>6, <2>1 DEF Kept, OnePath
  <2> QED BY <1>4, <1>5, <1>6, <2>1, <2>2 DEF Kept, Linked, Tracks
<1>7. Handled(t, fs, {})
  BY <1>4, <1>5, <1>6 DEF Handled
<1> QED BY <1>7 DEF p, t, fs

\* The handle of what moves follows it, the handles below it end.
LEMMA MovedHandled ==
  ASSUME Base, NEW h \in DOMAIN Db, Db[h].valid, NEW to \in Paths,
         CanMove(Sd, Db[h].path, to)
  PROVE  Handled(Rename(Db, h, to), Moved(Sd, Db[h].path, to), {})
<1> DEFINE p == Db[h].path
           t == Rename(Db, h, to)
           fs == Moved(Sd, p, to)
<1>1. Db \in Tables /\ CardOK(Sd)
  BY Abandoned
<1>2. /\ p \in Paths /\ p \in DOMAIN Sd /\ to \notin DOMAIN Sd
      /\ p \in Seq(Names) /\ to \in Seq(Names)
  BY <1>1, TableFacts, PathFacts DEF CanMove
<1>3. /\ t \in Tables /\ DOMAIN t = DOMAIN Db
      /\ t[h].valid /\ t[h].path = to /\ t[h].dir = Db[h].dir
      /\ \A g \in DOMAIN Db : g # h /\ t[g].valid => t[g] = Db[g] /\ g \notin Descendants(Db, h)
  BY <1>1, RenameFacts
<1>4. /\ CardOK(fs)
      /\ \A q \in DOMAIN Sd : ~Below(p, q) => q \in DOMAIN fs /\ fs[q] = Sd[q]
      /\ \A q \in DOMAIN Sd : Below(p, q) => /\ Rebased(p, to, q) \in DOMAIN fs
                                             /\ fs[Rebased(p, to, q)] = Sd[q]
      /\ \A q \in DOMAIN fs : \/ q \in DOMAIN Sd /\ ~Below(p, q)
                              \/ \E r \in DOMAIN Sd : Below(p, r) /\ q = Rebased(p, to, r)
  BY <1>1, MovedFacts
<1>5. Below(p, p) /\ Rebased(p, to, p) = to
  <2>1. Below(p, p)
    BY <1>2, BelowOrder
  <2>2. SubSeq(p, Len(p) + 1, Len(p)) = <<>>
    <3>1. Len(p) \in Nat
      BY <1>2, LenProperties
    <3> QED BY <3>1, SubSeqEmpty
  <2>3. to \o <<>> = to
    BY <1>2, ConcatEmptySeq
  <2> QED BY <2>1, <2>2, <2>3 DEF Rebased
<1> HIDE DEF t, fs
<1>6. ASSUME Kept
      PROVE  Tracks(t, fs, {})
  <2>1. /\ to \in DOMAIN fs /\ fs[to] = Sd[p]
        /\ Sd[p].ino = shown[h]
        /\ Sd[p].dir => Db[h].dir
    BY <1>2, <1>4, <1>5, <1>6 DEF Kept, Linked
  <2>2. ASSUME NEW g \in DOMAIN Db, g # h, t[g].valid
        PROVE  /\ t[g] = Db[g] /\ Db[g].valid
               /\ Db[g].path \in DOMAIN Sd /\ Sd[Db[g].path].ino = shown[g]
               /\ Sd[Db[g].path].dir => Db[g].dir
               /\ Db[g].path \in DOMAIN fs /\ fs[Db[g].path] = Sd[Db[g].path]
    <3>1. t[g] = Db[g] /\ Db[g].valid /\ g \notin Descendants(Db, h)
      BY <1>3, <2>2
    <3>2. /\ Db[g].path \in DOMAIN Sd /\ Sd[Db[g].path].ino = shown[g]
          /\ Sd[Db[g].path].dir => Db[g].dir
      BY <1>6, <3>1 DEF Kept, Linked
    <3>3. Db[g].path # p
      BY <1>6, <2>2, <3>1 DEF Kept, OnePath
    <3>4. ~IsStrictPrefix(p, Db[g].path)
      <4>1. SUFFICES ASSUME IsStrictPrefix(p, Db[g].path) PROVE FALSE
        OBVIOUS
      <4>2. Sd[p].dir
        BY <1>1, <1>2, <3>2, <4>1 DEF CardOK, Tree
      <4>3. Db[h].dir
        BY <2>1, <4>2
      <4> QED BY <3>1, <4>1, <4>3 DEF Descendants
    <3>5. ~Below(p, Db[g].path)
      BY <3>3, <3>4 DEF Below
    <3> QED BY <1>4, <3>1, <3>2, <3>5
  <2>3. OnePath(t)
    <3>1. SUFFICES ASSUME NEW g \in DOMAIN Db, NEW c \in DOMAIN Db,
                          t[g].valid, t[c].valid, t[g].path = t[c].path, g # c
                   PROVE  FALSE
      BY <1>3 DEF OnePath
    <3>2. CASE g = h
      BY <1>2, <1>3, <2>2, <3>1, <3>2
    <3>3. CASE c = h
      BY <1>2, <1>3, <2>2, <3>1, <3>3
    <3>4. CASE g # h /\ c # h
      BY <1>6, <2>2, <3>1, <3>4 DEF Kept, OnePath
    <3> QED BY <3>2, <3>3, <3>4
  <2>4. ASSUME NEW g \in DOMAIN t, t[g].valid
        PROVE  /\ t[g].path \in DOMAIN fs
               /\ fs[t[g].path].dir => t[g].dir
               /\ fs[t[g].path].ino = shown[g]
    <3>1. CASE g = h
      BY <1>3, <2>1, <3>1
    <3>2. CASE g # h
      BY <1>3, <2>2, <2>4, <3>2
    <3> QED BY <3>1, <3>2
  <2> QED BY <2>3, <2>4 DEF Tracks
<1>7. \A q \in DOMAIN fs : \E r \in DOMAIN Sd : fs[q].ino = Sd[r].ino
  BY <1>4
<1>8. \A g \in DOMAIN Db : t[g].valid => Db[g].valid
  BY <1>3
<1>9. Handled(t, fs, {})
  BY <1>3, <1>4, <1>6, <1>7, <1>8 DEF Handled
<1> QED BY <1>9 DEF t, fs

\* A copy that fails takes its destination away, whatever stands for that.
LEMMA CutCopyHandled ==
  ASSUME Base, "write" \in Faults, NEW to \in Paths, ~(to \in DOMAIN Sd /\ Sd[to].dir)
  PROVE  Handled(Db, Removed(Sd, to), {})
<1>1. Db \in Tables /\ CardOK(Sd)
  BY Abandoned
<1>2. \A q \in DOMAIN Sd : ~IsStrictPrefix(to, q)
  BY <1>1, NothingBelow
<1>3. /\ CardOK(Removed(Sd, to)) /\ DOMAIN Removed(Sd, to) = DOMAIN Sd \ {to}
      /\ \A q \in DOMAIN Sd \ {to} : Removed(Sd, to)[q] = Sd[q]
  BY <1>1, <1>2, RemovedFacts
<1> QED BY <1>1, <1>3 DEF Handled

\* Listing a folder gives its unknown children the next handles.
LEMMA ListedHandled ==
  ASSUME Base, NEW kids \in SUBSET DOMAIN Sd,
         NEW order \in SetToSeqs({p \in kids : Find(Db, p) = {}})
  PROVE  LET t == Listed(kids, order)
         IN Handled(t, Sd, {g \in DOMAIN t : t[g].path \in kids})
<1> DEFINE unknown == {p \in kids : Find(Db, p) = {}}
           n == Cardinality(unknown)
           m == Len(Db)
           t == Listed(kids, order)
           hs == {g \in DOMAIN t : t[g].path \in kids}
<1>1. Db \in Tables /\ CardOK(Sd)
  BY Abandoned
<1>2. m \in Nat /\ DOMAIN Db = 1 .. m /\ Db \in [1 .. m -> Objects(Paths)]
  BY <1>1, TableFacts
<1>3. /\ n \in Nat /\ order \in [1 .. n -> unknown] /\ Len(order) = n
      /\ \A i, j \in 1 .. n : i # j => order[i] # order[j]
  <2>1. IsFiniteSet(unknown)
    BY <1>1, FS_Subset DEF CardOK
  <2>2. n \in Nat
    BY <2>1, FS_CardinalityType
  <2>3. order \in [1 .. n -> unknown] /\ \A i, j \in 1 .. n : i # j => order[i] # order[j]
    BY DEF SetToSeqs
  <2> HIDE DEF n, unknown
  <2>4. order \in Seq(unknown)
    BY <2>2, <2>3, SeqDef
  <2>5. Len(order) \in Nat /\ DOMAIN order = 1 .. Len(order) /\ DOMAIN order = 1 .. n
    BY <2>3, <2>4, LenProperties
  <2>6. Len(order) = n
    <3> DEFINE l == Len(order)
    <3>1. l \in Nat /\ 1 .. l = 1 .. n
      BY <2>5
    <3> HIDE DEF l
    <3>2. l = n
      BY <2>2, <3>1
    <3> QED BY <3>2 DEF l
  <2> QED BY <2>2, <2>3, <2>6
<1>4. \A p \in unknown : p \in kids /\ p \in DOMAIN Sd /\ p \in Paths /\ Find(Db, p) = {}
  BY <1>1 DEF CardOK
<1>5. t = [h \in 1 .. (m + n) |->
             IF h > m THEN Object(order[h - m], Sd[order[h - m]].dir)
             ELSE IF \E p \in kids : h \in Find(Db, p)
               THEN Object(Db[h].path, Sd[Db[h].path].dir)
             ELSE Db[h]]
  BY <1>3 DEF Listed
<1> HIDE DEF unknown, n, m, t
<1>6. \A p \in DOMAIN Sd : p \in Paths /\ Sd[p].dir \in BOOLEAN
  BY <1>1 DEF CardOK, Inode
\* New handles, in the order they are found.
<1>7. ASSUME NEW h \in 1 .. (m + n), h > m
      PROVE  /\ h - m \in 1 .. n /\ order[h - m] \in unknown
             /\ t[h] = Object(order[h - m], Sd[order[h - m]].dir)
  BY <1>2, <1>3, <1>5, <1>7
\* A known child is refreshed, the rest kept.
<1>8. ASSUME NEW h \in 1 .. m
      PROVE  /\ h \in 1 .. (m + n)
             /\ Db[h].valid /\ Db[h].path \in kids => t[h] = Object(Db[h].path, Sd[Db[h].path].dir)
             /\ ~(Db[h].valid /\ Db[h].path \in kids) => t[h] = Db[h]
  <2>1. h \in 1 .. (m + n) /\ ~(h > m)
    BY <1>2, <1>3
  <2>2. (\E p \in kids : h \in Find(Db, p)) <=> Db[h].valid /\ Db[h].path \in kids
    BY <1>2 DEF Find
  <2> QED BY <1>5, <2>1, <2>2
<1>9. \A h \in 1 .. (m + n) : t[h] \in Objects(Paths)
  <2>1. SUFFICES ASSUME NEW h \in 1 .. (m + n) PROVE t[h] \in Objects(Paths)
    OBVIOUS
  <2>2. CASE h > m
    BY <1>4, <1>6, <1>7, <2>2, ObjectFacts
  <2>3. CASE h \in 1 .. m
    BY <1>2, <1>6, <1>8, <2>3, ObjectFacts
  <2> QED BY <1>2, <2>2, <2>3
<1>10. t \in Tables /\ DOMAIN t = 1 .. (m + n)
  <2>1. m + n \in Nat
    BY <1>2, <1>3
  <2>2. t = [h \in 1 .. (m + n) |-> t[h]]
    BY <1>5
  <2>3. t \in [1 .. (m + n) -> Objects(Paths)]
    BY <1>9, <2>2
  <2> QED BY <2>1, <2>3, TableIntro
\* What an entry that was there is now.
<1>11. \A h \in 1 .. m : /\ t[h].valid <=> Db[h].valid
                         /\ Db[h].valid => t[h].path = Db[h].path
                         /\ Db[h].valid /\ Db[h].path \in kids => t[h].dir = Sd[Db[h].path].dir
                         /\ Db[h].path \notin kids => t[h] = Db[h]
  <2>1. SUFFICES ASSUME NEW h \in 1 .. m
                 PROVE  /\ t[h].valid <=> Db[h].valid
                        /\ Db[h].valid => t[h].path = Db[h].path
                        /\ Db[h].valid /\ Db[h].path \in kids => t[h].dir = Sd[Db[h].path].dir
                        /\ Db[h].path \notin kids => t[h] = Db[h]
    OBVIOUS
  <2>2. CASE Db[h].valid /\ Db[h].path \in kids
    <3>1. Db[h].path \in Paths /\ Sd[Db[h].path].dir \in BOOLEAN
      BY <1>6, <2>2
    <3>2. t[h] = Object(Db[h].path, Sd[Db[h].path].dir)
      BY <1>8, <2>2
    <3>3. t[h].valid /\ t[h].path = Db[h].path /\ t[h].dir = Sd[Db[h].path].dir
      BY <3>1, <3>2, ObjectFacts
    <3> QED BY <2>2, <3>3
  <2>3. CASE ~(Db[h].valid /\ Db[h].path \in kids)
    BY <1>8, <2>3
  <2> QED BY <2>2, <2>3
<1>12. \A h \in 1 .. (m + n) : h > m =>
         /\ t[h].path = order[h - m] /\ t[h].dir = Sd[order[h - m]].dir
         /\ order[h - m] \in unknown /\ h - m \in 1 .. n
  BY <1>4, <1>6, <1>7, ObjectFacts
<1>13. \A h \in DOMAIN t : t[h].valid => IF h \in hs THEN t[h].path \in DOMAIN Sd
                                                     ELSE h \in DOMAIN Db
  <2>1. SUFFICES ASSUME NEW h \in 1 .. (m + n), h \notin hs PROVE h \in 1 .. m
    BY <1>2, <1>10
  <2>2. ~(h > m)
    BY <1>4, <1>10, <1>12, <2>1
  <2> QED BY <1>2, <1>3, <2>2
<1>14. ASSUME Kept
       PROVE  Tracks(t, Sd, hs)
  <2>1. ASSUME NEW g \in 1 .. (m + n), NEW h \in 1 .. (m + n),
               t[g].valid, t[h].valid, t[g].path = t[h].path, g <= m, h > m
        PROVE  FALSE
    <3>1. g \in 1 .. m
      BY <1>2, <2>1
    <3>2. g \in Find(Db, t[h].path)
      BY <1>2, <1>11, <2>1, <3>1 DEF Find
    <3> QED BY <1>4, <1>12, <2>1, <3>2
  <2>2. OnePath(t)
    <3>1. SUFFICES ASSUME NEW g \in 1 .. (m + n), NEW h \in 1 .. (m + n),
                          t[g].valid, t[h].valid, t[g].path = t[h].path
                   PROVE  g = h
      BY <1>10 DEF OnePath
    <3>2. CASE g > m /\ h > m
      <4>1. g - m \in 1 .. n /\ h - m \in 1 .. n /\ order[g - m] = order[h - m]
        BY <1>12, <3>1, <3>2
      <4>2. g - m = h - m
        BY <1>3, <4>1
      <4> QED BY <1>2, <1>3, <4>2
    <3>3. CASE g <= m /\ h <= m
      <4>1. g \in 1 .. m /\ h \in 1 .. m
        BY <1>2, <3>3
      <4>2. Db[g].valid /\ Db[h].valid /\ Db[g].path = Db[h].path
        BY <1>11, <3>1, <4>1
      <4> QED BY <1>2, <1>14, <4>1, <4>2 DEF Kept, OnePath
    <3>4. CASE g <= m /\ h > m
      BY <2>1, <3>1, <3>4
    <3>5. CASE g > m /\ h <= m
      BY <2>1, <3>1, <3>5
    <3> QED BY <1>2, <3>2, <3>3, <3>4, <3>5
  <2>3. ASSUME NEW h \in DOMAIN t, t[h].valid
        PROVE  /\ t[h].path \in DOMAIN Sd
               /\ Sd[t[h].path].dir => t[h].dir
               /\ h \notin hs => Sd[t[h].path].ino = shown[h]
    <3>1. CASE h > m
      <4>1. h \in 1 .. (m + n)
        BY <1>10
      <4>2. t[h].path \in unknown /\ t[h].dir = Sd[t[h].path].dir
        BY <1>12, <3>1, <4>1
      <4>3. h \in hs /\ t[h].path \in DOMAIN Sd
        BY <1>4, <4>2
      <4> QED BY <4>2, <4>3
    <3>2. CASE h <= m
      <4>1. h \in 1 .. m
        BY <1>2, <1>10, <3>2
      <4>2. Db[h].valid /\ t[h].path = Db[h].path
        BY <1>11, <2>3, <4>1
      <4>3. /\ Db[h].path \in DOMAIN Sd /\ Sd[Db[h].path].ino = shown[h]
            /\ Sd[Db[h].path].dir => Db[h].dir
        BY <1>2, <1>14, <4>1, <4>2 DEF Kept, Linked
      <4>4. CASE Db[h].path \in kids
        <5>1. t[h].dir = Sd[t[h].path].dir
          BY <1>11, <4>1, <4>2, <4>4
        <5> QED BY <4>2, <4>3, <5>1
      <4>5. CASE Db[h].path \notin kids
        <5>1. t[h] = Db[h]
          BY <1>11, <4>1, <4>5
        <5> QED BY <4>3, <5>1
      <4> QED BY <4>4, <4>5
    <3> QED BY <1>2, <1>3, <1>10, <3>1, <3>2
  <2> QED BY <2>2, <2>3 DEF Tracks
<1>15. DOMAIN Db \subseteq DOMAIN t
  BY <1>2, <1>3, <1>10
<1>16. \A h \in DOMAIN Db : t[h].valid => Db[h].valid
  BY <1>2, <1>11
<1>17. Handled(t, Sd, hs)
  BY <1>1, <1>10, <1>13, <1>14, <1>15, <1>16 DEF Handled
<1> QED BY <1>17 DEF t, hs
-----------------------------------------------------------------------------
(* Every action keeps the invariant, and what action properties say of it.   *)

Answers == [codes : Seq({"OK", "Refused"}), usb : BOOLEAN, declared : Nat, sent : Nat]

NeverReusedStep ==
  session /\ session' => /\ DOMAIN db \subseteq DOMAIN db'
                         /\ \A h \in DOMAIN db : db'[h].valid => db[h].valid
UploadWholeStep ==
  pending # NoUpload /\ pending' # pending =>
    \/ /\ answer'.codes = <<"OK">> /\ pending.path \in DOMAIN sd'
       /\ sd'[pending.path].len >= (IF pending.size = Unknown THEN 0 ELSE pending.size)
       /\ Valid(db', pending.handle)
    \/ /\ pending.path \notin DOMAIN sd' \/ sd'[pending.path].ino # sd[pending.path].ino
       /\ ~Valid(db', pending.handle)
KeepsAll == MtInv' /\ NeverReusedStep /\ UploadWholeStep

LEMMA AnswerFacts ==
  /\ Silent \in Answers /\ CutOff \in Answers
  /\ \A cs \in Seq({"OK", "Refused"}) : [Silent EXCEPT !.codes = cs] \in Answers
  /\ <<>> \in Seq({"OK", "Refused"}) /\ <<"OK">> \in Seq({"OK", "Refused"})
  /\ <<"Refused">> \in Seq({"OK", "Refused"}) /\ <<"Refused", "OK">> \in Seq({"OK", "Refused"})
<1>1. /\ <<>> \in Seq({"OK", "Refused"}) /\ <<"OK">> \in Seq({"OK", "Refused"})
      /\ <<"Refused">> \in Seq({"OK", "Refused"}) /\ <<"Refused", "OK">> \in Seq({"OK", "Refused"})
  OBVIOUS
<1>2. Silent \in Answers
  BY <1>1 DEF Silent, Answers
<1>3. CutOff \in Answers
  BY <1>2 DEF CutOff, Answers
<1>4. \A cs \in Seq({"OK", "Refused"}) : [Silent EXCEPT !.codes = cs] \in Answers
  BY <1>2 DEF Answers
<1> QED BY <1>1, <1>2, <1>3, <1>4

LEMMA ReplyOK ==
  /\ Reply(<<"OK">>) => answer' \in Answers
  /\ Reply(<<"Refused">>) => answer' \in Answers
BY AnswerFacts DEF Reply

\* Whatever a handler leaves, an upload that was pending is gone without trace.
LEMMA Outcome ==
  ASSUME MtInv, NEW t, NEW fs, NEW hs, Handled(t, fs, hs), db' = t, sd' = fs, Show(hs)
  PROVE  /\ db' \in Tables /\ CardOK(sd')
         /\ DOMAIN shown' = DOMAIN db' /\ \A h \in DOMAIN shown' : shown'[h] \in Nat
         /\ \A h \in hs : h \in DOMAIN db' /\ db'[h].valid => shown'[h] = sd'[db'[h].path].ino
         /\ "write" \notin Faults => Tracked'
         /\ DOMAIN db \subseteq DOMAIN db' /\ \A h \in DOMAIN db : db'[h].valid => db[h].valid
         /\ pending # NoUpload =>
              /\ pending.path \notin DOMAIN sd' \/ sd'[pending.path].ino # sd[pending.path].ino
              /\ ~Valid(db', pending.handle)
<1>1. /\ Base /\ db' \in Tables /\ CardOK(sd') /\ DOMAIN shown = DOMAIN db
      /\ \A h \in DOMAIN shown : shown[h] \in Nat
  BY DEF MtInv, Base, TypeOK, Handled
<1>2. /\ DOMAIN Db = DOMAIN db /\ \A h \in DOMAIN db : Db[h].valid => db[h].valid /\ Db[h] = db[h]
      /\ DOMAIN Sd \subseteq DOMAIN sd /\ \A q \in DOMAIN Sd : Sd[q] = sd[q]
      /\ pending # NoUpload => /\ pending.handle \in DOMAIN db /\ ~Db[pending.handle].valid
                               /\ pending.path \in DOMAIN sd /\ pending.path \notin DOMAIN Sd
                               /\ sd[pending.path].ino = shown[pending.handle]
      /\ Tracked => Kept
  BY <1>1, Abandoned
<1>3. /\ DOMAIN db \subseteq DOMAIN db'
      /\ \A h \in DOMAIN db : db'[h].valid => Db[h].valid
      /\ \A h \in DOMAIN db' : db'[h].valid => IF h \in hs THEN db'[h].path \in DOMAIN sd'
                                                       ELSE h \in DOMAIN db
      /\ \A q \in DOMAIN sd' : \/ \E p \in DOMAIN Sd : sd'[q].ino = Sd[p].ino
                               \/ sd'[q].ino \notin Inodes
      /\ "write" \notin Faults /\ Kept => Tracks(db', sd', hs)
  BY <1>2 DEF Handled
<1>4. /\ DOMAIN shown' = DOMAIN db'
      /\ \A h \in DOMAIN db' : shown'[h] = IF ~db'[h].valid THEN 0
                                           ELSE IF h \in hs THEN sd'[db'[h].path].ino ELSE shown[h]
  BY DEF Show
<1>5. \A q \in DOMAIN sd' : sd'[q].ino \in Nat
  BY <1>1 DEF CardOK, Inode
<1>6. \A h \in DOMAIN shown' : shown'[h] \in Nat
  BY <1>1, <1>3, <1>4, <1>5
<1>7. "write" \notin Faults => Tracked'
  <2>1. SUFFICES ASSUME "write" \notin Faults PROVE Tracked'
    OBVIOUS
  <2>2. Tracks(db', sd', hs)
    BY <1>2, <1>3, <2>1 DEF MtInv
  <2>3. (OnePath(db))'
    BY <2>2 DEF Tracks, OnePath
  <2>4. (Linked(db, sd, shown))'
    <3>1. ASSUME NEW h \in DOMAIN db', db'[h].valid
          PROVE  /\ db'[h].path \in DOMAIN sd' /\ sd'[db'[h].path].ino = shown'[h]
                 /\ sd'[db'[h].path].dir => db'[h].dir
      BY <1>4, <2>2, <3>1 DEF Tracks
    <3> QED BY <3>1 DEF Linked
  <2> QED BY <2>3, <2>4 DEF Tracked
<1>8. ASSUME pending # NoUpload
      PROVE  /\ pending.path \notin DOMAIN sd' \/ sd'[pending.path].ino # sd[pending.path].ino
             /\ ~Valid(db', pending.handle)
  <2>1. ~Valid(db', pending.handle)
    BY <1>2, <1>3, <1>8 DEF Valid
  <2>2. SUFFICES ASSUME pending.path \in DOMAIN sd', sd'[pending.path].ino = sd[pending.path].ino
                 PROVE  FALSE
    BY <2>1
  <2>3. shown[pending.handle] \in Inodes
    BY <1>1, <1>2, <1>8 DEF Inodes
  <2>4. sd'[pending.path].ino \in Inodes
    BY <1>2, <1>8, <2>2, <2>3
  <2>5. PICK p \in DOMAIN Sd : sd'[pending.path].ino = Sd[p].ino
    BY <1>3, <2>2, <2>4
  <2>6. p \in DOMAIN sd /\ sd[p].ino = sd[pending.path].ino
    BY <1>2, <2>2, <2>5
  <2>7. p = pending.path
    BY <1>1, <1>2, <1>8, <2>6 DEF Base, CardOK
  <2> QED BY <1>2, <1>8, <2>5, <2>7
<1> QED BY <1>1, <1>2, <1>3, <1>4, <1>6, <1>7, <1>8

\* A handler that ends no upload and begins none.
LEMMA Left ==
  ASSUME MtInv, NEW t, NEW fs, NEW hs, Handled(t, fs, hs), Leave(t, fs), Show(hs),
         answer' \in Answers
  PROVE  KeepsAll
<1>1. /\ db' = t /\ sd' = fs /\ writer' = NoUpload /\ pending' = NoUpload /\ session' = session
  BY Abandoned DEF Leave, MtInv
<1>2. /\ db' \in Tables /\ CardOK(sd')
      /\ DOMAIN shown' = DOMAIN db' /\ \A h \in DOMAIN shown' : shown'[h] \in Nat
      /\ "write" \notin Faults => Tracked'
      /\ DOMAIN db \subseteq DOMAIN db' /\ \A h \in DOMAIN db : db'[h].valid => db[h].valid
      /\ pending # NoUpload =>
           /\ pending.path \notin DOMAIN sd' \/ sd'[pending.path].ino # sd[pending.path].ino
           /\ ~Valid(db', pending.handle)
  BY <1>1, Outcome
<1>3. TypeOK'
  BY <1>1, <1>2 DEF TypeOK, MtInv, Base, Tables, CardOK, Answers
<1>4. UploadOwned' /\ Uploading'
  BY <1>1 DEF UploadOwned, Uploading
<1>5. MtInv'
  BY <1>2, <1>3, <1>4 DEF MtInv, Base
<1>6. NeverReusedStep /\ UploadWholeStep
  BY <1>2 DEF NeverReusedStep, UploadWholeStep
<1> QED BY <1>5, <1>6 DEF KeepsAll

LEMMA UntouchedKeeps ==
  ASSUME MtInv, Untouched, answer' \in Answers
  PROVE  KeepsAll
<1>1. Handled(Db, Sd, {})
  BY UntouchedHandled DEF MtInv
<1> QED BY <1>1, Left DEF Untouched

LEMMA RefuseKeeps ==
  ASSUME MtInv, Refuse
  PROVE  KeepsAll
BY UntouchedKeeps, ReplyOK DEF Refuse

LEMMA RejectCommandKeeps ==
  ASSUME MtInv, RejectCommand
  PROVE  KeepsAll
<1>1. UNCHANGED <<session, db, pending, writer, sd, shown>> /\ answer' \in Answers
  BY ReplyOK DEF RejectCommand
<1>2. TypeOK'
  BY <1>1 DEF MtInv, Base, TypeOK, Answers
<1>3. CardOK(sd') /\ UploadOwned' /\ Uploading'
  BY <1>1 DEF MtInv, Base, UploadOwned, Uploading, Valid
<1>4. "write" \notin Faults => Tracked'
  BY <1>1 DEF MtInv, Tracked, Linked, OnePath
<1>5. NeverReusedStep /\ UploadWholeStep
  BY <1>1 DEF NeverReusedStep, UploadWholeStep
<1> QED BY <1>2, <1>3, <1>4, <1>5 DEF KeepsAll, MtInv, Base

\* A table that is cleared stands for nothing.
LEMMA ClearedKeeps ==
  ASSUME MtInv, db' = Cleared, shown' = <<>>, session' \in BOOLEAN, ~(session /\ session'),
         sd' = Sd, writer' = NoUpload, pending' = NoUpload, answer' \in Answers
  PROVE  KeepsAll
<1>1. DOMAIN db' = {} /\ DOMAIN shown' = {} /\ db' \in Seq(Objects(Paths))
  BY DEF Cleared
<1>2. CardOK(sd')
  BY Abandoned DEF MtInv
<1>3. TypeOK'
  BY <1>1, <1>2 DEF TypeOK, CardOK, Answers
<1>4. UploadOwned' /\ Uploading'
  BY DEF UploadOwned, Uploading
<1>5. Tracked'
  BY <1>1 DEF Tracked, Linked, OnePath
<1>6. UploadWholeStep
  BY <1>1, Abandoned DEF MtInv, UploadWholeStep, Valid
<1> QED BY <1>2, <1>3, <1>4, <1>5, <1>6 DEF KeepsAll, MtInv, Base, NeverReusedStep

LEMMA OpenSessionKeeps ==
  ASSUME MtInv, OpenSession
  PROVE  KeepsAll
<1>1. CASE session
  BY <1>1, RefuseKeeps DEF OpenSession
<1>2. CASE ~session
  <2>1. pending = NoUpload /\ writer = NoUpload
    BY <1>2 DEF MtInv, Base, UploadOwned
  <2>2. Sd = sd
    BY <2>1 DEF Sd
  <2>3. /\ db' = Cleared /\ shown' = <<>> /\ session' \in BOOLEAN /\ ~(session /\ session')
        /\ sd' = Sd /\ writer' = NoUpload /\ pending' = NoUpload /\ answer' \in Answers
    BY <1>2, <2>1, <2>2, ReplyOK DEF OpenSession
  <2> QED BY <2>3, ClearedKeeps
<1> QED BY <1>1, <1>2

LEMMA ResetKeeps ==
  ASSUME MtInv, Reset, answer' \in Answers
  PROVE  KeepsAll
<1>1. Writer = NoUpload
  BY Abandoned DEF MtInv
<1>2. /\ db' = Cleared /\ shown' = <<>> /\ session' \in BOOLEAN /\ ~(session /\ session')
      /\ sd' = Sd /\ writer' = NoUpload /\ pending' = NoUpload
  BY <1>1 DEF Reset
<1> QED BY <1>2, ClearedKeeps

LEMMA ValidFacts ==
  ASSUME MtInv, NEW h, Valid(Db, h)
  PROVE  h \in DOMAIN Db /\ Db[h].valid /\ Db[h].path \in Paths /\ Db[h].dir \in BOOLEAN
<1>1. Db \in Tables
  BY Abandoned DEF MtInv
<1> QED BY <1>1, TableFacts DEF Valid

\* A new path is in the folder of its parent.
LEMMA ParentFacts ==
  ASSUME MtInv, NEW h, IsParent(h)
  PROVE  FolderOf(h) \in Seq(Names)
<1>1. CASE h = RootHandle
  BY <1>1, EmptySeq DEF FolderOf
<1>2. CASE h # RootHandle
  <2>1. Db[h].path \in Paths
    BY <1>2, ValidFacts DEF IsParent
  <2> QED BY <1>2, <2>1, PathFacts DEF FolderOf
<1> QED BY <1>1, <1>2

LEMMA InspectKeeps ==
  ASSUME MtInv, NEW h, Inspect(h)
  PROVE  KeepsAll
BY UntouchedKeeps, RefuseKeeps, ReplyOK DEF Inspect

LEMMA BrowseKeeps ==
  ASSUME MtInv, NEW h, Browse(h)
  PROVE  KeepsAll
<1>1. CASE ~(IsParent(h) /\ IsFolder(Sd, FolderOf(h)))
  BY <1>1, RefuseKeeps DEF Browse
<1>2. CASE IsParent(h) /\ IsFolder(Sd, FolderOf(h))
  <2> DEFINE kids == InFolder(Sd, FolderOf(h))
             unknown == {p \in kids : Find(Db, p) = {}}
             shows == {g \in DOMAIN db' : db'[g].path \in kids}
  <2>1. PICK order \in SetToSeqs(unknown) : Leave(Listed(kids, order), Sd)
    BY <1>2 DEF Browse
  <2>2. Show(shows) /\ answer' \in Answers
    BY <1>2, ReplyOK DEF Browse
  <2>3. kids \in SUBSET DOMAIN Sd
    BY DEF InFolder
  <2> HIDE DEF kids
  <2> DEFINE t == Listed(kids, order)
             hs == {g \in DOMAIN t : t[g].path \in kids}
  <2>4. Handled(t, Sd, hs)
    BY <2>3, ListedHandled DEF MtInv
  <2>5. Leave(t, Sd) /\ db' = t
    BY <2>1 DEF Leave
  <2> HIDE DEF t
  <2>6. Show(hs)
    BY <2>2, <2>5
  <2> HIDE DEF hs
  <2> QED BY <2>2, <2>4, <2>5, <2>6, Left
<1> QED BY <1>1, <1>2

LEMMA HeldFacts ==
  ASSUME NEW len \in Nat, NEW off \in Nat, NEW n \in Nat
  PROVE  /\ Held(len, off, n) \in Nat /\ Held(len, off, MinOf(n, Cap)) \in Nat
         /\ Declared(len, off, n) \in Nat
         /\ off + n <= len => Held(len, off, n) = n /\ Declared(len, off, n) = n
<1>1. Cap \in Nat /\ Cap > 0
  BY MtpAssumption
<1>2. Held(len, off, n) \in Nat /\ Held(len, off, MinOf(n, Cap)) \in Nat
  BY <1>1 DEF Held, MinOf
<1>3. Declared(len, off, n) \in Nat
  BY <1>2 DEF Declared
<1>4. ASSUME off + n <= len
      PROVE  Held(len, off, n) = n /\ Declared(len, off, n) = n
  <2>1. Held(len, off, n) = n
    BY <1>4 DEF Held, MinOf
  <2>2. CASE n > Cap
    <3>1. Held(len, off, Cap) = Cap
      BY <1>1, <1>4, <2>2 DEF Held, MinOf
    <3> QED BY <2>1, <2>2, <3>1 DEF Declared
  <2>3. CASE ~(n > Cap)
    <3>1. MinOf(n, Cap) = n
      BY <1>1, <2>3 DEF MinOf
    <3> QED BY <2>1, <2>3, <3>1 DEF Declared
  <2> QED BY <2>2, <2>3
<1> QED BY <1>2, <1>3, <1>4

\* The answer of a read, and when it is one and what it declares.
LEMMA SendRangeAnswers ==
  ASSUME MtInv, NEW h, NEW off \in Nat, NEW n \in Nat, SendRange(h, off, n)
  PROVE  /\ answer' \in Answers
         /\ "read" \notin Faults /\ Db[h].path \in DOMAIN Sd => AnsweredOnce'
         /\ "read" \notin Faults /\ Db[h].path \in DOMAIN Sd /\ off + n <= Sd[Db[h].path].len
              => DeclaredIsSent'
<1> DEFINE readable == Db[h].path \in DOMAIN Sd
           len == IF readable THEN Sd[Db[h].path].len ELSE 0
           low == IF "read" \in Faults THEN Held(len, off, MinOf(n, Cap)) ELSE Held(len, off, n)
           Sent(s) == [codes |-> <<"OK">>, usb |-> TRUE, declared |-> Declared(len, off, n),
                       sent |-> s]
<1>1. len \in Nat
  <2>1. CardOK(Sd)
    BY Abandoned DEF MtInv
  <2> QED BY <2>1 DEF CardOK, Inode
<1>2. PICK first \in Outcomes("read"), usb \in Outcomes("usb"), sent \in low .. Held(len, off, n) :
        answer' = IF n > 0 /\ ~(first /\ readable)
                    THEN [Silent EXCEPT !.codes = <<"Refused", "OK">>]
                  ELSE IF ~usb THEN CutOff ELSE Sent(sent)
  BY DEF SendRange
<1>3. "read" \notin Faults => first = TRUE
  BY DEF Outcomes
<1> HIDE DEF len, readable
<1>4. sent \in Nat /\ ("read" \notin Faults => sent = Held(len, off, n))
  <2>1. low \in Nat /\ Held(len, off, n) \in Nat
    BY <1>1, HeldFacts
  <2>2. "read" \notin Faults => low = Held(len, off, n)
    OBVIOUS
  <2> HIDE DEF low
  <2> QED BY <2>1, <2>2
<1>5. CASE n > 0 /\ ~(first /\ readable)
  <2>1. answer' \in Answers
    BY <1>2, <1>5, AnswerFacts
  <2>2. "read" \notin Faults => ~readable
    BY <1>3, <1>5
  <2> QED BY <2>1, <2>2 DEF readable
<1>6. CASE ~(n > 0 /\ ~(first /\ readable)) /\ ~usb
  <2>1. answer' = CutOff
    BY <1>2, <1>6
  <2> QED BY <2>1, AnswerFacts DEF AnsweredOnce, DeclaredIsSent, CutOff, Silent
<1>7. CASE ~(n > 0 /\ ~(first /\ readable)) /\ usb
  <2>1. answer' = Sent(sent)
    BY <1>2, <1>7
  <2>2. answer' \in Answers
    BY <1>1, <1>4, <2>1, AnswerFacts, HeldFacts DEF Answers
  <2>3. AnsweredOnce'
    BY <2>1 DEF AnsweredOnce
  <2>4. ASSUME "read" \notin Faults, readable, off + n <= Sd[Db[h].path].len
        PROVE  DeclaredIsSent'
    <3>1. off + n <= len
      BY <2>4 DEF len
    <3>2. Declared(len, off, n) = n /\ Held(len, off, n) = n
      BY <1>1, <3>1, HeldFacts
    <3> QED BY <1>4, <2>1, <2>4, <3>2 DEF DeclaredIsSent
  <2> QED BY <2>2, <2>3, <2>4 DEF readable
<1> QED BY <1>5, <1>6, <1>7

LEMMA GetObjectKeeps ==
  ASSUME MtInv, NEW h, GetObject(h)
  PROVE  KeepsAll
<1>1. CASE IsFile(h) /\ Db[h].path \in DOMAIN Sd
  <2>1. Sd[Db[h].path].len \in Nat
    BY <1>1, Abandoned DEF MtInv, CardOK, Inode
  <2>2. answer' \in Answers
    BY <1>1, <2>1, SendRangeAnswers DEF GetObject
  <2> QED BY <1>1, <2>2, UntouchedKeeps DEF GetObject
<1>2. CASE ~(IsFile(h) /\ Db[h].path \in DOMAIN Sd)
  BY <1>2, RefuseKeeps DEF GetObject
<1> QED BY <1>1, <1>2

LEMMA GetPartialObjectKeeps ==
  ASSUME MtInv, NEW h, NEW off \in Nat, NEW n \in Nat, GetPartialObject(h, off, n)
  PROVE  KeepsAll
<1>1. CASE IsFile(h)
  <2>1. answer' \in Answers
    BY <1>1, SendRangeAnswers DEF GetPartialObject
  <2> QED BY <1>1, <2>1, UntouchedKeeps DEF GetPartialObject
<1>2. CASE ~IsFile(h)
  BY <1>2, RefuseKeeps DEF GetPartialObject
<1> QED BY <1>1, <1>2

LEMMA SendObjectInfoKeeps ==
  ASSUME MtInv, NEW parent, NEW name \in Names, NEW size \in Nat \cup {Unknown},
         SendObjectInfo(parent, name, size)
  PROVE  KeepsAll
<1>1. CASE ~IsParent(parent)
  BY <1>1, RefuseKeeps DEF SendObjectInfo
<1>2. CASE IsParent(parent)
  <2> DEFINE p == Append(FolderOf(parent), name)
             h == HandleFor(Db, p)
             t == Intern(Db, p, FALSE)
             fs == Put(Sd, p, Made(FALSE, 0))
  <2>1. p \in Paths /\ p \in Seq(Names)
    BY <1>2, ParentFacts, Extended, PathFacts
  <2>2. PICK ok \in Outcomes("sd") :
          IF ok /\ CanWrite(Sd, p)
            THEN /\ Unused # {}
                 /\ db' = t /\ writer' = p /\ sd' = fs
                 /\ pending' = [handle |-> h, path |-> p, size |-> size]
                 /\ Show({h}) /\ Reply(<<"OK">>) /\ UNCHANGED session
            ELSE Leave(Invalidate(t, h), Sd) /\ Show({}) /\ Reply(<<"Refused">>)
    BY <1>2 DEF SendObjectInfo
  <2> HIDE DEF p
  <2>3. CASE ~(ok /\ CanWrite(Sd, p))
    <3>1. Handled(Invalidate(t, h), Sd, {})
      BY <2>1, ReservedHandled DEF MtInv
    <3> HIDE DEF t, h
    <3> QED BY <2>2, <2>3, <3>1, Left, ReplyOK
  <2>4. CASE ok /\ CanWrite(Sd, p)
    <3>1. /\ IsFolder(Sd, Front(p)) /\ ~(p \in DOMAIN Sd /\ Sd[p].dir) /\ Unused # {}
      BY <2>2, <2>4 DEF CanWrite, IsFolder
    <3>2. Handled(t, fs, {h}) /\ p \in DOMAIN fs /\ fs[p].dir = FALSE
      <4>1. FALSE \in BOOLEAN /\ 0 \in Nat
        OBVIOUS
      <4> QED BY <2>1, <3>1, <4>1, PutHandled DEF MtInv
    <3>3. h \in Nat \ {0} /\ h \in DOMAIN t /\ t[h].valid /\ t[h].path = p
      <4>1. FALSE \in BOOLEAN /\ Db \in Tables
        BY Abandoned DEF MtInv
      <4>2. h \in Nat \ {0} /\ DOMAIN t = DOMAIN Db \cup {h} /\ t[h] = Object(p, FALSE)
        BY <2>1, <4>1, InternFacts
      <4> HIDE DEF t, h
      <4> QED BY <2>1, <4>1, <4>2, ObjectFacts
    <3> HIDE DEF t, h, fs
    <3>4. /\ db' = t /\ writer' = p /\ sd' = fs
          /\ pending' = [handle |-> h, path |-> p, size |-> size]
          /\ Show({h}) /\ answer' \in Answers /\ session' = session
      BY <2>2, <2>4, ReplyOK
    <3>5. session
      BY DEF SendObjectInfo
    <3>6. /\ db' \in Tables /\ CardOK(sd')
          /\ DOMAIN shown' = DOMAIN db' /\ \A c \in DOMAIN shown' : shown'[c] \in Nat
          /\ h \in DOMAIN db' /\ db'[h].valid => shown'[h] = sd'[db'[h].path].ino
          /\ "write" \notin Faults => Tracked'
          /\ DOMAIN db \subseteq DOMAIN db' /\ \A c \in DOMAIN db : db'[c].valid => db[c].valid
          /\ pending # NoUpload =>
               /\ pending.path \notin DOMAIN sd' \/ sd'[pending.path].ino # sd[pending.path].ino
               /\ ~Valid(db', pending.handle)
      BY <3>2, <3>4, Outcome
    <3>7. writer' # NoUpload /\ pending' # NoUpload
      BY <2>1, <3>3, <3>4, MtpAssumption
    <3>8. /\ pending' \in [handle : Nat \ {0}, path : Paths, size : Nat \cup {Unknown}]
          /\ pending'.handle = h /\ pending'.path = p
      BY <2>1, <3>3, <3>4
    <3>9. TypeOK'
      BY <2>1, <3>4, <3>6, <3>8 DEF TypeOK, MtInv, Base, Tables, CardOK, Answers
    <3>10. UploadOwned'
      BY <3>3, <3>4, <3>5, <3>7, <3>8 DEF UploadOwned, Valid
    <3>11. Uploading'
      BY <3>2, <3>3, <3>4, <3>6, <3>8 DEF Uploading
    <3>12. NeverReusedStep /\ UploadWholeStep
      BY <3>6 DEF NeverReusedStep, UploadWholeStep
    <3> QED BY <3>6, <3>9, <3>10, <3>11, <3>12 DEF KeepsAll, MtInv, Base
  <2> QED BY <2>3, <2>4
<1> QED BY <1>1, <1>2

LEMMA MakeFolderKeeps ==
  ASSUME MtInv, NEW parent, NEW name \in Names, MakeFolder(parent, name)
  PROVE  KeepsAll
<1>1. CASE ~IsParent(parent)
  BY <1>1, RefuseKeeps DEF MakeFolder
<1>2. CASE IsParent(parent)
  <2> DEFINE p == Append(FolderOf(parent), name)
             h == HandleFor(Db, p)
             t == Intern(Db, p, TRUE)
             fs == Put(Sd, p, Made(TRUE, 0))
  <2>1. p \in Paths
    BY <1>2, ParentFacts, Extended
  <2>2. PICK ok \in Outcomes("sd") :
          IF ~(ok /\ CanMkdir(Sd, p)) THEN Refuse
          ELSE /\ IF p \in DOMAIN Sd THEN Leave(t, Sd) ELSE Unused # {} /\ Leave(t, fs)
               /\ Show({h}) /\ Reply(<<"OK">>)
    BY <1>2 DEF MakeFolder
  <2> HIDE DEF p
  <2>3. CASE ~(ok /\ CanMkdir(Sd, p))
    BY <2>2, <2>3, RefuseKeeps
  <2>4. CASE ok /\ CanMkdir(Sd, p) /\ p \in DOMAIN Sd
    <3>1. Handled(t, Sd, {h})
      BY <2>4, KnownHandled DEF MtInv
    <3> HIDE DEF t, h
    <3> QED BY <2>2, <2>4, <3>1, Left, ReplyOK
  <2>5. CASE ok /\ CanMkdir(Sd, p) /\ p \notin DOMAIN Sd
    <3>1. IsFolder(Sd, Front(p)) /\ ~(p \in DOMAIN Sd /\ Sd[p].dir) /\ Unused # {}
      BY <2>2, <2>5 DEF CanMkdir
    <3>2. Handled(t, fs, {h})
      <4>1. TRUE \in BOOLEAN /\ 0 \in Nat
        OBVIOUS
      <4> QED BY <2>1, <3>1, <4>1, PutHandled DEF MtInv
    <3> HIDE DEF t, h, fs
    <3> QED BY <2>2, <2>5, <3>2, Left, ReplyOK
  <2> QED BY <2>3, <2>4, <2>5
<1> QED BY <1>1, <1>2

LEMMA SendObjectKeeps ==
  ASSUME MtInv, NEW n \in Nat, SendObject(n)
  PROVE  KeepsAll
<1>1. CASE pending = NoUpload
  BY <1>1, RefuseKeeps DEF SendObject
<1>2. CASE pending # NoUpload
  <2> DEFINE p == pending.path
             k == pending.handle
             Commits(written, usb) == written /\ usb /\ Whole(n, pending.size)
  <2>1. /\ writer = p /\ writer # NoUpload /\ k \in DOMAIN db /\ db[k].valid /\ db[k].path = p
        /\ p \in DOMAIN sd /\ session
        /\ pending \in [handle : Nat \ {0}, path : Paths, size : Nat \cup {Unknown}]
    BY <1>2 DEF MtInv, Base, TypeOK, UploadOwned, Uploading, Valid
  <2>2. PICK written \in Outcomes("write"), usb \in Outcomes("usb") :
          LET committed == Commits(written, usb)
              closed == WriteEnd(sd, writer, committed) IN
          /\ sd' = IF committed /\ writer # NoUpload
                     THEN [closed EXCEPT ![writer].len = n] ELSE closed
          /\ db' = IF committed THEN db ELSE Invalidate(db, pending.handle)
          /\ writer' = NoUpload /\ pending' = NoUpload
          /\ answer' = IF committed THEN [Silent EXCEPT !.codes = <<"OK">>, !.sent = n,
                                                        !.declared = n]
                       ELSE IF written /\ usb THEN [Silent EXCEPT !.codes = <<"Refused">>]
                       ELSE [Silent EXCEPT !.usb = usb]
          /\ Show({}) /\ UNCHANGED session
    BY <1>2 DEF SendObject
  <2>3. written \in BOOLEAN /\ usb \in BOOLEAN
    BY DEF Outcomes
  <2>4. CASE ~Commits(written, usb)
    <3>1. sd' = Sd /\ db' = Db
      BY <1>2, <2>1, <2>2, <2>4 DEF Sd, Db, WriteEnd
    <3>2. Leave(Db, Sd) /\ Show({})
      <4>1. Writer = NoUpload
        BY Abandoned DEF MtInv
      <4> QED BY <2>2, <3>1, <4>1 DEF Leave
    <3>3. answer' \in Answers
      <4>1. CASE written /\ usb
        BY <2>2, <2>4, <4>1, AnswerFacts
      <4>2. CASE ~(written /\ usb)
        <5>1. answer' = [Silent EXCEPT !.usb = usb]
          BY <2>2, <2>4, <4>2
        <5> QED BY <2>3, <5>1, AnswerFacts DEF Answers
      <4> QED BY <4>1, <4>2
    <3> QED BY <3>2, <3>3, UntouchedKeeps DEF Untouched
  <2>5. CASE Commits(written, usb)
    <3>1. /\ sd' = [sd EXCEPT ![p].len = n] /\ db' = db
          /\ writer' = NoUpload /\ pending' = NoUpload /\ session' = session /\ Show({})
          /\ answer' = [Silent EXCEPT !.codes = <<"OK">>, !.sent = n, !.declared = n]
      BY <2>1, <2>2, <2>5 DEF WriteEnd
    <3>2. CardOK(sd) /\ sd[p] \in Inode
      BY <2>1 DEF MtInv, Base, CardOK
    <3>3. /\ DOMAIN sd' = DOMAIN sd
          /\ \A q \in DOMAIN sd : q # p => sd'[q] = sd[q]
          /\ sd'[p] = [sd[p] EXCEPT !.len = n]
      BY <2>1, <3>1
    <3>4. /\ sd'[p] \in Inode /\ sd'[p].len = n
          /\ sd'[p].ino = sd[p].ino /\ sd'[p].dir = sd[p].dir
      BY <3>2, <3>3 DEF Inode
    <3> HIDE DEF p
    <3>5. \A q \in DOMAIN sd : sd'[q].ino = sd[q].ino /\ sd'[q].dir = sd[q].dir
      BY <3>3, <3>4
    <3>6. sd' \in [DOMAIN sd' -> Inode]
      <4>1. sd' = [q \in DOMAIN sd' |-> sd'[q]]
        BY <3>1, <3>2 DEF CardOK
      <4>2. \A q \in DOMAIN sd' : sd'[q] \in Inode
        BY <3>2, <3>3, <3>4 DEF CardOK
      <4> QED BY <4>1, <4>2
    <3>7. CardOK(sd')
      BY <3>2, <3>3, <3>5, <3>6 DEF CardOK, Tree
    <3>8. /\ DOMAIN shown = DOMAIN db /\ \A h \in DOMAIN shown : shown[h] \in Nat
          /\ db \in Seq(Objects(Paths)) /\ session \in BOOLEAN
      BY DEF MtInv, Base, TypeOK
    <3>9. /\ DOMAIN shown' = DOMAIN db
          /\ \A h \in DOMAIN db : shown'[h] = IF ~db[h].valid THEN 0 ELSE shown[h]
      BY <3>1 DEF Show
    <3>10. answer' \in Answers /\ answer'.codes = <<"OK">>
      BY <3>1, AnswerFacts DEF Answers, Silent
    <3>11. TypeOK'
      <4>1. writer' = NoUpload /\ pending' = NoUpload /\ session' = session /\ db' = db
        BY <3>1
      <4>2. \A h \in DOMAIN shown' : shown'[h] \in Nat
        BY <3>8, <3>9
      <4> QED BY <3>7, <3>8, <3>9, <3>10, <4>1, <4>2 DEF TypeOK, CardOK, Answers
    <3>12. UploadOwned' /\ Uploading'
      BY <3>1 DEF UploadOwned, Uploading
    <3>13. "write" \notin Faults => Tracked'
      <4>1. ASSUME Tracked PROVE Tracked'
        <5>1. OnePath(db)'
          BY <3>1, <4>1 DEF Tracked, OnePath
        <5>2. Linked(db, sd, shown)'
          BY <3>1, <3>3, <3>5, <3>9, <4>1 DEF Tracked, Linked
        <5> QED BY <5>1, <5>2 DEF Tracked
      <4> QED BY <4>1 DEF MtInv
    <3>14. NeverReusedStep
      BY <3>1 DEF NeverReusedStep
    <3>15. UploadWholeStep
      <4>1. sd'[pending.path].len >= (IF pending.size = Unknown THEN 0 ELSE pending.size)
        <5>1. pending.size \in Nat \cup {Unknown} /\ (pending.size = Unknown \/ n >= pending.size)
          BY <2>1, <2>5 DEF Whole
        <5> QED BY <3>4, <5>1 DEF p
      <4>2. pending.path \in DOMAIN sd' /\ Valid(db', pending.handle)
        BY <2>1, <3>1, <3>3 DEF Valid, p
      <4> QED BY <3>10, <4>1, <4>2 DEF UploadWholeStep
    <3> QED BY <3>7, <3>11, <3>12, <3>13, <3>14, <3>15 DEF KeepsAll, MtInv, Base
  <2> QED BY <2>4, <2>5
<1> QED BY <1>1, <1>2

LEMMA DeleteObjectKeeps ==
  ASSUME MtInv, NEW h, DeleteObject(h)
  PROVE  KeepsAll
<1>1. PICK ok \in Outcomes("sd") :
        IF Valid(Db, h) /\ ok /\ CanRemove(Sd, Db[h].path, Db[h].dir)
          THEN /\ Leave(Invalidate(Db, h), Removed(Sd, Db[h].path))
               /\ Show({}) /\ Reply(<<"OK">>)
          ELSE Refuse
  BY DEF DeleteObject
<1>2. CASE ~(Valid(Db, h) /\ ok /\ CanRemove(Sd, Db[h].path, Db[h].dir))
  BY <1>1, <1>2, RefuseKeeps
<1>3. CASE Valid(Db, h) /\ ok /\ CanRemove(Sd, Db[h].path, Db[h].dir)
  <2>1. Handled(Invalidate(Db, h), Removed(Sd, Db[h].path), {})
    BY <1>3, ValidFacts, DeletedHandled DEF MtInv
  <2> QED BY <1>1, <1>3, <2>1, Left, ReplyOK
<1> QED BY <1>2, <1>3

LEMMA MoveToKeeps ==
  ASSUME MtInv, NEW h, Valid(Db, h), NEW to \in Paths, MoveTo(h, to)
  PROVE  KeepsAll
<1>1. PICK ok \in Outcomes("sd") :
        IF ok /\ CanMove(Sd, Db[h].path, to)
          THEN /\ Leave(Rename(Db, h, to), Moved(Sd, Db[h].path, to))
               /\ Show({}) /\ Reply(<<"OK">>)
          ELSE Refuse
  BY DEF MoveTo
<1>2. CASE ~(ok /\ CanMove(Sd, Db[h].path, to))
  BY <1>1, <1>2, RefuseKeeps
<1>3. CASE ok /\ CanMove(Sd, Db[h].path, to)
  <2>1. Handled(Rename(Db, h, to), Moved(Sd, Db[h].path, to), {})
    BY <1>3, ValidFacts, MovedHandled DEF MtInv
  <2> QED BY <1>1, <1>3, <2>1, Left, ReplyOK
<1> QED BY <1>2, <1>3

LEMMA SetNameKeeps ==
  ASSUME MtInv, NEW h, NEW name \in Names, SetName(h, name)
  PROVE  KeepsAll
<1>1. CASE ~Valid(Db, h)
  BY <1>1, RefuseKeeps DEF SetName
<1>2. CASE Valid(Db, h)
  <2>1. Append(Front(Db[h].path), name) \in Paths
    BY <1>2, ValidFacts, PathFacts, Extended
  <2> QED BY <1>2, <2>1, MoveToKeeps DEF SetName
<1> QED BY <1>1, <1>2

LEMMA MoveObjectKeeps ==
  ASSUME MtInv, NEW h, NEW parent, MoveObject(h, parent)
  PROVE  KeepsAll
<1>1. CASE ~(Valid(Db, h) /\ IsParent(parent))
  BY <1>1, RefuseKeeps DEF MoveObject
<1>2. CASE Valid(Db, h) /\ IsParent(parent)
  <2>1. Append(FolderOf(parent), Last(Db[h].path)) \in Paths
    BY <1>2, ValidFacts, ParentFacts, PathFacts, Extended
  <2> QED BY <1>2, <2>1, MoveToKeeps DEF MoveObject
<1> QED BY <1>1, <1>2

LEMMA CopyObjectKeeps ==
  ASSUME MtInv, NEW h, NEW parent, CopyObject(h, parent)
  PROVE  KeepsAll
<1>1. CASE ~(Valid(Db, h) /\ IsParent(parent) /\ ~Db[h].dir)
  BY <1>1, RefuseKeeps DEF CopyObject
<1>2. CASE Valid(Db, h) /\ IsParent(parent) /\ ~Db[h].dir
  <2> DEFINE from == Db[h].path
             to == Append(FolderOf(parent), Last(from))
             k == HandleFor(Db, to)
             t == Intern(Db, to, FALSE)
             fs == Put(Sd, to, Made(FALSE, Sd[from].len))
  <2>1. from \in Paths /\ to \in Paths
    BY <1>2, ValidFacts, ParentFacts, PathFacts, Extended
  <2>2. CASE ~(from \in DOMAIN Sd /\ from # to /\ CanWrite(Sd, to))
    BY <1>2, <2>2, RefuseKeeps DEF CopyObject
  <2>3. CASE from \in DOMAIN Sd /\ from # to /\ CanWrite(Sd, to)
    <3>1. PICK written \in Outcomes("write") :
            IF written
              THEN Unused # {} /\ Leave(t, fs) /\ Show({k}) /\ Reply(<<"OK">>)
              ELSE Leave(Db, Removed(Sd, to)) /\ Show({}) /\ Reply(<<"Refused">>)
      BY <1>2, <2>3 DEF CopyObject
    <3>2. IsFolder(Sd, Front(to)) /\ ~(to \in DOMAIN Sd /\ Sd[to].dir)
      BY <2>3 DEF CanWrite, IsFolder
    <3>3. Sd[from].len \in Nat
      BY <2>3, Abandoned DEF MtInv, CardOK, Inode
    <3> HIDE DEF from, to
    <3>4. CASE written
      <4>1. Handled(t, fs, {k})
        <5>1. FALSE \in BOOLEAN /\ Unused # {}
          BY <3>1, <3>4
        <5> QED BY <2>1, <3>2, <3>3, <5>1, PutHandled DEF MtInv
      <4> HIDE DEF t, fs, k
      <4> QED BY <3>1, <3>4, <4>1, Left, ReplyOK
    <3>5. CASE ~written
      <4>1. "write" \in Faults
        BY <3>5 DEF Outcomes
      <4>2. Handled(Db, Removed(Sd, to), {})
        BY <2>1, <3>2, <4>1, CutCopyHandled DEF MtInv
      <4> QED BY <3>1, <3>5, <4>2, Left, ReplyOK
    <3> QED BY <3>4, <3>5
  <2> QED BY <2>2, <2>3
<1> QED BY <1>1, <1>2
-----------------------------------------------------------------------------
LEMMA NextKeeps ==
  ASSUME MtInv, Next
  PROVE  KeepsAll
<1>0. \A n \in 0 .. MaxSize : n \in Nat
  BY MtpAssumption
<1>1. CASE RejectCommand
  BY <1>1, RejectCommandKeeps
<1>2. CASE OpenSession
  BY <1>2, OpenSessionKeeps
<1>3. CASE CloseSession
  BY <1>3, ResetKeeps, ReplyOK DEF CloseSession
<1>4. CASE Disconnect
  BY <1>4, ResetKeeps, AnswerFacts DEF Disconnect
<1>5. ASSUME NEW h \in Handles, Inspect(h) \/ GetObject(h) \/ DeleteObject(h)
      PROVE  KeepsAll
  BY <1>5, InspectKeeps, GetObjectKeeps, DeleteObjectKeeps
<1>6. ASSUME NEW h \in Handles, NEW off \in 0 .. MaxSize, NEW n \in 0 .. MaxSize,
             GetPartialObject(h, off, n)
      PROVE  KeepsAll
  BY <1>0, <1>6, GetPartialObjectKeeps
<1>7. ASSUME NEW h \in Handles, NEW name \in Names, SetName(h, name)
      PROVE  KeepsAll
  BY <1>7, SetNameKeeps
<1>8. ASSUME NEW n \in 0 .. MaxSize, SendObject(n)
      PROVE  KeepsAll
  BY <1>0, <1>8, SendObjectKeeps
<1>9. ASSUME NEW parent \in {RootHandle} \cup Handles, Browse(parent)
      PROVE  KeepsAll
  BY <1>9, BrowseKeeps
<1>10. ASSUME NEW parent \in {RootHandle} \cup Handles, NEW h \in Handles,
              MoveObject(h, parent) \/ CopyObject(h, parent)
       PROVE  KeepsAll
  BY <1>10, MoveObjectKeeps, CopyObjectKeeps
<1>11. ASSUME NEW parent \in {RootHandle} \cup Handles, NEW name \in Names,
              MakeFolder(parent, name)
       PROVE  KeepsAll
  BY <1>11, MakeFolderKeeps
<1>12. ASSUME NEW parent \in {RootHandle} \cup Handles, NEW name \in Names,
              NEW size \in (0 .. MaxSize) \cup {Unknown}, SendObjectInfo(parent, name, size)
       PROVE  KeepsAll
  BY <1>0, <1>12, SendObjectInfoKeeps
<1> QED BY <1>1, <1>2, <1>3, <1>4, <1>5, <1>6, <1>7, <1>8, <1>9, <1>10, <1>11, <1>12 DEF Next

LEMMA StutterKeeps ==
  ASSUME MtInv, UNCHANGED vars
  PROVE  MtInv'
<1>1. UNCHANGED <<session, db, pending, writer, sd, shown, answer>>
  BY DEF vars
<1>2. TypeOK' /\ UploadOwned' /\ Uploading' /\ CardOK(sd')
  BY <1>1 DEF MtInv, Base, TypeOK, UploadOwned, Uploading, Valid
<1>3. "write" \notin Faults => Tracked'
  BY <1>1 DEF MtInv, Tracked, Linked, OnePath
<1> QED BY <1>2, <1>3 DEF MtInv, Base

LEMMA InitInv == Init => MtInv
<1> SUFFICES ASSUME Init PROVE MtInv
  OBVIOUS
<1>1. DOMAIN db = {} /\ DOMAIN shown = {} /\ db \in Seq(Objects(Paths))
  BY DEF Init, Cleared
<1>2. CardOK(sd)
  <2>1. Tree(Card)
    <3>1. SUFFICES ASSUME NEW q \in DOMAIN Card, NEW p \in Paths, IsStrictPrefix(p, q)
                   PROVE  p \in DOMAIN Card /\ Card[p].dir
      BY DEF Tree
    <3>2. /\ q \in Paths /\ q \in Seq(Names) /\ p \in Seq(Names)
          /\ Len(p) \in Nat \ {0} /\ Len(q) \in Nat \ {0}
      BY CardAssumption, PathFacts
    <3>3. Len(p) < Len(q)
      BY <3>1, <3>2, BelowPoints
    <3>4. p = SubSeq(q, 1, Len(p))
      <4>1. SubSeq(p, 1, Len(p)) = p
        BY <3>2, SubSeqFull
      <4> QED BY <3>1, <4>1 DEF IsStrictPrefix, IsPrefix
    <3>5. Len(p) \in 1 .. (Len(q) - 1)
      BY <3>2, <3>3
    <3> QED BY <3>4, <3>5, CardAssumption
  <2> QED BY <2>1, CardAssumption DEF Init, CardOK
<1>3. TypeOK
  BY <1>1, <1>2, AnswerFacts DEF Init, TypeOK, CardOK, Answers
<1>4. UploadOwned /\ Uploading
  BY DEF Init, UploadOwned, Uploading
<1>5. Tracked
  BY <1>1 DEF Tracked, Linked, OnePath
<1> QED BY <1>2, <1>3, <1>4, <1>5 DEF MtInv, Base

LEMMA Invariance == Spec => []MtInv
<1>1. MtInv /\ [Next]_vars => MtInv'
  BY NextKeeps, StutterKeeps DEF KeepsAll
<1> QED BY InitInv, <1>1, PTL DEF Spec

\* The responder's types, whatever fails.
THEOREM TypeCorrect == Spec => []TypeOK
<1>1. MtInv => TypeOK
  BY DEF MtInv, Base
<1> QED BY Invariance, <1>1, PTL

\* A handle the responder takes stands for the object the host was given it
\* for, through every rename, move and listing, unless a copy fails half way.
THEOREM HandlesStandForTheirObject ==
  ASSUME "write" \notin Faults
  PROVE  Spec => []HandleStable
<1>1. MtInv => HandleStable
  BY DEF MtInv, Tracked, Linked, HandleStable
<1> QED BY Invariance, <1>1, PTL

\* An object has one handle.
THEOREM OneHandleEach ==
  ASSUME "write" \notin Faults
  PROVE  Spec => []UniquePaths
<1>1. MtInv => UniquePaths
  BY DEF MtInv, Tracked, OnePath, UniquePaths
<1> QED BY Invariance, <1>1, PTL

\* The file open for writing is the pending upload's, whatever fails.
THEOREM UploadsOwned == Spec => []UploadOwned
<1>1. MtInv => UploadOwned
  BY DEF MtInv, Base
<1> QED BY Invariance, <1>1, PTL

\* A handle that ended stays ended for the session, whatever fails.
THEOREM EndedForGood == Spec => NeverReused
<1>1. MtInv /\ [Next]_vars => [NeverReusedStep]_vars
  BY NextKeeps DEF KeepsAll
<1> QED BY Invariance, <1>1, PTL DEF Spec, NeverReused, NeverReusedStep

\* An upload that ends is whole on the card or gone without trace, whatever
\* fails and whichever command cuts it short.
THEOREM UploadsWhole == Spec => UploadWhole
<1>1. MtInv /\ [Next]_vars => [UploadWholeStep]_vars
  BY NextKeeps DEF KeepsAll
<1> QED BY Invariance, <1>1, PTL DEF Spec, UploadWhole, UploadWholeStep
-----------------------------------------------------------------------------
(* How a transaction is answered.                                            *)

\* One response, or a cable that failed; and the data that was announced.
Answered ==
  /\ "read" \notin Faults /\ "write" \notin Faults => AnsweredOnce
  /\ "read" \notin Faults /\ ~AskPastEnd => DeclaredIsSent

LEMMA ReplyAnswers ==
  ASSUME Reply(<<"OK">>) \/ Reply(<<"Refused">>) \/ answer' = CutOff
  PROVE  Answered'
<1>1. \/ answer' = [Silent EXCEPT !.codes = <<"OK">>]
      \/ answer' = [Silent EXCEPT !.codes = <<"Refused">>]
      \/ answer' = CutOff
  BY DEF Reply
<1>2. Len(<<"OK">>) = 1 /\ Len(<<"Refused">>) = 1
  OBVIOUS
<1> QED BY <1>1, <1>2 DEF Answered, AnsweredOnce, DeclaredIsSent, Silent, CutOff

LEMMA RefuseAnswers ==
  ASSUME Refuse
  PROVE  Answered'
BY ReplyAnswers DEF Refuse

LEMMA GetObjectAnswers ==
  ASSUME MtInv, NEW h, GetObject(h)
  PROVE  Answered'
<1>1. CASE IsFile(h) /\ Db[h].path \in DOMAIN Sd
  <2> DEFINE len == Sd[Db[h].path].len
  <2>1. len \in Nat
    BY <1>1, Abandoned DEF MtInv, CardOK, Inode
  <2>2. SendRange(h, 0, len) /\ 0 + len <= len
    BY <1>1, <2>1 DEF GetObject
  <2> QED BY <1>1, <2>1, <2>2, SendRangeAnswers DEF Answered
<1>2. CASE ~(IsFile(h) /\ Db[h].path \in DOMAIN Sd)
  BY <1>2, RefuseAnswers DEF GetObject
<1> QED BY <1>1, <1>2

LEMMA GetPartialObjectAnswers ==
  ASSUME MtInv, NEW h, NEW off \in Nat, NEW n \in Nat, GetPartialObject(h, off, n)
  PROVE  Answered'
<1>1. CASE IsFile(h)
  <2>1. /\ SendRange(h, off, n)
        /\ ~AskPastEnd => Db[h].path \in DOMAIN Sd /\ off + n <= Sd[Db[h].path].len
    BY <1>1 DEF GetPartialObject
  <2>2. "write" \notin Faults => Db[h].path \in DOMAIN Sd
    BY <1>1, ValidFacts, Abandoned DEF MtInv, IsFile, Kept, Linked
  <2> QED BY <2>1, <2>2, SendRangeAnswers DEF Answered
<1>2. CASE ~IsFile(h)
  BY <1>2, RefuseAnswers DEF GetPartialObject
<1> QED BY <1>1, <1>2

LEMMA SendObjectAnswers ==
  ASSUME NEW n \in Nat, SendObject(n)
  PROVE  Answered'
<1>1. CASE pending = NoUpload
  BY <1>1, RefuseAnswers DEF SendObject
<1>2. CASE pending # NoUpload
  <2>1. PICK written \in Outcomes("write"), usb \in Outcomes("usb") :
          answer' = IF written /\ usb /\ Whole(n, pending.size)
                      THEN [Silent EXCEPT !.codes = <<"OK">>, !.sent = n, !.declared = n]
                    ELSE IF written /\ usb THEN [Silent EXCEPT !.codes = <<"Refused">>]
                    ELSE [Silent EXCEPT !.usb = usb]
    BY <1>2 DEF SendObject
  <2>2. "write" \notin Faults => written
    BY DEF Outcomes
  <2>3. Len(<<"OK">>) = 1 /\ Len(<<"Refused">>) = 1
    OBVIOUS
  <2>4. CASE written /\ usb /\ Whole(n, pending.size)
    BY <2>1, <2>3, <2>4 DEF Answered, AnsweredOnce, DeclaredIsSent, Silent
  <2>5. CASE written /\ usb /\ ~Whole(n, pending.size)
    BY <2>1, <2>3, <2>5 DEF Answered, AnsweredOnce, DeclaredIsSent, Silent
  <2>6. CASE ~(written /\ usb)
    <3>1. answer' = [Silent EXCEPT !.usb = usb] /\ ("write" \notin Faults => ~usb)
      BY <2>1, <2>2, <2>6
    <3>2. answer'.usb = usb /\ answer'.declared = 0 /\ answer'.sent = 0
      BY <3>1 DEF Silent
    <3> QED BY <3>1, <3>2 DEF Answered, AnsweredOnce, DeclaredIsSent
  <2> QED BY <2>4, <2>5, <2>6
<1> QED BY <1>1, <1>2

LEMMA NextAnswers ==
  ASSUME MtInv, Next
  PROVE  Answered'
<1>0. \A n \in 0 .. MaxSize : n \in Nat
  BY MtpAssumption
<1>1. CASE RejectCommand \/ OpenSession \/ CloseSession \/ Disconnect
  BY <1>1, ReplyAnswers DEF RejectCommand, OpenSession, Refuse, CloseSession, Disconnect
<1>2. ASSUME NEW h \in Handles, Inspect(h) \/ DeleteObject(h)
      PROVE  Answered'
  BY <1>2, ReplyAnswers DEF Inspect, DeleteObject, Refuse
<1>3. ASSUME NEW h \in Handles, GetObject(h)
      PROVE  Answered'
  BY <1>3, GetObjectAnswers
<1>4. ASSUME NEW h \in Handles, NEW off \in 0 .. MaxSize, NEW n \in 0 .. MaxSize,
             GetPartialObject(h, off, n)
      PROVE  Answered'
  BY <1>0, <1>4, GetPartialObjectAnswers
<1>5. ASSUME NEW h \in Handles, NEW name \in Names, SetName(h, name)
      PROVE  Answered'
  BY <1>5, ReplyAnswers DEF SetName, MoveTo, Refuse
<1>6. ASSUME NEW n \in 0 .. MaxSize, SendObject(n)
      PROVE  Answered'
  BY <1>0, <1>6, SendObjectAnswers
<1>7. ASSUME NEW parent \in {RootHandle} \cup Handles, Browse(parent)
      PROVE  Answered'
  BY <1>7, ReplyAnswers DEF Browse, Refuse
<1>8. ASSUME NEW parent \in {RootHandle} \cup Handles, NEW h \in Handles, MoveObject(h, parent)
      PROVE  Answered'
  BY <1>8, ReplyAnswers DEF MoveObject, MoveTo, Refuse
<1>9. ASSUME NEW parent \in {RootHandle} \cup Handles, NEW h \in Handles, CopyObject(h, parent)
      PROVE  Answered'
  BY <1>9, ReplyAnswers DEF CopyObject, Refuse
<1>10. ASSUME NEW parent \in {RootHandle} \cup Handles, NEW name \in Names,
              MakeFolder(parent, name)
       PROVE  Answered'
  BY <1>10, ReplyAnswers DEF MakeFolder, Refuse
<1>11. ASSUME NEW parent \in {RootHandle} \cup Handles, NEW name \in Names,
              NEW size \in (0 .. MaxSize) \cup {Unknown}, SendObjectInfo(parent, name, size)
       PROVE  Answered'
  BY <1>11, ReplyAnswers DEF SendObjectInfo, Refuse
<1> QED BY <1>1, <1>2, <1>3, <1>4, <1>5, <1>6, <1>7, <1>8, <1>9, <1>10, <1>11 DEF Next

LEMMA AlwaysAnswered == Spec => []Answered
<1>1. Init => Answered
  BY DEF Init, Answered, AnsweredOnce, DeclaredIsSent, CutOff, Silent
<1>2. MtInv /\ Answered /\ [Next]_vars => Answered'
  <2>1. ASSUME UNCHANGED vars, Answered PROVE Answered'
    BY <2>1 DEF vars, Answered, AnsweredOnce, DeclaredIsSent
  <2> QED BY <2>1, NextAnswers
<1> QED BY Invariance, <1>1, <1>2, PTL DEF Spec

\* A transaction is answered once unless the cable failed, as long as the card
\* is read and written without error.
THEOREM OneAnswer ==
  ASSUME "read" \notin Faults, "write" \notin Faults
  PROVE  Spec => []AnsweredOnce
<1>1. Answered => AnsweredOnce
  BY DEF Answered
<1> QED BY AlwaysAnswered, <1>1, PTL

\* The data phase carries what it declares, for a host that asks for what a
\* file holds and a card that is read without error.
THEOREM DeclaredArrives ==
  ASSUME "read" \notin Faults, ~AskPastEnd
  PROVE  Spec => []DeclaredIsSent
<1>1. Answered => DeclaredIsSent
  BY DEF Answered
<1> QED BY AlwaysAnswered, <1>1, PTL
=============================================================================
