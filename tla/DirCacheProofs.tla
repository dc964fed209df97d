--------------------------- MODULE DirCacheProofs ---------------------------
(***************************************************************************)
(* Proofs about DirCache, for every set of paths, any number of clients    *)
(* and requests, and any driver calls that fail: what a cached listing     *)
(* says is true but for the named exceptions, and a Put that steps the old *)
(* file aside never loses it.                                              *)
(***************************************************************************)
EXTENDS DirCache, SequenceTheorems, TLAPS

-----------------------------------------------------------------------------
(* Paths                                                                   *)

LEMMA PathSeq ==
  ASSUME NEW p \in Paths
  PROVE  /\ p \in Seq(Names) /\ Len(p) \in Nat
         /\ p # Root => Len(p) > 0 /\ Front(p) \in Paths /\ Len(Front(p)) = Len(p) - 1
                        /\ \A i \in 1 .. Len(p) - 1 : Front(p)[i] = p[i]
<1>1. p \in Seq(Names)  BY DirCacheAssumption
<1>2. Len(p) \in Nat  BY <1>1, LenProperties
<1>3. ASSUME p # Root PROVE Len(p) > 0  BY <1>1, <1>2, <1>3, EmptySeq DEF Root
<1>4. ASSUME p # Root PROVE Front(p) \in Paths
  <2>1. Len(p) - 1 \in 0 .. Len(p)  BY <1>2, <1>3, <1>4
  <2> QED  BY <2>1, DirCacheAssumption DEF Front
<1>5. ASSUME p # Root
      PROVE  Len(Front(p)) = Len(p) - 1 /\ \A i \in 1 .. Len(p) - 1 : Front(p)[i] = p[i]
  <2>1. \A i \in 1 .. Len(p) - 1 : p[i] \in Names  BY <1>1, <1>2, ElementOfSeq
  <2>2. 1 \in Int /\ Len(p) - 1 \in Int  BY <1>2
  <2>3. /\ Len(Front(p)) = IF 1 <= Len(p) - 1 THEN Len(p) - 1 - 1 + 1 ELSE 0
        /\ \A i \in 1 .. Len(p) - 1 - 1 + 1 : Front(p)[i] = p[1 + i - 1]
    <3> HIDE DEF Root
    <3> QED  BY <2>1, <2>2, SubSeqProperties DEF Front
  <2>4. Len(p) > 0  BY <1>3, <1>5
  <2>5. Len(Front(p)) = Len(p) - 1
    <3>1. \A n \in Nat : n > 0 => (IF 1 <= n - 1 THEN n - 1 - 1 + 1 ELSE 0) = n - 1  OBVIOUS
    <3> QED  BY <1>2, <2>3, <2>4, <3>1
  <2>6. ASSUME NEW i \in 1 .. Len(p) - 1 PROVE Front(p)[i] = p[i]
    <3>1. i \in 1 .. Len(p) - 1 - 1 + 1 /\ 1 + i - 1 = i  BY <1>2
    <3> QED  BY <2>3, <3>1
  <2> QED  BY <2>5, <2>6
<1> QED  BY <1>1, <1>2, <1>3, <1>4, <1>5

LEMMA SamePath ==
  ASSUME NEW p \in Paths, NEW q \in Paths, Len(p) = Len(q), \A i \in 1 .. Len(p) : p[i] = q[i]
  PROVE  p = q
BY PathSeq, SeqEqual

\* r is p or below it when it begins with it.
LEMMA UnderDef ==
  ASSUME NEW p \in Paths, NEW r \in Paths
  PROVE  r \in Under(p) <=> Len(r) >= Len(p) /\ \A i \in 1 .. Len(p) : r[i] = p[i]
<1>1. p \in Seq(Names) /\ r \in Seq(Names) /\ Len(p) \in Nat /\ Len(r) \in Nat  BY PathSeq
<1>2. ASSUME Len(r) >= Len(p)
      PROVE  /\ SubSeq(r, 1, Len(p)) \in Seq(Names) /\ Len(SubSeq(r, 1, Len(p))) = Len(p)
             /\ \A i \in 1 .. Len(p) : SubSeq(r, 1, Len(p))[i] = r[i]
  <2>1. \A i \in 1 .. Len(p) : r[i] \in Names  BY <1>1, <1>2, ElementOfSeq
  <2>2. /\ SubSeq(r, 1, Len(p)) \in Seq(Names)
        /\ Len(SubSeq(r, 1, Len(p))) = IF 1 <= Len(p) THEN Len(p) - 1 + 1 ELSE 0
        /\ \A i \in 1 .. Len(p) - 1 + 1 : SubSeq(r, 1, Len(p))[i] = r[1 + i - 1]
    BY <1>1, <2>1, SubSeqProperties
  <2> QED  BY <1>1, <2>2
<1>3. ASSUME Len(r) >= Len(p), \A i \in 1 .. Len(p) : r[i] = p[i]
      PROVE  SubSeq(r, 1, Len(p)) = p
  BY <1>1, <1>2, <1>3, SeqEqual
<1> QED  BY <1>1, <1>2, <1>3 DEF Under

LEMMA UnderSelf == \A p \in Paths : p \in Under(p) /\ Under(p) \subseteq Paths /\ p \in Under(Root)
<1> SUFFICES ASSUME NEW p \in Paths PROVE p \in Under(p) /\ Under(p) \subseteq Paths /\ p \in Under(Root)
  OBVIOUS
<1>1. Len(p) \in Nat /\ Root \in Paths /\ Len(Root) = 0  BY PathSeq, DirCacheAssumption DEF Root
<1>2. p \in Under(p)  BY <1>1, UnderDef
<1>3. p \in Under(Root)  BY <1>1, UnderDef
<1> QED  BY <1>2, <1>3 DEF Under

LEMMA UnderOrder ==
  ASSUME NEW p \in Paths, NEW q \in Paths, NEW r \in Paths
  PROVE  /\ r \in Under(q) /\ q \in Under(p) => r \in Under(p)
         /\ q \in Under(p) /\ p \in Under(q) => p = q
         /\ r \in Under(p) /\ r \in Under(q) => p \in Under(q) \/ q \in Under(p)
         /\ q \in Under(p) /\ Len(p) = Len(q) => p = q
<1>1. Len(p) \in Nat /\ Len(q) \in Nat /\ Len(r) \in Nat  BY PathSeq
<1>2. r \in Under(q) /\ q \in Under(p) => r \in Under(p)  BY <1>1, UnderDef
<1>3. q \in Under(p) /\ Len(p) = Len(q) => p = q  BY UnderDef, SamePath
<1>4. q \in Under(p) /\ p \in Under(q) => p = q  BY <1>1, <1>3, UnderDef
<1>5. r \in Under(p) /\ r \in Under(q) => p \in Under(q) \/ q \in Under(p)  BY <1>1, UnderDef
<1> QED  BY <1>2, <1>3, <1>4, <1>5

LEMMA FrontUnder ==
  ASSUME NEW r \in Paths, r # Root
  PROVE  /\ Front(r) \in Paths /\ r \in Under(Front(r)) /\ Front(r) \notin Under(r) /\ Front(r) # r
         /\ Len(Front(r)) < Len(r)
         /\ \A p \in Paths : r \in Under(p) /\ r # p => Front(r) \in Under(p)
         /\ \A p \in Paths : Front(r) \in Under(p) => r \in Under(p) /\ r # p
<1>1. Len(r) \in Nat /\ Front(r) \in Paths /\ Len(Front(r)) = Len(r) - 1 /\ Len(r) > 0
      /\ \A i \in 1 .. Len(r) - 1 : Front(r)[i] = r[i]
  BY PathSeq
<1>2. r \in Under(Front(r)) /\ Front(r) \notin Under(r)  BY <1>1, UnderDef
<1>3. ASSUME NEW p \in Paths, r \in Under(p), r # p PROVE Front(r) \in Under(p)
  <2>1. Len(p) \in Nat /\ Len(r) >= Len(p) /\ \A i \in 1 .. Len(p) : r[i] = p[i]
    BY <1>3, UnderDef, PathSeq
  <2>2. Len(r) # Len(p)  BY <1>3, UnderOrder
  <2>3. Len(Front(r)) >= Len(p) /\ \A i \in 1 .. Len(p) : Front(r)[i] = p[i]
    BY <1>1, <2>1, <2>2
  <2> QED  BY <1>1, <2>3, UnderDef
<1>4. ASSUME NEW p \in Paths, Front(r) \in Under(p) PROVE r \in Under(p) /\ r # p
  BY <1>1, <1>2, <1>4, UnderOrder
<1> QED  BY <1>1, <1>2, <1>3, <1>4

\* A path is that of its directory and its name.
LEMMA SameName ==
  ASSUME NEW p \in Paths \ {Root}, NEW q \in Paths \ {Root}, Front(p) = Front(q), Last(p) = Last(q)
  PROVE  p = q
<1>1. /\ Len(p) \in Nat /\ Len(p) > 0 /\ Len(Front(p)) = Len(p) - 1
      /\ \A i \in 1 .. Len(p) - 1 : Front(p)[i] = p[i]
  BY PathSeq
<1>2. /\ Len(q) \in Nat /\ Len(q) > 0 /\ Len(Front(q)) = Len(q) - 1
      /\ \A i \in 1 .. Len(q) - 1 : Front(q)[i] = q[i]
  BY PathSeq
<1>3. Len(p) = Len(q)  BY <1>1, <1>2
<1>4. p[Len(p)] = q[Len(q)]  BY DEF Last
<1>5. \A i \in 1 .. Len(p) : p[i] = q[i]  BY <1>1, <1>2, <1>3, <1>4
<1> QED  BY <1>3, <1>5, SamePath

\* Where the objects of p go when it becomes t.
LEMMA Images ==
  ASSUME NEW p \in Paths, NEW t \in Paths, NEW q \in Under(p), Image(q, p, t) \in Paths
  PROVE  /\ Image(q, p, t) \in Under(t)
         /\ Len(Image(q, p, t)) = Len(t) + Len(q) - Len(p)
         /\ \A i \in 1 .. Len(q) - Len(p) : Image(q, p, t)[Len(t) + i] = q[Len(p) + i]
         /\ q \in Paths /\ Len(q) \in Nat /\ Len(p) \in Nat /\ Len(t) \in Nat /\ Len(q) >= Len(p)
<1>1. q \in Paths /\ Len(q) >= Len(p)  BY UnderSelf, UnderDef
<1>2. /\ q \in Seq(Names) /\ p \in Seq(Names) /\ t \in Seq(Names)
      /\ Len(q) \in Nat /\ Len(p) \in Nat /\ Len(t) \in Nat
  BY <1>1, PathSeq
<1> DEFINE s == SubSeq(q, Len(p) + 1, Len(q))
<1>3. /\ s \in Seq(Names) /\ Len(s) = Len(q) - Len(p)
      /\ \A i \in 1 .. Len(q) - Len(p) : s[i] = q[Len(p) + i]
  <2>1. \A i \in Len(p) + 1 .. Len(q) : q[i] \in Names  BY <1>2, ElementOfSeq
  <2>2. Len(p) + 1 \in Int /\ Len(q) \in Int  BY <1>2
  <2>3. /\ s \in Seq(Names)
        /\ Len(s) = IF Len(p) + 1 <= Len(q) THEN Len(q) - (Len(p) + 1) + 1 ELSE 0
        /\ \A i \in 1 .. Len(q) - (Len(p) + 1) + 1 : s[i] = q[Len(p) + 1 + i - 1]
    BY <2>1, <2>2, SubSeqProperties
  <2> HIDE DEF s
  <2> QED  BY <1>1, <1>2, <2>3
<1>4. /\ Len(t \o s) = Len(t) + Len(s)
      /\ \A i \in 1 .. Len(t) + Len(s) : (t \o s)[i] = IF i <= Len(t) THEN t[i] ELSE s[i - Len(t)]
  <2> HIDE DEF s
  <2> QED  BY <1>2, <1>3, ConcatProperties
<1>5. Image(q, p, t) = t \o s  BY DEF Image
<1> HIDE DEF s
<1>6. Image(q, p, t) \in Under(t)
  <2>1. Len(t \o s) >= Len(t)  BY <1>1, <1>2, <1>3, <1>4
  <2>2. \A i \in 1 .. Len(t) : i \in 1 .. Len(t) + Len(s)  BY <1>1, <1>2, <1>3
  <2>3. \A i \in 1 .. Len(t) : (t \o s)[i] = t[i]  BY <1>2, <1>4, <2>2
  <2> QED  BY <1>5, <2>1, <2>3, UnderDef
<1>7. \A i \in 1 .. Len(q) - Len(p) : (t \o s)[Len(t) + i] = q[Len(p) + i]
  <2> TAKE i \in 1 .. Len(q) - Len(p)
  <2>1. Len(t) + i \in 1 .. Len(t) + Len(s) /\ ~(Len(t) + i <= Len(t)) /\ Len(t) + i - Len(t) = i
    BY <1>1, <1>2, <1>3
  <2> QED  BY <1>3, <1>4, <2>1
<1> QED  BY <1>1, <1>2, <1>3, <1>4, <1>5, <1>6, <1>7

\* No two go to one place, and what is above one goes above it.
LEMMA ImagesDiffer ==
  ASSUME NEW p \in Paths, NEW t \in Paths, NEW q \in Under(p), NEW r \in Under(p),
         Image(q, p, t) = Image(r, p, t), Image(q, p, t) \in Paths
  PROVE  q = r
<1>1. Len(q) = Len(r) /\ q \in Paths /\ r \in Paths /\ Len(p) \in Nat /\ Len(q) \in Nat  BY Images
<1>2. \A i \in 1 .. Len(p) : q[i] = r[i]  BY <1>1, UnderDef
<1>3. \A i \in 1 .. Len(q) - Len(p) : q[Len(p) + i] = r[Len(p) + i]
  <2>1. \A i \in 1 .. Len(q) - Len(p) : Image(q, p, t)[Len(t) + i] = q[Len(p) + i]
    BY Images
  <2>2. \A i \in 1 .. Len(r) - Len(p) : Image(r, p, t)[Len(t) + i] = r[Len(p) + i]
    BY Images
  <2> QED  BY <1>1, <2>1, <2>2
<1>4. \A i \in 1 .. Len(q) : q[i] = r[i]
  <2> TAKE i \in 1 .. Len(q)
  <2>1. CASE i <= Len(p)  BY <1>1, <1>2, <2>1
  <2>2. CASE i > Len(p)
    <3>1. i - Len(p) \in 1 .. Len(q) - Len(p) /\ Len(p) + (i - Len(p)) = i  BY <1>1, <2>2
    <3> QED  BY <1>3, <3>1
  <2> QED  BY <1>1, <2>1, <2>2
<1> QED  BY <1>1, <1>4, SamePath

LEMMA ImageOfSelf ==
  ASSUME NEW p \in Paths, NEW t \in Paths
  PROVE  Image(p, p, t) = t
<1>1. Len(p) \in Nat /\ t \in Seq(Names)  BY PathSeq
<1>2. SubSeq(p, Len(p) + 1, Len(p)) = << >>  BY <1>1, SubSeqEmpty
<1> QED  BY <1>1, <1>2, ConcatEmptySeq DEF Image

\* Every path between p and q has its image on the way.
LEMMA ImageAbove ==
  ASSUME NEW p \in Paths, NEW t \in Paths, NEW q \in Under(p), Image(q, p, t) \in Paths,
         NEW x \in Under(t), Image(q, p, t) \in Under(x), x # Image(q, p, t)
  PROVE  \E r \in Under(p) : q \in Under(r) /\ q # r /\ (Image(r, p, t) \in Paths => x = Image(r, p, t))
<1> DEFINE i == Image(q, p, t)
           n == Len(p) + Len(x) - Len(t)
           r == SubSeq(q, 1, n)
<1>1. /\ i \in Under(t) /\ Len(i) = Len(t) + Len(q) - Len(p)
      /\ \A k \in 1 .. Len(q) - Len(p) : i[Len(t) + k] = q[Len(p) + k]
      /\ q \in Paths /\ Len(q) \in Nat /\ Len(p) \in Nat /\ Len(t) \in Nat /\ Len(q) >= Len(p)
  BY Images
<1>2. x \in Paths /\ i \in Paths  BY UnderSelf
<1> HIDE DEF i
<1>3. Len(x) \in Nat /\ Len(i) \in Nat /\ Len(x) >= Len(t) /\ Len(i) >= Len(x) /\ Len(i) # Len(x)
  <2>1. Len(x) \in Nat /\ Len(i) \in Nat  BY <1>2, PathSeq
  <2>2. Len(x) >= Len(t)  BY <1>2, UnderDef
  <2>3. Len(i) >= Len(x)  BY <1>2, UnderDef DEF i
  <2>4. Len(i) # Len(x)  BY <1>2, UnderOrder DEF i
  <2> QED  BY <2>1, <2>2, <2>3, <2>4
<1>4. n \in Len(p) .. Len(q) - 1  BY <1>1, <1>3
<1>5. r \in Paths  BY <1>1, <1>4, DirCacheAssumption
<1>6. Len(r) = n /\ \A k \in 1 .. n : r[k] = q[k]
  <2>1. q \in Seq(Names)  BY <1>1, PathSeq
  <2>2. \A k \in 1 .. n : q[k] \in Names  BY <1>1, <1>4, <2>1, ElementOfSeq
  <2>3. n \in Int /\ n >= 0  BY <1>1, <1>4
  <2> HIDE DEF n
  <2>4. /\ Len(r) = IF 1 <= n THEN n - 1 + 1 ELSE 0
        /\ \A k \in 1 .. n - 1 + 1 : r[k] = q[1 + k - 1]
    BY <2>2, <2>3, SubSeqProperties
  <2>5. \A m \in Int : m >= 0 => (IF 1 <= m THEN m - 1 + 1 ELSE 0) = m  OBVIOUS
  <2>6. Len(r) = n  BY <2>3, <2>4, <2>5
  <2>7. ASSUME NEW k \in 1 .. n PROVE r[k] = q[k]
    <3>1. k \in 1 .. n - 1 + 1 /\ 1 + k - 1 = k  BY <2>3
    <3> QED  BY <2>4, <3>1
  <2> QED  BY <2>6, <2>7
<1> HIDE DEF n, r
<1>7. r \in Under(p)
  <2>1. \A k \in 1 .. Len(p) : q[k] = p[k]  BY <1>1, UnderDef
  <2>2. \A k \in 1 .. Len(p) : r[k] = p[k]  BY <1>1, <1>4, <1>6, <2>1
  <2> QED  BY <1>1, <1>4, <1>5, <1>6, <2>2, UnderDef
<1>8. q \in Under(r) /\ q # r
  <2>1. Len(q) >= Len(r) /\ Len(q) # Len(r)  BY <1>1, <1>4, <1>6
  <2>2. \A k \in 1 .. Len(r) : q[k] = r[k]  BY <1>6
  <2> QED  BY <1>1, <1>5, <2>1, <2>2, UnderDef
<1>9. ASSUME Image(r, p, t) \in Paths PROVE x = Image(r, p, t)
  <2> DEFINE j == Image(r, p, t)
  <2>1. /\ j \in Under(t) /\ Len(j) = Len(t) + Len(r) - Len(p)
        /\ \A k \in 1 .. Len(r) - Len(p) : j[Len(t) + k] = r[Len(p) + k]
    BY <1>7, <1>9, Images
  <2>2. j \in Paths  BY <1>9
  <2> HIDE DEF j
  <2>3. Len(j) = Len(x)  BY <1>1, <1>3, <1>6, <2>1 DEF n
  <2>4. \A k \in 1 .. Len(t) : j[k] = x[k]
    <3>1. \A k \in 1 .. Len(t) : j[k] = t[k]  BY <2>1, <2>2, UnderDef
    <3>2. \A k \in 1 .. Len(t) : x[k] = t[k]  BY <1>2, UnderDef
    <3> QED  BY <3>1, <3>2
  <2>5. \A k \in 1 .. Len(x) : i[k] = x[k]  BY <1>2, UnderDef DEF i
  <2>6. ASSUME NEW k \in 1 .. Len(x), k > Len(t) PROVE j[k] = x[k]
    <3> DEFINE l == k - Len(t)
    <3>1. l \in 1 .. Len(r) - Len(p) /\ l \in 1 .. Len(q) - Len(p) /\ Len(t) + l = k
          /\ Len(p) + l \in 1 .. n
      BY <1>1, <1>3, <1>4, <1>6, <2>6 DEF n
    <3> HIDE DEF l
    <3>2. j[Len(t) + l] = r[Len(p) + l] /\ i[Len(t) + l] = q[Len(p) + l]  BY <1>1, <2>1, <3>1
    <3> QED  BY <1>6, <2>5, <2>6, <3>1, <3>2
  <2>7. \A k \in 1 .. Len(x) : j[k] = x[k]  BY <1>1, <1>3, <2>4, <2>6
  <2> QED  BY <1>2, <2>2, <2>3, <2>7, SamePath DEF j
<1> QED  BY <1>7, <1>8, <1>9

LEMMA Child ==
  ASSUME NEW d \in Paths, NEW x \in Names, Append(d, x) \in Paths
  PROVE  /\ Append(d, x) # Root /\ Front(Append(d, x)) = d /\ Last(Append(d, x)) = x
<1> DEFINE a == Append(d, x)
<1>1. d \in Seq(Names) /\ Len(d) \in Nat  BY PathSeq
<1>2. /\ a # << >> /\ Len(a) = Len(d) + 1 /\ \A i \in 1 .. Len(d) : a[i] = d[i]
      /\ a[Len(d) + 1] = x
  BY <1>1, AppendProperties
<1>3. a # Root  BY <1>2 DEF Root
<1>4. Last(a) = x  BY <1>2 DEF Last
<1> HIDE DEF a
<1>5. a \in Paths  BY DEF a
<1>6. /\ Front(a) \in Paths /\ Len(Front(a)) = Len(a) - 1
      /\ \A i \in 1 .. Len(a) - 1 : Front(a)[i] = a[i]
  BY <1>3, <1>5, PathSeq
<1>7. Len(Front(a)) = Len(d)  BY <1>1, <1>2, <1>6
<1>8. \A i \in 1 .. Len(d) : Front(a)[i] = d[i]  BY <1>1, <1>2, <1>6
<1>9. Front(a) = d  BY <1>6, <1>7, <1>8, SamePath
<1> QED  BY <1>3, <1>4, <1>9 DEF a

LEMMA NameOf ==
  ASSUME NEW p \in Paths \ {Root}
  PROVE  Last(p) \in Names
<1>1. p \in Seq(Names) /\ Len(p) \in Nat /\ Len(p) > 0  BY PathSeq
<1>2. Len(p) \in 1 .. Len(p)  BY <1>1
<1> QED  BY <1>1, <1>2, ElementOfSeq DEF Last

-----------------------------------------------------------------------------
(* The invariant.  CacheTruth speaks of every name and OldKept of every    *)
(* step of a Put; what makes them last is what each request knows.         *)

Kinds == Asked \cup {"make", "upload"}
Steps == {s \in [k : Kinds, p : Paths, q : Paths] : Proper(s)}
Calls == {"make", "upload", "remove", "rename", "move", "copy"}
Takes == {"remove", "rename", "move"}    \* what was at the path is gone
Gives == {"rename", "move", "copy"}      \* and is at the target

Entries == [name : Names, v : Values \ {None}, temp : BOOLEAN]
EntryOf(d) == {e \in Entries : e.name \in {Last(r) : r \in Within(d)}}
ReqRec == [todo : Seq(Steps), pc : {"idle", "get", "wait", "call", "patch"}, need : Seq(Paths),
           v : Values, torn : BOOLEAN, new : 0 .. MaxOps + 1, old : Values]
FlightRec == [st : {"none", "get", "wait", "list", "set", "fail"}, snap : SUBSET Entries,
              torn : BOOLEAN]
Stores == [Paths -> Values]

Types ==
  /\ store \in Stores
  /\ cache \in [Paths -> {NoList} \cup SUBSET Entries]
  /\ \A d \in Paths : cache[d] = NoList \/ cache[d] \subseteq EntryOf(d)
  /\ flight \in [Paths -> FlightRec] /\ \A d \in Paths : flight[d].snap \subseteq EntryOf(d)
  /\ client \in [Clients -> ReqRec]
  /\ hole \subseteq Paths /\ ops \in 0 .. MaxOps /\ faults \in 0 .. MaxFaults

\* The paths whose own entries a patch is for
Changed(s) == (IF s.k = "copy" THEN {} ELSE {s.p}) \cup (IF s.k \in Gives THEN {Target(s)} ELSE {})
\* c's call has taken r away, and c has not patched the listings yet.
TakenBy(c, r) == At(c, "patch") /\ Now(c).k \in Takes /\ r \in Under(Now(c).p)
Excused(c, r) == (At(c, "patch") /\ r \in Changed(Now(c))) \/ TakenBy(c, r)
Listed(r) == r \in Paths \ (hole \cup {Root}) /\ Cached(Front(r))
Held(v) == IF v = None THEN {} ELSE {v}

\* What a listing shows of a name
ListTruth == \A r \in Paths : Listed(r) /\ (\A c \in Clients : ~Excused(c, r)) =>
  {e.v : e \in Named(cache[Front(r)], r)} = Held(store[r])
ListOnce == \A r \in Paths : Listed(r) => \A e, f \in Named(cache[Front(r)], r) : e = f
\* A listing is that of a directory, unless its directory has just been taken.
ListOfDir == \A d \in Paths : Cached(d) /\ store[d] # Dir =>
  Within(d) \subseteq hole \/ \E c \in Clients : TakenBy(c, d)
FlightTrue == \A d \in Paths : flight[d].st = "set" /\ ~flight[d].torn => flight[d].snap = Listing(store, d)

\* An upload comes last, or before the removal of its backup.
Shape(t) == \A i \in 1 .. Len(t) : t[i].k = "upload" => i = Len(t) \/
  (i = Len(t) - 1 /\ \E p \in DOMAIN Backup :
     t[i] = Step("upload", p, Root) /\ t[i + 1] = Step("remove", Backup[p], Root))

\* Where a request is in its step
Going(r) ==
  LET s == Head(r.todo) IN
  /\ r.pc \in {"get", "wait"} => r.need = Needs(s) \/ (s.k \in {"move", "copy"} /\ r.need = <<s.q>>)
  /\ r.pc \in {"call", "patch"} => s.k \in Calls
  /\ r.pc = "wait" /\ s.k # "list" => Head(r.need) # Root

\* What it has looked up: true, unless another call has crossed it
View(r, S) ==
  LET s == Head(r.todo) IN
  s.k \in Takes \cup Gives /\ (r.pc = "call" \/ (r.pc \in {"get", "wait"} /\ r.need # Needs(s))) =>
    r.v # None /\ (r.torn \/ r.v = S[s.p])
\* What its call has done, in the same way
PatchView(r, S) ==
  LET s == Head(r.todo)  t == Target(s) IN
  r.pc = "patch" =>
    /\ s.k \in Gives => t \in Paths \ Under(s.p)
    /\ s.k \in Takes \cup Gives => r.v # None
    /\ ~r.torn => /\ s.k = "make" => S[s.p] = Dir
                  /\ s.k = "upload" => S[s.p] = r.new
                  /\ s.k \in Takes => S[s.p] = None
                  /\ s.k \in Gives => S[t] = r.v

\* A Put that steps the old file of p aside: it is about to; it has, and will
\* upload the new one; that one is there; or the upload has failed.
Stage(r, p, S) ==
  LET b == Backup[p]  n == Len(r.todo) IN
  \/ /\ r.todo = <<Step("rename", p, b), Step("mkdir", Front(p), Root), Step("upload", p, Root),
                   Step("remove", b, Root)>>
     /\ r.old = IF r.pc = "patch" THEN S[b] ELSE S[p]
  \/ /\ n > 1 /\ r.todo[n] = Step("remove", b, Root) /\ r.todo[n - 1] = Step("upload", p, Root)
     /\ \A i \in 1 .. n - 2 : r.todo[i].k \in {"mkdir", "make"}
     /\ IF n = 2 /\ r.pc = "patch" THEN S[p] = r.new ELSE r.old = S[b]
  \/ /\ r.todo = <<Step("remove", b, Root)>>
     /\ S[p] = r.new
  \/ /\ r.todo = <<Step("rename", b, p)>>
     /\ r.old = IF r.pc = "patch" THEN S[p] ELSE S[b]
Keeps(r, S) ==
  r.old # Empty => r.old \notin {None, Dir} /\ \E p \in DOMAIN Backup : Stage(r, p, S)

RequestOk(r, S) ==
  /\ r.todo = << >> <=> r.pc = "idle"
  /\ r.todo = << >> => r.old = Empty
  /\ Shape(r.todo)
  /\ r.todo # << >> => Going(r) /\ View(r, S) /\ PatchView(r, S)
  /\ Keeps(r, S)
RequestsInv == \A c \in Clients : RequestOk(client[c], store)

IInv == Types /\ Tree(store) /\ ListTruth /\ ListOnce /\ ListOfDir /\ FlightTrue /\ RequestsInv

-----------------------------------------------------------------------------
(* The driver's call                                                       *)

LEMMA StepIs ==
  ASSUME NEW s \in Steps
  PROVE  /\ s \in [k : Kinds, p : Paths, q : Paths] /\ s.k \in Kinds /\ s.p \in Paths /\ s.q \in Paths
         /\ s = Step(s.k, s.p, s.q)
         /\ s.k \notin {"list", "mkdir"} => s.p # Root /\ Front(s.p) \in Paths
         /\ s.k = "look" => s.p \in DOMAIN Backup
         /\ s.k = "rename" => s.q # Root /\ Front(s.q) = Front(s.p)
         /\ s.k \in {"move", "copy"} => s.q # Front(s.p)
<1>1. s \in [k : Kinds, p : Paths, q : Paths] /\ Proper(s)  BY DEF Steps
<1>2. s.k \notin {"list", "mkdir"} => Front(s.p) \in Paths  BY <1>1, PathSeq DEF Proper
<1> QED  BY <1>1, <1>2 DEF Proper, Step

LEMMA TargetIs ==
  ASSUME NEW s \in Steps, s.k \in Gives, Target(s) \in Paths
  PROVE  /\ Target(s) # Root
         /\ s.k = "rename" => Target(s) = s.q /\ Front(Target(s)) = Front(s.p)
         /\ s.k \in {"move", "copy"} =>
              Front(Target(s)) = s.q /\ Last(Target(s)) = Last(s.p) /\ Target(s) # s.p
<1>1. s.p \in Paths \ {Root} /\ s.q \in Paths  BY StepIs DEF Gives
<1>2. CASE s.k = "rename"  BY <1>2, StepIs DEF Target
<1>3. CASE s.k \in {"move", "copy"}
  <2>1. Last(s.p) \in Names /\ Target(s) = Append(s.q, Last(s.p))  BY <1>1, <1>3, NameOf DEF Target
  <2>2. Append(s.q, Last(s.p)) \in Paths  BY <2>1
  <2>3. Front(Target(s)) = s.q /\ Last(Target(s)) = Last(s.p) /\ Target(s) # Root
    BY <1>1, <2>1, <2>2, Child
  <2> QED  BY <1>3, <2>3, StepIs
<1> QED  BY <1>2, <1>3 DEF Gives

\* What is put at t lies outside of where it was.
LEMMA Apart ==
  ASSUME NEW p \in Paths, NEW t \in Paths \ Under(p), Tree(store), store[p] # None,
         store[t] # Dir
  PROVE  p \notin Under(t) /\ \A r \in Under(t) : r \notin Under(p)
<1>1. p \notin Under(t)
  <2> SUFFICES ASSUME p \in Under(t) PROVE FALSE  OBVIOUS
  <2>1. p # t  BY UnderSelf
  <2>2. store[t] = Dir  BY <2>1 DEF Tree
  <2> QED  BY <2>2 DEF None, Dir
<1>2. ASSUME NEW r \in Under(t), r \in Under(p) PROVE FALSE
  <2>1. r \in Paths  BY UnderSelf
  <2> QED  BY <1>1, <1>2, <2>1, UnderOrder
<1> QED  BY <1>1, <1>2

\* The storage once s has moved to t what is at p: base elsewhere.
Moved(base, p, t) == [r \in Paths |->
  IF \E q \in Under(p) : store[q] # None /\ r = Image(q, p, t)
  THEN store[CHOOSE q \in Under(p) : r = Image(q, p, t)] ELSE base[r]]

LEMMA MovedIs ==
  ASSUME NEW p \in Paths, NEW t \in Paths, NEW base,
         \A r \in Under(p) : store[r] # None => Image(r, p, t) \in Paths
  PROVE  /\ \A q \in Under(p) : store[q] # None =>
              Image(q, p, t) \in Under(t) /\ Moved(base, p, t)[Image(q, p, t)] = store[q]
         /\ \A r \in Paths : \/ Moved(base, p, t)[r] = base[r]
                             \/ \E q \in Under(p) : store[q] # None /\ r = Image(q, p, t)
         /\ \A r \in Paths \ Under(t) : Moved(base, p, t)[r] = base[r]
<1>1. ASSUME NEW q \in Under(p), store[q] # None
      PROVE  Image(q, p, t) \in Under(t) /\ Moved(base, p, t)[Image(q, p, t)] = store[q]
  <2> DEFINE i == Image(q, p, t)
  <2>1. i \in Paths  BY <1>1
  <2>2. Image(q, p, t) \in Under(t)  BY <2>1, Images
  <2>3. \A r \in Under(p) : i = Image(r, p, t) => r = q
    <3> TAKE r \in Under(p)
    <3> HAVE i = Image(r, p, t)
    <3> QED  BY <2>1, ImagesDiffer
  <2> HIDE DEF i
  <2>4. (CHOOSE r \in Under(p) : i = Image(r, p, t)) = q  BY <2>3 DEF i
  <2>5. \E r \in Under(p) : store[r] # None /\ i = Image(r, p, t)  BY <1>1 DEF i
  <2>6. Moved(base, p, t)[i] = store[q]  BY <2>1, <2>4, <2>5 DEF Moved
  <2> QED  BY <2>2, <2>6 DEF i
<1>2. \A r \in Paths : \/ Moved(base, p, t)[r] = base[r]
                       \/ \E q \in Under(p) : store[q] # None /\ r = Image(q, p, t)
  BY DEF Moved
<1>3. \A r \in Paths \ Under(t) : Moved(base, p, t)[r] = base[r]  BY <1>1, <1>2
<1> QED  BY <1>1, <1>2, <1>3

\* What the calls do; the tree remains one.
LEMMA PutDoes ==
  ASSUME store \in Stores, Tree(store), NEW p \in Paths, p # Root, NEW v \in Values,
         store[Front(p)] = Dir, store[p] = Dir => v = Dir
  PROVE  Tree([store EXCEPT ![p] = v])
<1> DEFINE f == [store EXCEPT ![p] = v]
<1>1. f[p] = v /\ \A r \in Paths : r # p => f[r] = store[r]  BY DEF Stores
<1> HIDE DEF f
<1>2. f[Root] = Dir  BY <1>1, DirCacheAssumption DEF Tree
<1>3. ASSUME NEW x \in Paths, NEW r \in Under(x) \ {x}, f[r] # None PROVE f[x] = Dir
  <2>1. r \in Paths  BY UnderSelf
  <2>2. store[x] = Dir
    <3>1. CASE r # p  BY <1>1, <1>3, <2>1, <3>1 DEF Tree
    <3>2. CASE r = p
      <4>1. Front(p) \in Under(x) /\ Front(p) \in Paths  BY <3>2, FrontUnder
      <4>2. CASE x = Front(p)  BY <4>2
      <4>3. CASE x # Front(p)  BY <4>1, <4>3 DEF Tree, None, Dir
      <4> QED  BY <4>2, <4>3
    <3> QED  BY <3>1, <3>2
  <2> QED  BY <1>1, <2>2
<1>4. Tree(f)  BY <1>2, <1>3 DEF Tree
<1> QED  BY <1>4 DEF f

LEMMA TakeDoes ==
  ASSUME store \in Stores, Tree(store), NEW p \in Paths, p # Root
  PROVE  Tree([r \in Paths |-> IF r \in Under(p) THEN None ELSE store[r]])
<1> DEFINE f == [r \in Paths |-> IF r \in Under(p) THEN None ELSE store[r]]
<1>1. Root \notin Under(p)  BY UnderSelf, UnderOrder, DirCacheAssumption
<1>2. f[Root] = Dir  BY <1>1, DirCacheAssumption DEF Tree
<1>3. ASSUME NEW x \in Paths, NEW r \in Under(x) \ {x}, f[r] # None PROVE f[x] = Dir
  <2>1. r \in Paths  BY UnderSelf
  <2>2. r \notin Under(p) /\ store[r] # None  BY <1>3, <2>1
  <2>3. x \notin Under(p)  BY <2>1, <2>2, UnderOrder
  <2>4. store[x] = Dir  BY <2>2 DEF Tree
  <2> QED  BY <2>3, <2>4
<1> HIDE DEF f
<1>4. Tree(f)  BY <1>2, <1>3 DEF Tree
<1> QED  BY <1>4 DEF f

\* base: the storage, or what is left of it without p
LEMMA MoveDoes ==
  ASSUME store \in Stores, Tree(store), NEW p \in Paths, p # Root, NEW t \in Paths \ Under(p), t # Root,
         NEW base \in Stores, Tree(base), base[Front(t)] = Dir,
         \A r \in Under(t) : base[r] = store[r],
         store[p] # None, store[t] = None \/ (store[t] # Dir /\ store[p] # Dir),
         \A r \in Under(p) : store[r] # None => Image(r, p, t) \in Paths
  PROVE  /\ Tree(Moved(base, p, t)) /\ Moved(base, p, t) \in Stores
         /\ Moved(base, p, t)[t] = store[p]
<1> DEFINE m == Moved(base, p, t)
           im(q) == Image(q, p, t)
<1>1. /\ \A q \in Under(p) : store[q] # None => im(q) \in Under(t) /\ m[im(q)] = store[q]
      /\ \A r \in Paths : m[r] = base[r] \/ \E q \in Under(p) : store[q] # None /\ r = im(q)
      /\ \A r \in Paths \ Under(t) : m[r] = base[r]
  BY MovedIs
<1>2. m \in Stores
  <2>1. m = [r \in Paths |-> m[r]]  BY DEF Moved
  <2>2. \A r \in Paths : m[r] \in Values
    <3> TAKE r \in Paths
    <3>1. \A q \in Under(p) : store[q] \in Values  BY UnderSelf DEF Stores
    <3>2. base[r] \in Values  BY DEF Stores
    <3> HIDE DEF m
    <3> QED  BY <1>1, <3>1, <3>2
  <2> HIDE DEF m
  <2> QED  BY <2>1, <2>2 DEF Stores
<1>3. m[t] = store[p]
  <2>1. p \in Under(p) /\ im(p) = t  BY UnderSelf, ImageOfSelf
  <2> HIDE DEF m, im
  <2> QED  BY <1>1, <2>1
<1> HIDE DEF m
\* Nothing is below t before.
<1>4. \A r \in Under(t) \ {t} : base[r] = None
  <2> TAKE r \in Under(t) \ {t}
  <2>1. store[t] # Dir  BY DEF None, Dir
  <2>2. base[t] = store[t]  BY UnderSelf
  <2> QED  BY <2>1, <2>2 DEF Tree
<1>5. Root \notin Under(t)  BY UnderSelf, UnderOrder, DirCacheAssumption
<1>6. m[Root] = Dir  BY <1>1, <1>5, DirCacheAssumption DEF Tree
<1>7. ASSUME NEW x \in Paths, NEW r \in Under(x) \ {x}, m[r] # None PROVE m[x] = Dir
  <2>1. r \in Paths  BY UnderSelf
  <2>2. CASE x \notin Under(t)
    <3>1. m[x] = base[x]  BY <1>1, <2>2
    <3>2. CASE r \notin Under(t)
      <4>1. base[r] # None  BY <1>1, <1>7, <2>1, <3>2
      <4> QED  BY <3>1, <4>1 DEF Tree
    <3>3. CASE r \in Under(t)
      <4>1. x # t /\ t \in Under(x)  BY <2>1, <2>2, <3>3, UnderSelf, UnderOrder
      <4>2. Front(t) \in Under(x) /\ Front(t) \in Paths  BY <4>1, FrontUnder
      <4>3. base[x] = Dir
        <5>1. CASE x = Front(t)  BY <5>1
        <5>2. CASE x # Front(t)  BY <4>2, <5>2 DEF Tree, None, Dir
        <5> QED  BY <5>1, <5>2
      <4> QED  BY <3>1, <4>3
    <3> QED  BY <3>2, <3>3
  <2>3. CASE x \in Under(t)
    <3>1. r \in Under(t) /\ r # t  BY <2>1, <2>3, UnderOrder
    <3>2. PICK q \in Under(p) : store[q] # None /\ r = im(q)  BY <1>1, <1>4, <1>7, <2>1, <3>1
    <3>3. im(q) \in Paths  BY <3>2
    <3>4. im(q) \in Under(x) /\ x # im(q)  BY <3>2
    <3>5. PICK y \in Under(p) : q \in Under(y) /\ q # y /\ (im(y) \in Paths => x = im(y))
      BY <2>3, <3>3, <3>4, ImageAbove
    <3>6. y \in Paths  BY UnderSelf
    <3>7. store[y] = Dir  BY <3>2, <3>5, <3>6 DEF Tree
    <3>8. store[y] # None  BY <3>7 DEF None, Dir
    <3>9. im(y) \in Under(t) /\ m[im(y)] = store[y]  BY <1>1, <3>8
    <3>10. im(y) \in Paths  BY <3>9, UnderSelf
    <3> QED  BY <3>5, <3>7, <3>9, <3>10
  <2> QED  BY <2>2, <2>3
<1>8. Tree(m)  BY <1>6, <1>7 DEF Tree
<1> QED  BY <1>2, <1>3, <1>8 DEF m

\* Where a call that is possible may change the storage, and what it leaves there
LEMMA CallDoes ==
  ASSUME store \in Stores, Tree(store), NEW s \in Steps, s.k \in Calls, NEW new \in 0 .. MaxOps + 1,
         Can(s)
  PROVE  /\ After(s, new) \in Stores /\ Tree(After(s, new))
         /\ \A r \in Paths : After(s, new)[r] # store[r] =>
              \/ s.k \in {"make", "upload"} /\ r = s.p
              \/ s.k \in Takes /\ r \in Under(s.p)
              \/ s.k \in Gives /\ r \in Under(Target(s)) /\ (r # Target(s) => store[Front(r)] # Dir)
         /\ s.k = "make" => After(s, new)[s.p] = IF store[s.p] = None THEN Dir ELSE store[s.p]
         /\ s.k = "upload" => After(s, new)[s.p] = new
         /\ s.k \in Takes => \A r \in Under(s.p) : After(s, new)[r] = None
         /\ s.k \in Gives => Target(s) \in Paths \ Under(s.p) /\ After(s, new)[Target(s)] = store[s.p]
         /\ \A r \in Paths : store[r] = Dir /\ After(s, new)[r] # Dir => s.k \in Takes /\ r \in Under(s.p)
<1> DEFINE p == s.p
           t == Target(s)
           f == After(s, new)
           off == [r \in Paths |-> IF r \in Under(p) THEN None ELSE store[r]]
<1>1. p \in Paths \ {Root} /\ Front(p) \in Paths  BY StepIs DEF Calls
<1>2. new \in Values /\ Dir \in Values /\ None \in Values /\ new # Dir /\ None # Dir
  BY DirCacheAssumption DEF Values, Dir, None
<1>3. CASE s.k \in {"make", "upload"}
  <2> DEFINE v == IF s.k = "upload" THEN new ELSE IF store[p] = None THEN Dir ELSE store[p]
  <2>1. v \in Values /\ (store[p] = Dir => v = Dir) /\ store[Front(p)] = Dir
    BY <1>1, <1>2, <1>3 DEF Stores, Can
  <2>2. f = [store EXCEPT ![p] = v]  BY <1>3 DEF After
  <2> HIDE DEF v, f
  <2>3. Tree(f)  BY <1>1, <2>1, <2>2, PutDoes
  <2>4. f \in Stores /\ f[p] = v /\ \A r \in Paths : r # p => f[r] = store[r]
    BY <1>1, <2>1, <2>2 DEF Stores
  <2>5. s.k \notin Takes \cup Gives  BY <1>3 DEF Takes, Gives
  <2> QED  BY <1>3, <2>1, <2>3, <2>4, <2>5 DEF f, v
<1>4. CASE s.k = "remove"
  <2>1. f = off  BY <1>4 DEF After
  <2>2. Tree(off)  BY <1>1, TakeDoes
  <2>3. off \in Stores /\ (\A r \in Under(p) : off[r] = None)
        /\ \A r \in Paths : r \notin Under(p) => off[r] = store[r]
    BY <1>2, UnderSelf, <1>1 DEF Stores
  <2>4. s.k \in Takes /\ s.k \notin Gives  BY <1>4 DEF Takes, Gives
  <2> HIDE DEF off, f
  <2> QED  BY <1>4, <2>1, <2>2, <2>3, <2>4 DEF f
<1>5. CASE s.k \in Gives
  <2>1. /\ store[p] # None /\ t \in Paths \ Under(p) /\ store[Front(t)] = Dir
        /\ \A r \in Under(p) : store[r] # None => Image(r, p, t) \in Paths
        /\ store[t] = None \/ (store[t] # Dir /\ store[p] # Dir)
    BY <1>5 DEF Can, Gives
  <2>2. t \in Paths /\ t # Root /\ Front(t) \in Paths  BY <1>5, <2>1, TargetIs, PathSeq
  <2>3. store[t] # Dir  BY <1>2, <2>1
  <2>4. p \notin Under(t) /\ \A r \in Under(t) : r \notin Under(p)  BY <1>1, <2>1, <2>3, Apart
  <2>5. off \in Stores /\ (\A r \in Under(p) : off[r] = None)
        /\ \A r \in Paths : r \notin Under(p) => off[r] = store[r]
    BY <1>2, UnderSelf, <1>1 DEF Stores
  <2>6. Tree(off)  BY <1>1, TakeDoes
  <2>7. Front(t) \notin Under(p)  BY <1>1, <2>1, <2>2, FrontUnder
  <2> DEFINE base == IF s.k = "copy" THEN store ELSE off
  <2>8. f = Moved(base, p, t)
    <3>1. CASE s.k = "copy"  BY <3>1 DEF After, Moved
    <3>2. CASE s.k = "move"  BY <3>2 DEF After, Moved
    <3>3. CASE s.k = "rename"  BY <3>3 DEF After, Moved
    <3> QED  BY <1>5, <3>1, <3>2, <3>3 DEF Gives
  <2>9. /\ base \in Stores /\ Tree(base) /\ base[Front(t)] = Dir /\ \A r \in Under(t) : base[r] = store[r]
        /\ \A r \in Paths : base[r] # store[r] => s.k \in Takes /\ r \in Under(p)
        /\ s.k \in Takes => \A r \in Under(p) : base[r] = None
    <3> HIDE DEF off
    <3>1. CASE s.k = "copy"
      <4>1. s.k \notin Takes  BY <3>1 DEF Takes
      <4> QED  BY <2>1, <3>1, <4>1
    <3>2. CASE s.k # "copy"
      <4>1. s.k \in Takes  BY <1>5, <3>2 DEF Takes, Gives
      <4>2. \A r \in Under(t) : r \in Paths  BY <2>2, UnderSelf
      <4> QED  BY <2>1, <2>2, <2>4, <2>5, <2>6, <2>7, <3>2, <4>1, <4>2
    <3> QED  BY <3>1, <3>2
  <2> HIDE DEF base, off, f
  <2>10. Tree(f) /\ f \in Stores /\ f[t] = store[p]
    BY <1>1, <2>1, <2>2, <2>8, <2>9, MoveDoes
  <2>11. \A r \in Paths \ Under(t) : f[r] = base[r]  BY <1>1, <2>1, <2>2, <2>8, MovedIs
  <2>12. \A r \in Under(t) \ {t} : store[r] = None /\ store[Front(r)] # Dir
    <3> TAKE r \in Under(t) \ {t}
    <3>1. r \in Paths  BY UnderSelf, <2>2
    <3>2. store[r] = None  BY <2>2, <2>3 DEF Tree
    <3>3. r # Root  BY <2>2, <3>1, UnderSelf, UnderOrder, DirCacheAssumption
    <3>4. Front(r) \in Under(t) /\ Front(r) \in Paths  BY <2>2, <3>1, <3>3, FrontUnder
    <3>5. store[Front(r)] # Dir
      <4>1. CASE Front(r) = t  BY <2>3, <4>1
      <4>2. CASE Front(r) # t  BY <1>2, <2>2, <2>3, <3>4, <4>2 DEF Tree
      <4> QED  BY <4>1, <4>2
    <3> QED  BY <3>2, <3>5
  <2>13. \A r \in Paths : f[r] # store[r] =>
           \/ s.k \in Takes /\ r \in Under(p)
           \/ s.k \in Gives /\ r \in Under(t) /\ (r # t => store[Front(r)] # Dir)
    BY <1>5, <2>9, <2>11, <2>12
  <2>14. s.k \in Takes => \A r \in Under(p) : f[r] = None
    BY <2>4, <2>9, <2>11, <1>1, UnderSelf
  <2>15. \A r \in Paths : store[r] = Dir /\ f[r] # Dir => s.k \in Takes /\ r \in Under(p)
    <3> TAKE r \in Paths
    <3>1. CASE r \in Under(t)  BY <1>2, <2>3, <2>12, <3>1
    <3>2. CASE r \notin Under(t)  BY <2>9, <2>11, <3>2
    <3> QED  BY <3>1, <3>2
  <2>16. s.k # "make" /\ s.k # "upload"  BY <1>5 DEF Gives
  <2> QED  BY <1>5, <2>1, <2>10, <2>13, <2>14, <2>15, <2>16 DEF f
<1> QED  BY <1>3, <1>4, <1>5 DEF Calls, Gives

-----------------------------------------------------------------------------
(* Requests                                                                *)

LEMMA TailIs ==
  ASSUME NEW t \in Seq(Steps), t # << >>
  PROVE  /\ Len(t) \in Nat /\ Len(t) > 0 /\ Head(t) \in Steps /\ Head(t) = t[1]
         /\ Tail(t) \in Seq(Steps) /\ Len(Tail(t)) = Len(t) - 1
         /\ \A i \in 1 .. Len(t) - 1 : Tail(t)[i] = t[i + 1]
         /\ Shape(t) => Shape(Tail(t))
<1>1. Len(t) \in Nat /\ Len(t) > 0 /\ Head(t) \in Steps /\ Head(t) = t[1]
  BY LenProperties, EmptySeq, HeadTailProperties
<1>2. Tail(t) \in Seq(Steps) /\ Len(Tail(t)) = Len(t) - 1 /\ \A i \in 1 .. Len(t) - 1 : Tail(t)[i] = t[i + 1]
  BY HeadTailProperties
<1>3. ASSUME Shape(t), NEW i \in 1 .. Len(Tail(t)), Tail(t)[i].k = "upload"
      PROVE  i = Len(Tail(t)) \/
               (i = Len(Tail(t)) - 1 /\ \E p \in DOMAIN Backup :
                 Tail(t)[i] = Step("upload", p, Root) /\ Tail(t)[i + 1] = Step("remove", Backup[p], Root))
  <2>1. i + 1 \in 1 .. Len(t) /\ t[i + 1].k = "upload" /\ Tail(t)[i] = t[i + 1]  BY <1>1, <1>2, <1>3
  <2>4. \A m \in Nat, j \in Int : (j + 1 = m => j = m - 1) /\ (j + 1 = m - 1 => j = m - 1 - 1)  OBVIOUS
  <2>2. CASE i + 1 = Len(t)
    <3>1. i = Len(t) - 1  BY <1>1, <2>2, <2>4
    <3> QED  BY <1>2, <3>1
  <2>3. CASE i + 1 # Len(t)
    <3>1. i + 1 = Len(t) - 1 /\ \E p \in DOMAIN Backup :
            t[i + 1] = Step("upload", p, Root) /\ t[i + 1 + 1] = Step("remove", Backup[p], Root)
      BY <1>3, <2>1, <2>3 DEF Shape
    <3>2. i + 1 \in 1 .. Len(t) - 1  BY <1>1, <3>1
    <3>3. Tail(t)[i + 1] = t[i + 1 + 1]  BY <1>2, <3>2
    <3>4. i = Len(t) - 1 - 1  BY <1>1, <2>4, <3>1
    <3>5. i = Len(Tail(t)) - 1  BY <1>2, <3>4
    <3> QED  BY <2>1, <3>1, <3>3, <3>5
  <2> QED  BY <2>2, <2>3
<1> QED  BY <1>1, <1>2, <1>3 DEF Shape

LEMMA NeedsAre ==
  ASSUME NEW s \in Steps
  PROVE  /\ Needs(s) \in Seq(Paths)
         /\ s.k = "list" <=> Needs(s) = << >>
         /\ s.k \in {"make", "upload"} => Needs(s) = <<Front(s.p)>> /\ Front(s.p) \in Paths
         /\ s.k \in {"move", "copy"} => Needs(s) = <<s.p, s.q>>
         /\ s.k \in {"look", "mkdir", "remove", "rename"} => Needs(s) = <<s.p>>
<1>1. s.p \in Paths /\ s.q \in Paths /\ s.k \in Kinds  BY StepIs
<1>2. s.k \in {"make", "upload"} => Front(s.p) \in Paths  BY StepIs
<1> QED  BY <1>1, <1>2 DEF Needs, Kinds, Asked

LEMMA IdleOk ==
  ASSUME NEW S \in Stores
  PROVE  Idle \in ReqRec /\ RequestOk(Idle, S) /\ Idle.pc = "idle" /\ Idle.todo = << >>
<1>1. Idle.todo = << >> /\ Idle.pc = "idle" /\ Idle.old = Empty  BY DEF Idle, Empty
<1>2. Idle \in ReqRec  BY DirCacheAssumption DEF Idle, ReqRec, Values, None
<1>3. Shape(<< >>)  BY DEF Shape
<1> QED  BY <1>1, <1>2, <1>3 DEF RequestOk, Keeps

LEMMA OntoIs ==
  ASSUME NEW r \in ReqRec, NEW todo \in Seq(Steps)
  PROVE  /\ Onto(r, todo) \in ReqRec
         /\ todo = << >> => Onto(r, todo) = Idle
         /\ todo # << >> => LET q == Onto(r, todo) IN
              /\ q.todo = todo /\ q.pc = "get" /\ q.need = Needs(Head(todo)) /\ q.v = None
              /\ q.torn = r.torn /\ q.new = r.new /\ q.old = r.old
<1>1. CASE todo = << >>  BY <1>1, DirCacheAssumption DEF Onto, Idle, ReqRec, Values, None
<1>2. CASE todo # << >>
  <2> DEFINE q == [r EXCEPT !.todo = todo, !.pc = "get", !.need = Needs(Head(todo)), !.v = None]
  <2>1. Onto(r, todo) = q  BY <1>2 DEF Onto
  <2>2. Needs(Head(todo)) \in Seq(Paths)  BY <1>2, TailIs, NeedsAre
  <2>3. None \in Values  BY DirCacheAssumption DEF None, Values
  <2>4. q \in ReqRec  BY <2>2, <2>3 DEF ReqRec
  <2>5. /\ q.todo = todo /\ q.pc = "get" /\ q.need = Needs(Head(todo)) /\ q.v = None
        /\ q.torn = r.torn /\ q.new = r.new /\ q.old = r.old
    BY DEF ReqRec
  <2> HIDE DEF q
  <2> QED  BY <1>2, <2>1, <2>4, <2>5
<1> QED  BY <1>1, <1>2

\* A request may go on with any steps that fit the file it has stepped aside.
LEMMA OntoOk ==
  ASSUME NEW r \in ReqRec, NEW S \in Stores, NEW todo \in Seq(Steps), Shape(todo),
         todo # << >> => Keeps(Onto(r, todo), S)
  PROVE  /\ Onto(r, todo) \in ReqRec /\ RequestOk(Onto(r, todo), S)
         /\ Onto(r, todo).pc \in {"idle", "get", "call"}
<1>1. CASE todo = << >>  BY <1>1, OntoIs, IdleOk
<1>2. CASE todo # << >>
  <2> DEFINE q == Onto(r, todo)
  <2>1. q \in ReqRec /\ q.todo = todo /\ q.pc = "get" /\ q.need = Needs(Head(todo))
    BY <1>2, OntoIs
  <2>2. Keeps(q, S)  BY <1>2
  <2> HIDE DEF q
  <2>3. Going(q) /\ View(q, S) /\ PatchView(q, S)  BY <2>1 DEF Going, View, PatchView
  <2>4. RequestOk(q, S)  BY <1>2, <2>1, <2>2, <2>3 DEF RequestOk
  <2> QED  BY <2>1, <2>4 DEF q
<1> QED  BY <1>1, <1>2

LEMMA BackupIs ==
  ASSUME NEW p \in DOMAIN Backup
  PROVE  /\ p \in Paths /\ p # Root /\ Backup[p] \in Paths /\ Backup[p] # Root /\ Backup[p] # p
         /\ Front(Backup[p]) = Front(p) /\ Front(p) \in Paths
         /\ Step("rename", p, Backup[p]) \in Steps /\ Step("rename", Backup[p], p) \in Steps
         /\ Step("upload", p, Root) \in Steps /\ Step("remove", Backup[p], Root) \in Steps
         /\ Step("remove", p, Root) \in Steps /\ Step("mkdir", Front(p), Root) \in Steps
<1>1. /\ p \in Paths /\ p # Root /\ Backup[p] \in Paths /\ Backup[p] # Root /\ Backup[p] # p
      /\ Front(Backup[p]) = Front(p) /\ Root \in Paths
  BY DirCacheAssumption DEF BackupName
<1>2. Front(p) \in Paths  BY <1>1, PathSeq
<1>3. /\ Proper(Step("rename", p, Backup[p])) /\ Proper(Step("rename", Backup[p], p))
      /\ Proper(Step("upload", p, Root)) /\ Proper(Step("remove", Backup[p], Root))
      /\ Proper(Step("remove", p, Root)) /\ Proper(Step("mkdir", Front(p), Root))
  BY <1>1, <1>2 DEF Proper, Step
<1>4. \A k \in Kinds, x \in Paths, y \in Paths :
        Proper(Step(k, x, y)) => Step(k, x, y) \in Steps
  BY DEF Step, Steps
<1>5. {"rename", "upload", "remove", "mkdir"} \subseteq Kinds  BY DEF Kinds, Asked
<1> QED  BY <1>1, <1>2, <1>3, <1>4, <1>5

\* A step that is over leaves the next stage.
LEMMA StageNext ==
  ASSUME NEW r \in ReqRec, NEW q \in ReqRec, NEW S \in Stores, NEW p \in DOMAIN Backup,
         Stage(r, p, S), r.todo # << >>, Tail(r.todo) # << >>,
         q.todo = Tail(r.todo), q.pc = "get", q.new = r.new, q.old = r.old,
         r.pc = "patch" \/ Head(r.todo).k \in {"mkdir", "remove", "list"}
  PROVE  Stage(q, p, S)
<1> DEFINE b == Backup[p]
           t == r.todo
           n == Len(r.todo)
<1>1. t \in Seq(Steps)  BY DEF ReqRec
<1>2. /\ n \in Nat /\ n > 0 /\ Head(t) = t[1] /\ Len(q.todo) = n - 1
      /\ \A i \in 1 .. n - 1 : q.todo[i] = t[i + 1]
  BY <1>1, TailIs
<1>3. n > 1  BY <1>1, <1>2, TailIs, EmptySeq
<1>4. CASE /\ t = <<Step("rename", p, b), Step("mkdir", Front(p), Root), Step("upload", p, Root),
                    Step("remove", b, Root)>>
           /\ r.old = IF r.pc = "patch" THEN S[b] ELSE S[p]
  <2>1. n = 4 /\ t[2].k = "mkdir" /\ t[3] = Step("upload", p, Root) /\ t[4] = Step("remove", b, Root)
        /\ Head(t).k = "rename"
    BY <1>4 DEF Step
  <2>2. q.old = S[b] /\ q.pc # "patch"  BY <1>4, <2>1
  <2>3. /\ Len(q.todo) = 3 /\ q.todo[1].k = "mkdir" /\ q.todo[2] = Step("upload", p, Root)
        /\ q.todo[3] = Step("remove", b, Root)
    BY <1>2, <2>1
  <2>4. /\ Len(q.todo) > 1 /\ q.todo[Len(q.todo)] = Step("remove", b, Root)
        /\ q.todo[Len(q.todo) - 1] = Step("upload", p, Root)
        /\ \A i \in 1 .. Len(q.todo) - 2 : q.todo[i].k \in {"mkdir", "make"}
    <3>1. \A m : m = 3 => m > 1 /\ m - 1 = 2 /\ \A i \in 1 .. m - 2 : i = 1  OBVIOUS
    <3>2. Len(q.todo) > 1 /\ Len(q.todo) - 1 = 2 /\ \A i \in 1 .. Len(q.todo) - 2 : i = 1
      BY <2>3, <3>1
    <3> QED  BY <2>3, <3>2
  <2> QED  BY <2>2, <2>4 DEF Stage
<1>5. CASE /\ n > 1 /\ t[n] = Step("remove", b, Root) /\ t[n - 1] = Step("upload", p, Root)
           /\ \A i \in 1 .. n - 2 : t[i].k \in {"mkdir", "make"}
           /\ IF n = 2 /\ r.pc = "patch" THEN S[p] = r.new ELSE r.old = S[b]
  <2>1. CASE n = 2
    <3>1. Head(t).k = "upload"  BY <1>2, <1>5, <2>1 DEF Step
    <3>2. S[p] = q.new  BY <1>5, <2>1, <3>1
    <3>3. Len(q.todo) = 1 /\ q.todo[1] = Step("remove", b, Root)  BY <1>2, <1>5, <2>1
    <3>4. q.todo \in Seq(Steps) /\ <<Step("remove", b, Root)>> \in Seq(Steps)
      BY BackupIs DEF ReqRec
    <3>5. q.todo = <<Step("remove", b, Root)>>
      <4> DEFINE o == <<Step("remove", b, Root)>>
      <4>1. Len(o) = 1 /\ o[1] = Step("remove", b, Root)  OBVIOUS
      <4>2. o \in Seq(Steps)  BY <3>4
      <4> HIDE DEF o
      <4>3. Len(q.todo) = Len(o) /\ \A i \in 1 .. Len(q.todo) : q.todo[i] = o[i]  BY <3>3, <4>1
      <4>4. q.todo = o  BY <3>4, <4>2, <4>3, SeqEqual
      <4> QED  BY <4>4 DEF o
    <3> QED  BY <3>2, <3>5 DEF Stage
  <2>2. CASE n # 2
    <3>1. q.old = S[b] /\ q.pc # "patch"  BY <1>5, <2>2
    <3>2. n - 1 > 1 /\ n - 1 \in 1 .. n - 1 /\ n - 2 \in 1 .. n - 1 /\ n - 1 + 1 = n /\ n - 2 + 1 = n - 1
          /\ n - 1 - 1 = n - 2
      <4>1. n \in Nat /\ n > 1 /\ n # 2  BY <1>2, <1>3, <2>2
      <4> HIDE DEF n
      <4> QED  BY <4>1
    <3>3. q.todo[n - 1] = Step("remove", b, Root)  BY <1>2, <1>5, <3>2
    <3>4. q.todo[n - 2] = Step("upload", p, Root)  BY <1>2, <1>5, <3>2
    <3>5. ASSUME NEW i \in 1 .. n - 1 - 2 PROVE q.todo[i].k \in {"mkdir", "make"}
      <4>1. i \in 1 .. n - 1 /\ i + 1 \in 1 .. n - 2  BY <1>2
      <4> QED  BY <1>2, <1>5, <4>1
    <3>6. Len(q.todo) > 1  BY <1>2, <3>2
    <3>7. q.todo[Len(q.todo)] = Step("remove", b, Root) /\ q.todo[Len(q.todo) - 1] = Step("upload", p, Root)
      BY <1>2, <3>2, <3>3, <3>4
    <3>8. \A i \in 1 .. Len(q.todo) - 2 : q.todo[i].k \in {"mkdir", "make"}  BY <1>2, <3>5
    <3> QED  BY <3>1, <3>6, <3>7, <3>8 DEF Stage
  <2> QED  BY <2>1, <2>2
<1>6. CASE t = <<Step("remove", b, Root)>>  BY <1>3, <1>6
<1>7. CASE t = <<Step("rename", b, p)>>  BY <1>3, <1>7
<1> QED  BY <1>4, <1>5, <1>6, <1>7 DEF Stage

LEMMA DoneOk ==
  ASSUME NEW r \in ReqRec, NEW S \in Stores, RequestOk(r, S), r.todo # << >>,
         r.pc = "patch" \/ Head(r.todo).k \in {"mkdir", "remove", "list"}
  PROVE  Done(r) \in ReqRec /\ RequestOk(Done(r), S) /\ Done(r).pc \in {"idle", "get", "call"}
<1> DEFINE u == [r EXCEPT !.torn = @ /\ Head(r.todo).k = "mkdir"]
<1>1. u \in ReqRec /\ u.new = r.new /\ u.old = r.old
  <2>1. (r.torn /\ Head(r.todo).k = "mkdir") \in BOOLEAN  OBVIOUS
  <2> QED  BY <2>1 DEF ReqRec
<1>2. r.todo \in Seq(Steps)  BY DEF ReqRec
<1>3. Tail(r.todo) \in Seq(Steps) /\ Shape(Tail(r.todo))  BY <1>2, TailIs DEF RequestOk
<1>4. Done(r) = Onto(u, Tail(r.todo))  BY DEF Done
<1> HIDE DEF u
<1>5. ASSUME Tail(r.todo) # << >> PROVE Keeps(Onto(u, Tail(r.todo)), S)
  <2> DEFINE q == Onto(u, Tail(r.todo))
  <2>1. q \in ReqRec /\ q.todo = Tail(r.todo) /\ q.pc = "get" /\ q.new = r.new /\ q.old = r.old
    BY <1>1, <1>3, <1>5, OntoIs
  <2> HIDE DEF q
  <2>2. Keeps(r, S)  BY DEF RequestOk
  <2>3. ASSUME q.old # Empty PROVE q.old \notin {None, Dir} /\ \E p \in DOMAIN Backup : Stage(q, p, S)
    <3>1. PICK p \in DOMAIN Backup : Stage(r, p, S)  BY <2>1, <2>2, <2>3 DEF Keeps
    <3>2. Stage(q, p, S)  BY <1>5, <2>1, <3>1, StageNext
    <3> QED  BY <2>1, <2>2, <2>3, <3>2 DEF Keeps
  <2> QED  BY <2>3 DEF Keeps, q
<1> QED  BY <1>1, <1>3, <1>4, <1>5, OntoOk

LEMMA FailOk ==
  ASSUME NEW r \in ReqRec, NEW S \in Stores, RequestOk(r, S), r.todo # << >>, r.pc = "call"
  PROVE  Fail(r) \in ReqRec /\ RequestOk(Fail(r), S) /\ Fail(r).pc \in {"idle", "get", "call"}
<1> DEFINE t == r.todo
           u == [r EXCEPT !.torn = FALSE]
<1>1. t \in Seq(Steps)  BY DEF ReqRec
<1>2. Head(t) = t[1] /\ Len(t) \in Nat /\ Len(t) > 0  BY <1>1, TailIs
<1>3. CASE Head(t).k = "upload" /\ Len(t) = 2
  <2>1. PICK p \in DOMAIN Backup : t[1] = Step("upload", p, Root) /\ t[2] = Step("remove", Backup[p], Root)
    <3>1. 1 \in 1 .. Len(t) /\ 1 # Len(t) /\ t[1].k = "upload" /\ 1 + 1 = 2  BY <1>2, <1>3
    <3> QED  BY <3>1 DEF RequestOk, Shape
  <2> DEFINE todo == <<Step("rename", Backup[p], p)>>
  <2>2. todo \in Seq(Steps) /\ todo # << >> /\ Len(todo) = 1 /\ todo[1].k = "rename"
    <3>1. \A a \in Steps : <<a>> \in Seq(Steps) /\ <<a>> # << >> /\ Len(<<a>>) = 1 /\ <<a>>[1] = a
      OBVIOUS
    <3>2. Step("rename", Backup[p], p) \in Steps  BY BackupIs
    <3>3. Step("rename", Backup[p], p).k = "rename"  BY DEF Step
    <3> QED  BY <3>1, <3>2, <3>3
  <2>3. Shape(todo)  BY <2>2 DEF Shape
  <2>4. Fail(r) = Onto(u, todo)  BY <1>2, <1>3, <2>1 DEF Fail, Step
  <2>5. u \in ReqRec /\ u.old = r.old  BY DEF ReqRec
  <2> HIDE DEF u
  <2>6. Keeps(Onto(u, todo), S)
    <3> DEFINE q == Onto(u, todo)
    <3>1. q.todo = todo /\ q.pc = "get" /\ q.old = r.old  BY <2>2, <2>5, OntoIs
    <3> HIDE DEF q
    <3>2. ASSUME q.old # Empty PROVE q.old \notin {None, Dir} /\ \E x \in DOMAIN Backup : Stage(q, x, S)
      <4>1. r.old \notin {None, Dir} /\ \E x \in DOMAIN Backup : Stage(r, x, S)
        BY <3>1, <3>2 DEF RequestOk, Keeps
      <4>2. PICK x \in DOMAIN Backup : Stage(r, x, S)  BY <4>1
      <4>3. t[2] = Step("remove", Backup[x], Root) /\ t[1] = Step("upload", x, Root) /\ r.old = S[Backup[x]]
        <5>1. \A a, c, d, e : Len(<<a, c, d, e>>) = 4  OBVIOUS
        <5>2. \A a : Len(<<a>>) = 1  OBVIOUS
        <5>3. /\ t[Len(t)] = Step("remove", Backup[x], Root) /\ t[Len(t) - 1] = Step("upload", x, Root)
              /\ r.old = S[Backup[x]]
          <6>1. /\ t # <<Step("rename", x, Backup[x]), Step("mkdir", Front(x), Root),
                         Step("upload", x, Root), Step("remove", Backup[x], Root)>>
                /\ t # <<Step("remove", Backup[x], Root)>> /\ t # <<Step("rename", Backup[x], x)>>
            <7> HIDE DEF t
            <7> QED  BY <1>3, <5>1, <5>2
          <6>2. ~(Len(t) = 2 /\ r.pc = "patch")  OBVIOUS
          <6> QED  BY <4>2, <6>1, <6>2 DEF Stage
        <5>4. Len(t) = 2 /\ Len(t) - 1 = 1  BY <1>3
        <5> QED  BY <5>3, <5>4
      <4>4. x = p  BY <2>1, <4>3 DEF Step
      <4>5. Stage(q, x, S)  BY <3>1, <4>3, <4>4 DEF Stage
      <4> QED  BY <3>1, <4>1, <4>5
    <3> QED  BY <3>2 DEF Keeps, q
  <2> HIDE DEF todo
  <2> QED  BY <2>2, <2>3, <2>4, <2>5, <2>6, OntoOk
<1>4. CASE ~(Head(t).k = "upload" /\ Len(t) = 2)
  <2>1. Fail(r) = Idle  BY <1>4 DEF Fail
  <2> QED  BY <2>1, IdleOk
<1> QED  BY <1>3, <1>4

\* What a Put goes on with
LEMMA PlanIs ==
  ASSUME NEW p \in DOMAIN Backup, NEW v
  PROVE  /\ PutPlan(p, v) \in Seq(Steps) /\ PutPlan(p, v) # << >> /\ Shape(PutPlan(p, v))
         /\ Len(PutPlan(p, v)) = 4 =>
              /\ v \notin {Dir, Empty, None}
              /\ PutPlan(p, v) =
                   <<Step("rename", p, Backup[p]), Step("mkdir", Front(p), Root),
                     Step("upload", p, Root), Step("remove", Backup[p], Root)>>
<1> DEFINE re == Step("rename", p, Backup[p])
           mk == Step("mkdir", Front(p), Root)
           up == Step("upload", p, Root)
           rb == Step("remove", Backup[p], Root)
           rm == Step("remove", p, Root)
<1>1. re \in Steps /\ mk \in Steps /\ up \in Steps /\ rb \in Steps /\ rm \in Steps  BY BackupIs
<1>2. /\ re.k = "rename" /\ mk.k = "mkdir" /\ up.k = "upload" /\ rb.k = "remove" /\ rm.k = "remove"
      /\ up = Step("upload", p, Root) /\ rb = Step("remove", Backup[p], Root)
  BY DEF Step
<1>3. PutPlan(p, v) = IF v \in {Dir, Empty} THEN <<rm>> \o <<mk, up>>
                      ELSE IF v # None /\ NoOverwrite THEN <<re>> \o <<mk, up>> \o <<rb>>
                      ELSE <<mk, up>>
  BY DEF PutPlan
<1> HIDE DEF re, mk, up, rb, rm
<1>4. <<rm>> \o <<mk, up>> = <<rm, mk, up>> /\ <<re>> \o <<mk, up>> \o <<rb>> = <<re, mk, up, rb>>
  <2>1. ASSUME NEW a \in Steps PROVE <<a>> \o <<mk, up>> = <<a, mk, up>>
    <3> DEFINE x == <<a>>
               t == <<mk, up>>
               w == <<a, mk, up>>
    <3>1. t \in Seq(Steps) /\ Len(t) = 2 /\ t[1] = mk /\ t[2] = up  BY <1>1
    <3>2. w \in Seq(Steps) /\ Len(w) = 3 /\ w[1] = a /\ w[2] = mk /\ w[3] = up  BY <1>1
    <3>3. x \in Seq(Steps) /\ Len(x) = 1 /\ x[1] = a  OBVIOUS
    <3> HIDE DEF x, t, w
    <3>4. /\ x \o t \in Seq(Steps) /\ Len(x \o t) = Len(x) + Len(t)
          /\ \A i \in 1 .. Len(x) + Len(t) : (x \o t)[i] = IF i <= Len(x) THEN x[i] ELSE t[i - Len(x)]
      BY <3>1, <3>3, ConcatProperties
    <3>5. \A i \in 1 .. 3 : (x \o t)[i] = w[i]
      <4>1. (x \o t)[1] = w[1] /\ (x \o t)[2] = w[2] /\ (x \o t)[3] = w[3]
        BY <3>1, <3>2, <3>3, <3>4
      <4>2. \A i \in 1 .. 3 : i = 1 \/ i = 2 \/ i = 3  OBVIOUS
      <4> QED  BY <4>1, <4>2
    <3>6. Len(x \o t) = Len(w) /\ Len(w) = 3  BY <3>1, <3>2, <3>3, <3>4
    <3>7. x \o t = w  BY <3>2, <3>4, <3>5, <3>6, SeqEqual
    <3> QED  BY <3>7 DEF x, t, w
  <2>2. <<re, mk, up>> \o <<rb>> = <<re, mk, up, rb>>
    <3> DEFINE t == <<re, mk, up>>
               l == <<rb>>
               w == <<re, mk, up, rb>>
    <3>1. t \in Seq(Steps) /\ Len(t) = 3 /\ t[1] = re /\ t[2] = mk /\ t[3] = up  BY <1>1
    <3>2. w \in Seq(Steps) /\ Len(w) = 4 /\ w[1] = re /\ w[2] = mk /\ w[3] = up /\ w[4] = rb  BY <1>1
    <3>3. l \in Seq(Steps) /\ Len(l) = 1 /\ l[1] = rb  BY <1>1
    <3> HIDE DEF t, w, l
    <3>4. /\ t \o l \in Seq(Steps) /\ Len(t \o l) = Len(t) + Len(l)
          /\ \A i \in 1 .. Len(t) + Len(l) : (t \o l)[i] = IF i <= Len(t) THEN t[i] ELSE l[i - Len(t)]
      BY <3>1, <3>3, ConcatProperties
    <3>5. Len(t \o l) = Len(w) /\ Len(w) = 4  BY <3>1, <3>2, <3>3, <3>4
    <3>6. \A i \in 1 .. 4 : (t \o l)[i] = w[i]
      <4>1. (t \o l)[1] = w[1] /\ (t \o l)[2] = w[2] /\ (t \o l)[3] = w[3] /\ (t \o l)[4] = w[4]
        BY <3>1, <3>2, <3>3, <3>4
      <4>2. \A i \in 1 .. 4 : i = 1 \/ i = 2 \/ i = 3 \/ i = 4  OBVIOUS
      <4> QED  BY <4>1, <4>2
    <3>7. t \o l = w  BY <3>2, <3>4, <3>5, <3>6, SeqEqual
    <3> QED  BY <3>7 DEF t, l, w
  <2> QED  BY <1>1, <2>1, <2>2
<1>5. /\ <<rm, mk, up>> \in Seq(Steps) /\ <<re, mk, up, rb>> \in Seq(Steps) /\ <<mk, up>> \in Seq(Steps)
      /\ Len(<<rm, mk, up>>) = 3 /\ Len(<<re, mk, up, rb>>) = 4 /\ Len(<<mk, up>>) = 2
  BY <1>1
<1>6. Shape(<<mk, up>>)  BY <1>2 DEF Shape
<1>7. Shape(<<rm, mk, up>>)  BY <1>2 DEF Shape
<1>8. Shape(<<re, mk, up, rb>>)
  <2> DEFINE t == <<re, mk, up, rb>>
  <2>1. t[1] = re /\ t[2] = mk /\ t[3] = up /\ t[4] = rb /\ Len(t) = 4  OBVIOUS
  <2> HIDE DEF t
  <2>2. ASSUME NEW i \in 1 .. Len(t), t[i].k = "upload"
        PROVE i = Len(t) - 1 /\ t[i] = Step("upload", p, Root) /\ t[i + 1] = Step("remove", Backup[p], Root)
    <3>1. i \in {1, 2, 3, 4}  BY <2>1
    <3>2. i = 3  BY <1>2, <2>1, <2>2, <3>1
    <3> QED  BY <1>2, <2>1, <3>2
  <2>3. Shape(t)  BY <2>2 DEF Shape
  <2> QED  BY <2>3 DEF t
<1> DEFINE P == PutPlan(p, v)
<1>9. CASE P = <<rm, mk, up>>
  <2>1. P # << >> /\ Len(P) # 4  BY <1>5, <1>9
  <2> QED  BY <1>5, <1>7, <1>9, <2>1
<1>10. CASE P = <<mk, up>>
  <2>1. P # << >> /\ Len(P) # 4  BY <1>5, <1>10
  <2> QED  BY <1>5, <1>6, <1>10, <2>1
<1>11. CASE P = <<re, mk, up, rb>> /\ v \notin {Dir, Empty, None}
  BY <1>5, <1>8, <1>11 DEF re, mk, up, rb
<1> QED  BY <1>3, <1>4, <1>9, <1>10, <1>11

LEMMA PutLooksOk ==
  ASSUME NEW r \in ReqRec, NEW S \in Stores, r.todo # << >>, Head(r.todo).k = "look",
         NEW v \in Values, NEW torn \in BOOLEAN, torn \/ v = None \/ v = S[Head(r.todo).p]
  PROVE  /\ PutLooks(r, v, torn) \in ReqRec /\ RequestOk(PutLooks(r, v, torn), S)
         /\ PutLooks(r, v, torn).pc \in {"idle", "get", "call"}
<1> DEFINE p == Head(r.todo).p
           plan == PutPlan(p, v)
           u == [r EXCEPT !.old = IF Len(plan) = 4 /\ ~torn THEN v ELSE Empty]
<1>1. p \in DOMAIN Backup
  <2>1. r.todo \in Seq(Steps)  BY DEF ReqRec
  <2>2. Head(r.todo) \in Steps  BY <2>1, TailIs
  <2> QED  BY <2>2, StepIs
<1>2. /\ plan \in Seq(Steps) /\ plan # << >> /\ Shape(plan)
      /\ Len(plan) = 4 =>
           /\ v \notin {Dir, Empty, None}
           /\ plan = <<Step("rename", p, Backup[p]), Step("mkdir", Front(p), Root),
                       Step("upload", p, Root), Step("remove", Backup[p], Root)>>
  BY <1>1, PlanIs
<1>3. PutLooks(r, v, torn) = Onto(u, plan)  BY DEF PutLooks
<1>4. torn \/ v = None \/ v = S[p]  OBVIOUS
<1> HIDE DEF plan, p
<1>5. u \in ReqRec /\ u.old = IF Len(plan) = 4 /\ ~torn THEN v ELSE Empty
  <2>1. Empty \in Values  BY DirCacheAssumption DEF Empty, Values
  <2> QED  BY <2>1 DEF ReqRec
<1> HIDE DEF u
<1>6. Keeps(Onto(u, plan), S)
  <2> DEFINE q == Onto(u, plan)
  <2>1. q.todo = plan /\ q.pc = "get" /\ q.old = u.old  BY <1>2, <1>5, OntoIs
  <2> HIDE DEF q
  <2>2. ASSUME q.old # Empty PROVE q.old \notin {None, Dir} /\ Stage(q, p, S)
    <3>1. Len(plan) = 4 /\ ~torn /\ q.old = v  BY <1>5, <2>1, <2>2
    <3>2. v = S[p] /\ v \notin {None, Dir}  BY <1>2, <1>4, <3>1
    <3>3. q.pc # "patch"  BY <2>1
    <3>4. Stage(q, p, S)  BY <1>2, <2>1, <3>1, <3>2, <3>3 DEF Stage
    <3> QED  BY <3>1, <3>2, <3>4
  <2> QED  BY <1>1, <2>2 DEF Keeps, q
<1> QED  BY <1>2, <1>3, <1>5, <1>6, OntoOk

\* Two steps before those that are left
LEMMA Joined ==
  ASSUME NEW x \in Seq(Steps), Len(x) = 2, NEW t \in Seq(Steps)
  PROVE  /\ x \o t \in Seq(Steps) /\ Len(x \o t) = Len(t) + 2 /\ x \o t # << >> /\ Len(t) \in Nat
         /\ (x \o t)[1] = x[1] /\ (x \o t)[2] = x[2]
         /\ \A i \in 1 .. Len(t) : (x \o t)[i + 2] = t[i]
         /\ Shape(t) /\ x[1].k # "upload" /\ x[2].k # "upload" => Shape(x \o t)
<1>1. Len(t) \in Nat  BY LenProperties
<1> DEFINE w == x \o t
<1>2. /\ w \in Seq(Steps) /\ Len(w) = Len(x) + Len(t)
      /\ \A i \in 1 .. Len(x) + Len(t) : w[i] = IF i <= Len(x) THEN x[i] ELSE t[i - Len(x)]
  BY ConcatProperties
<1> HIDE DEF w
<1>3. Len(w) = Len(t) + 2 /\ w # << >>
  <2>1. Len(w) = Len(t) + 2 /\ Len(w) # 0  BY <1>1, <1>2
  <2> QED  BY <2>1, EmptySeq
<1>4. w[1] = x[1] /\ w[2] = x[2]  BY <1>1, <1>2
<1>5. ASSUME NEW i \in 1 .. Len(t) PROVE w[i + 2] = t[i]
  <2>1. i + 2 \in 1 .. 2 + Len(t) /\ ~(i + 2 <= 2) /\ i + 2 - 2 = i  BY <1>1
  <2> QED  BY <1>2, <2>1
<1>6. ASSUME Shape(t), x[1].k # "upload", x[2].k # "upload", NEW i \in 1 .. Len(w), w[i].k = "upload"
      PROVE  i = Len(w) \/ (i = Len(w) - 1 /\ \E p \in DOMAIN Backup :
               w[i] = Step("upload", p, Root) /\ w[i + 1] = Step("remove", Backup[p], Root))
  <2>1. i # 1 /\ i # 2  BY <1>4, <1>6
  <2> DEFINE j == i - 2
             l == Len(t)
  <2>2. j \in 1 .. Len(t) /\ j + 2 = i  BY <1>1, <1>3, <2>1
  <2>3. \A a \in Int, b \in Nat : (a = b => a + 2 = b + 2) /\ (a = b - 1 => (a + 2 = b + 2 - 1 /\ a + 1 \in 1 .. b) \/ a < 1)
    OBVIOUS
  <2> HIDE DEF j
  <2>4. t[j] = w[i]  BY <1>5, <2>2
  <2>5. CASE j = Len(t)  BY <1>3, <2>2, <2>5
  <2>6. CASE j # Len(t)
    <3>1. j = Len(t) - 1 /\ \E p \in DOMAIN Backup :
            t[j] = Step("upload", p, Root) /\ t[j + 1] = Step("remove", Backup[p], Root)
      BY <1>6, <2>2, <2>4, <2>6 DEF Shape
    <3>2. i = Len(w) - 1
      <4>1. j \in Int /\ j = l - 1 /\ l \in Nat /\ Len(w) = l + 2  BY <1>1, <1>3, <3>1
      <4> HIDE DEF l
      <4> QED  BY <2>2, <4>1
    <3>3. j + 1 \in 1 .. Len(t) /\ j + 1 + 2 = i + 1
      <4>1. j \in Nat /\ j >= 1 /\ j = l - 1 /\ l \in Nat  BY <1>1, <2>2, <3>1
      <4>2. j + 1 \in 1 .. l /\ j + 1 + 2 = j + 2 + 1
        <5> HIDE DEF l
        <5> QED  BY <4>1
      <4> QED  BY <2>2, <4>2
    <3>4. w[i + 1] = t[j + 1]  BY <1>5, <3>3
    <3> QED  BY <2>4, <3>1, <3>2, <3>4
  <2> QED  BY <2>5, <2>6
<1>7. Shape(t) /\ x[1].k # "upload" /\ x[2].k # "upload" => Shape(w)  BY <1>6 DEF Shape
<1> QED  BY <1>1, <1>2, <1>3, <1>4, <1>5, <1>7 DEF w

LEMMA MakeDirLooksOk ==
  ASSUME NEW r \in ReqRec, NEW S \in Stores, RequestOk(r, S), r.todo # << >>,
         Head(r.todo).k = "mkdir", r.pc \in {"get", "wait"},
         NEW v \in Values, NEW torn \in BOOLEAN, Head(r.todo).p = Root => v = Dir
  PROVE  /\ MakeDirLooks(r, v, torn) \in ReqRec /\ RequestOk(MakeDirLooks(r, v, torn), S)
         /\ MakeDirLooks(r, v, torn).pc \in {"idle", "get", "call"}
<1> DEFINE t == r.todo
           n == Len(r.todo)
           p == Head(r.todo).p
           x == <<Step("mkdir", Front(p), Root), Step("make", p, Root)>>
           u == [r EXCEPT !.torn = @ \/ torn]
           g == MakeDirLooks(r, v, torn)
<1>1. t \in Seq(Steps)  BY DEF ReqRec
<1>2. /\ n \in Nat /\ n > 0 /\ Head(t) \in Steps /\ Head(t) = t[1]
      /\ Tail(t) \in Seq(Steps) /\ Len(Tail(t)) = n - 1 /\ \A i \in 1 .. n - 1 : Tail(t)[i] = t[i + 1]
      /\ Shape(Tail(t))
  BY <1>1, TailIs DEF RequestOk
<1>3. CASE v = Dir
  <2>1. g = Done(r)  BY <1>3 DEF MakeDirLooks
  <2> QED  BY <2>1, DoneOk
<1>4. CASE v # Dir /\ v # None
  <2>1. g = Idle  BY <1>4 DEF MakeDirLooks
  <2> QED  BY <2>1, IdleOk
<1>5. CASE v = None
  <2>1. p \in Paths /\ p # Root /\ Root \in Paths  BY <1>2, <1>5, StepIs, DirCacheAssumption DEF None, Dir
  <2>2. Front(p) \in Paths  BY <2>1, PathSeq
  <2>3. Step("mkdir", Front(p), Root) \in Steps /\ Step("make", p, Root) \in Steps
    BY <2>1, <2>2 DEF Step, Steps, Proper, Kinds, Asked
  <2>4. x \in Seq(Steps) /\ Len(x) = 2 /\ x[1].k = "mkdir" /\ x[2].k = "make"
    <3>1. \A a, b \in Steps : <<a, b>> \in Seq(Steps) /\ Len(<<a, b>>) = 2 /\ <<a, b>>[1] = a /\ <<a, b>>[2] = b
      OBVIOUS
    <3>2. Step("mkdir", Front(p), Root).k = "mkdir" /\ Step("make", p, Root).k = "make"  BY DEF Step
    <3> QED  BY <2>3, <3>1, <3>2
  <2>5. u \in ReqRec /\ u.old = r.old /\ u.new = r.new
    <3>1. (r.torn \/ torn) \in BOOLEAN  OBVIOUS
    <3> QED  BY <3>1 DEF ReqRec
  <2>6. g = Onto(u, x \o Tail(t))  BY <1>5 DEF MakeDirLooks, None, Dir
  <2> DEFINE w == x \o Tail(t)
             q == Onto(u, w)
  <2> HIDE DEF x, u, p, g
  <2>7. /\ w \in Seq(Steps) /\ Len(w) = n - 1 + 2 /\ w # << >> /\ w[1] = x[1] /\ w[2] = x[2]
        /\ \A i \in 1 .. n - 1 : w[i + 2] = Tail(t)[i]
        /\ Shape(w)
    BY <1>2, <2>4, Joined
  <2> HIDE DEF w
  <2>8. q.todo = w /\ q.pc = "get" /\ q.old = r.old /\ q.new = r.new  BY <2>5, <2>7, OntoIs
  <2> HIDE DEF q
  <2>9. ASSUME q.old # Empty PROVE q.old \notin {None, Dir} /\ \E y \in DOMAIN Backup : Stage(q, y, S)
    <3>1. r.old \notin {None, Dir} /\ \E y \in DOMAIN Backup : Stage(r, y, S)
      BY <2>8, <2>9 DEF RequestOk, Keeps
    <3>2. PICK y \in DOMAIN Backup : Stage(r, y, S)  BY <3>1
    <3>3. /\ n > 1 /\ t[n] = Step("remove", Backup[y], Root) /\ t[n - 1] = Step("upload", y, Root)
          /\ \A i \in 1 .. n - 2 : t[i].k \in {"mkdir", "make"}
          /\ r.old = S[Backup[y]]
      <4>1. \A a, b, c, d : Head(<<a, b, c, d>>) = a  OBVIOUS
      <4>2. \A a : Head(<<a>>) = a  OBVIOUS
      <4>3. Head(t).k = "mkdir" /\ r.pc # "patch"  OBVIOUS
      <4>4. /\ t # <<Step("rename", y, Backup[y]), Step("mkdir", Front(y), Root),
                       Step("upload", y, Root), Step("remove", Backup[y], Root)>>
            /\ t # <<Step("remove", Backup[y], Root)>> /\ t # <<Step("rename", Backup[y], y)>>
        <5> HIDE DEF t
        <5> QED  BY <4>1, <4>2, <4>3 DEF Step
      <4> QED  BY <3>2, <4>3, <4>4 DEF Stage
    <3>4. n > 2
      <4>1. n # 2
        <5>1. ASSUME n = 2 PROVE FALSE
          <6>1. n - 1 = 1  BY <5>1
          <6>2. t[1].k = "upload"  BY <3>3, <6>1 DEF Step
          <6> QED  BY <1>2, <6>2
        <5> QED  BY <5>1
      <4>2. n \in Nat /\ n > 1  BY <1>2, <3>3
      <4> HIDE DEF n
      <4> QED  BY <4>1, <4>2
    <3>5. ASSUME NEW i \in 1 .. n - 1 PROVE w[i + 2] = t[i + 1]  BY <1>2, <2>7
    <3> DEFINE m == n + 1
    <3>6. /\ n \in Nat /\ Len(w) = m /\ m > 1 /\ n - 1 \in 1 .. n - 1 /\ n - 2 \in 1 .. n - 1
          /\ n - 1 + 2 = m /\ n - 1 + 1 = n /\ n - 2 + 2 = m - 1 /\ n - 2 + 1 = n - 1 /\ m # 2
      <4>1. n \in Nat /\ n > 2 /\ Len(w) = n - 1 + 2  BY <1>2, <2>7, <3>4
      <4> HIDE DEF n
      <4> QED  BY <4>1
    <3>7. w[m] = t[n]  BY <3>5, <3>6
    <3>8. w[m - 1] = t[n - 1]  BY <3>5, <3>6
    <3>9. ASSUME NEW i \in 1 .. m - 2 PROVE w[i].k \in {"mkdir", "make"}
      <4>1. CASE i \in {1, 2}  BY <2>4, <2>7, <4>1
      <4>2. CASE i \notin {1, 2}
        <5>1. i - 2 \in 1 .. n - 1 /\ i - 2 + 2 = i /\ i - 2 + 1 = i - 1 /\ i - 1 \in 1 .. n - 2
          <6>1. n \in Nat  BY <3>6
          <6> HIDE DEF n
          <6> QED  BY <4>2, <6>1
        <5>2. w[i] = t[i - 1]  BY <3>5, <5>1
        <5> QED  BY <3>3, <5>1, <5>2
      <4> QED  BY <4>1, <4>2
    <3> HIDE DEF m
    <3>10. Stage(q, y, S)  BY <2>8, <3>3, <3>6, <3>7, <3>8, <3>9 DEF Stage
    <3> QED  BY <2>8, <3>1, <3>10
  <2>10. Keeps(q, S)  BY <2>9 DEF Keeps
  <2>11. q \in ReqRec /\ RequestOk(q, S) /\ q.pc \in {"idle", "get", "call"}
    BY <2>5, <2>7, <2>10, OntoOk DEF q
  <2> QED  BY <2>6, <2>11 DEF q, w, g
<1> QED  BY <1>3, <1>4, <1>5

\* What Get has told a request it makes use of as it is, or not at all.
LEMMA GotOk ==
  ASSUME NEW r \in ReqRec, NEW S \in Stores, RequestOk(r, S), r.todo # << >>,
         r.pc \in {"get", "wait"}, Head(r.todo).k # "list", NEW v \in Values, NEW torn \in BOOLEAN,
         torn \/ v = None \/ v = S[Head(r.need)], Head(r.need) = Root => v = Dir
  PROVE  /\ Got(r, v, torn) \in ReqRec /\ RequestOk(Got(r, v, torn), S)
         /\ Got(r, v, torn).pc \in {"idle", "get", "call"}
<1> DEFINE s == Head(r.todo)
           g == Got(r, v, torn)
<1>1. s \in Steps
  <2>1. r.todo \in Seq(Steps)  BY DEF ReqRec
  <2> QED  BY <2>1, TailIs
<1>2. s.k \in Kinds /\ s.p \in Paths /\ s.q \in Paths  BY <1>1, StepIs
<1>3. /\ s.k \in {"make", "upload"} => Needs(s) = <<Front(s.p)>> /\ Front(s.p) \in Paths
      /\ s.k \in {"move", "copy"} => Needs(s) = <<s.p, s.q>>
      /\ s.k \in {"look", "mkdir", "remove", "rename"} => Needs(s) = <<s.p>>
  BY <1>1, NeedsAre
<1>4. r.need = Needs(s) \/ (s.k \in {"move", "copy"} /\ r.need = <<s.q>>)
  BY DEF RequestOk, Going
<1>5. \A a, b : /\ Head(<<a>>) = a /\ Tail(<<a>>) = << >> /\ Len(<<a>>) = 1
                /\ Head(<<a, b>>) = a /\ Tail(<<a, b>>) = <<b>> /\ Len(<<a, b>>) = 2 /\ <<b>> # << >>
  OBVIOUS
<1> DEFINE last == Len(r.need) = Len(Needs(s))
<1>6. /\ last => r.need = Needs(s)
      /\ ~last => s.k \in {"move", "copy"} /\ r.need = <<s.q>> /\ r.need # Needs(s)
  BY <1>3, <1>4, <1>5
<1>7. s.k \notin {"make", "upload", "list"} /\ last => Head(r.need) = s.p
  BY <1>2, <1>3, <1>5, <1>6 DEF Kinds, Asked
<1>8. CASE s.k = "look"
  <2>1. g = PutLooks(r, v, torn)  BY <1>8 DEF Got
  <2>2. last  BY <1>6, <1>8
  <2>3. torn \/ v = None \/ v = S[s.p]  BY <1>7, <1>8, <2>2
  <2> QED  BY <1>8, <2>1, <2>3, PutLooksOk
<1>9. CASE s.k = "mkdir"
  <2>1. g = MakeDirLooks(r, v, torn)  BY <1>9 DEF Got
  <2>2. last  BY <1>6, <1>9
  <2>3. s.p = Root => v = Dir  BY <1>7, <1>9, <2>2
  <2> QED  BY <1>9, <2>1, <2>3, MakeDirLooksOk
<1>10. CASE s.k = "remove" /\ v = None
  <2>1. g = Done(r)  BY <1>10 DEF Got
  <2> QED  BY <1>10, <2>1, DoneOk
<1>11. CASE (s.k \in {"upload", "rename", "move", "copy"} /\ v = None) \/ (s.k = "make" /\ v # Dir)
  <2>1. g = Idle  BY <1>11 DEF Got
  <2> QED  BY <2>1, IdleOk
<1>12. CASE s.k \in Calls /\ v # None /\ (s.k = "make" => v = Dir)
  <2> DEFINE q == [r EXCEPT !.need = Tail(@), !.torn = @ \/ torn, !.v = IF last THEN v ELSE @]
             e == Tail(r.need)
             pc == IF e = << >> THEN "call" ELSE "get"
  <2>1. g = [q EXCEPT !.pc = IF q.need = << >> THEN "call" ELSE "get"]  BY <1>12 DEF Got, Calls, None, Dir
  <2>2. e \in Seq(Paths) /\ (e = << >> \/ (s.k \in {"move", "copy"} /\ e = <<s.q>> /\ last))
    <3>3. e = Tail(r.need)  OBVIOUS
    <3> HIDE DEF e
    <3>1. CASE last /\ s.k \in {"move", "copy"}
      <4>1. r.need = <<s.p, s.q>>  BY <1>3, <1>6, <3>1
      <4>2. Tail(<<s.p, s.q>>) = <<s.q>>  BY <1>5
      <4>3. e = <<s.q>>  BY <3>3, <4>1, <4>2
      <4>4. <<s.q>> \in Seq(Paths)  BY <1>2
      <4> QED  BY <3>1, <4>3, <4>4
    <3>2. CASE ~last \/ s.k \notin {"move", "copy"}
      <4>1. PICK x \in Paths : r.need = <<x>>
        <5>1. CASE ~last  BY <1>2, <1>6, <5>1
        <5>2. CASE last /\ s.k \in {"make", "upload"}  BY <1>3, <1>6, <5>2
        <5>3. CASE last /\ s.k \in {"remove", "rename"}  BY <1>2, <1>3, <1>6, <5>3
        <5> QED  BY <1>12, <3>2, <5>1, <5>2, <5>3 DEF Calls
      <4>2. Tail(<<x>>) = << >>  BY <1>5
      <4>3. e = << >>  BY <3>3, <4>1, <4>2
      <4> QED  BY <4>3
    <3> QED  BY <3>1, <3>2
  <2>3. (r.torn \/ torn) \in BOOLEAN  OBVIOUS
  <2> HIDE DEF e, last
  <2>4. q \in ReqRec /\ q.need = e /\ q.torn = (r.torn \/ torn) /\ q.v = (IF last THEN v ELSE r.v)
        /\ q.todo = r.todo /\ q.new = r.new /\ q.old = r.old
    BY <2>2, <2>3 DEF ReqRec, e
  <2> HIDE DEF q
  <2>5. g = [q EXCEPT !.pc = pc]  BY <2>1, <2>4
  <2> HIDE DEF g
  <2>6. g \in ReqRec /\ g.need = e /\ g.torn = (r.torn \/ torn) /\ g.v = (IF last THEN v ELSE r.v)
        /\ g.todo = r.todo /\ g.new = r.new /\ g.old = r.old /\ g.pc = pc
    BY <2>4, <2>5 DEF ReqRec
  <2>7. Going(g)  BY <1>12, <2>2, <2>6 DEF Going
  <2>8. View(g, S)
    <3> SUFFICES ASSUME s.k \in Takes \cup Gives PROVE g.v # None /\ (g.torn \/ g.v = S[s.p])
      BY <2>6 DEF View
    <3>1. CASE last
      <4>1. Head(r.need) = s.p  BY <1>7, <3>1 DEF Takes, Gives
      <4> QED  BY <1>12, <2>6, <3>1, <4>1
    <3>2. CASE ~last
      <4>1. r.need # Needs(s)  BY <1>6, <3>2 DEF last
      <4>2. r.v # None /\ (r.torn \/ r.v = S[s.p])  BY <4>1 DEF RequestOk, View
      <4> QED  BY <2>6, <3>2, <4>2
    <3> QED  BY <3>1, <3>2
  <2>9. PatchView(g, S)  BY <2>6 DEF PatchView
  <2>10. Keeps(g, S)
    <3> SUFFICES ASSUME g.old # Empty PROVE g.old \notin {None, Dir} /\ \E x \in DOMAIN Backup : Stage(g, x, S)
      BY DEF Keeps
    <3>1. r.old \notin {None, Dir} /\ \E x \in DOMAIN Backup : Stage(r, x, S)  BY <2>6 DEF RequestOk, Keeps
    <3>2. PICK x \in DOMAIN Backup : Stage(r, x, S)  BY <3>1
    <3>3. r.pc # "patch" /\ g.pc # "patch"  BY <2>6
    <3>4. Stage(g, x, S)  BY <2>6, <3>2, <3>3 DEF Stage
    <3> QED  BY <2>6, <3>1, <3>4
  <2>11. RequestOk(g, S)  BY <2>6, <2>7, <2>8, <2>9, <2>10 DEF RequestOk
  <2> QED  BY <2>6, <2>11 DEF g
<1>13. s.k = "look" \/ s.k = "mkdir" \/ s.k \in Calls  BY <1>2 DEF Kinds, Asked, Calls
<1>14. ASSUME s.k \in Calls, ~(v # None /\ (s.k = "make" => v = Dir))
       PROVE  (s.k = "remove" /\ v = None)
              \/ (s.k \in {"upload", "rename", "move", "copy"} /\ v = None) \/ (s.k = "make" /\ v # Dir)
  BY <1>14 DEF Calls, None, Dir
<1> QED  BY <1>8, <1>9, <1>10, <1>11, <1>12, <1>13, <1>14

LEMMA TouchedIs ==
  ASSUME NEW s \in Steps, s.k \in Calls
  PROVE  /\ s.p \in Touched(s) /\ (s.k \in Gives => Target(s) \in Touched(s))
         /\ Changed(s) \subseteq Touched(s)
         /\ s.k \notin Gives => Touched(s) = {s.p}
<1>1. CASE s.k \in {"make", "upload", "remove"}
  <2>1. Touched(s) = {s.p} /\ s.k \notin Gives  BY <1>1 DEF Touched, Gives
  <2> QED  BY <2>1 DEF Changed
<1>2. CASE s.k \in Gives
  <2>1. Touched(s) = {s.p, Target(s)}  BY <1>2 DEF Touched, Gives
  <2> QED  BY <1>2, <2>1 DEF Changed
<1> QED  BY <1>1, <1>2 DEF Calls, Gives

\* The file that is put, and its backup, are among those it works on.
LEMMA StageUploads ==
  ASSUME NEW r \in ReqRec, NEW S, NEW p \in DOMAIN Backup, Stage(r, p, S)
  PROVE  p \in Uploads(r)
<1> DEFINE b == Backup[p]
           t == r.todo
           n == Len(t)
<1>1. r.todo \in Seq(Steps) /\ n \in Nat /\ DOMAIN t = 1 .. n  BY LenProperties DEF ReqRec
<1>2. SUFFICES \E i \in DOMAIN t :
        t[i] \in {Step("upload", p, Root), Step("remove", Backup[p], Root), Step("rename", Backup[p], p)}
  BY DEF Uploads
<1>3. CASE t = <<Step("rename", p, b), Step("mkdir", Front(p), Root), Step("upload", p, Root),
                 Step("remove", b, Root)>>
  <2>1. \A w, x, y, z : <<w, x, y, z>>[3] = y /\ Len(<<w, x, y, z>>) = 4  OBVIOUS
  <2>2. t[3] = Step("upload", p, Root) /\ n = 4  BY <1>3, <2>1
  <2>3. 3 \in DOMAIN t  BY <1>1, <2>2
  <2> QED  BY <2>2, <2>3
<1>4. CASE n > 1 /\ t[n] = Step("remove", b, Root)
  <2>1. n \in DOMAIN t
    <3> HIDE DEF n
    <3> QED  BY <1>1, <1>4
  <2> QED  BY <1>4, <2>1
<1>5. CASE t = <<Step("remove", b, Root)>> \/ t = <<Step("rename", b, p)>>
  <2>1. \A w : <<w>>[1] = w /\ Len(<<w>>) = 1  OBVIOUS
  <2>2. (t[1] = Step("remove", b, Root) \/ t[1] = Step("rename", b, p)) /\ n = 1  BY <1>5, <2>1
  <2>3. 1 \in DOMAIN t  BY <1>1, <2>2
  <2> QED  BY <2>2, <2>3
<1> QED  BY <1>3, <1>4, <1>5 DEF Stage

LEMMA Beside ==
  ASSUME NEW p \in DOMAIN Backup
  PROVE  p \notin Under(Backup[p]) /\ Backup[p] \notin Under(p)
<1>1. p \in Paths /\ Backup[p] \in Paths /\ p # Root /\ Backup[p] # Root /\ Backup[p] # p
      /\ Front(Backup[p]) = Front(p)
  BY BackupIs
<1>2. Len(p) \in Nat /\ Len(Front(p)) = Len(p) - 1  BY <1>1, PathSeq
<1>3. Len(Backup[p]) \in Nat /\ Len(Front(Backup[p])) = Len(Backup[p]) - 1  BY <1>1, PathSeq
<1>4. Len(p) = Len(Backup[p])
  <2> DEFINE m == Len(p)
             l == Len(Backup[p])
  <2>1. m \in Nat /\ l \in Nat /\ m - 1 = l - 1  BY <1>1, <1>2, <1>3
  <2> HIDE DEF m, l
  <2>2. m = l  BY <2>1
  <2> QED  BY <2>2 DEF m, l
<1> QED  BY <1>1, <1>4, UnderOrder

\* A request's own call
LEMMA OwnCallOk ==
  ASSUME store \in Stores, Tree(store), NEW r \in ReqRec, RequestOk(r, store), r.todo # << >>,
         r.pc = "call", Can(Head(r.todo)),
         NEW g, g = [r EXCEPT !.pc = "patch",
                              !.torn = @ \/ (Head(r.todo).k = "make" /\ store[Head(r.todo).p] # None)]
  PROVE  g \in ReqRec /\ RequestOk(g, After(Head(r.todo), r.new))
<1> DEFINE s == Head(r.todo)
           n == Len(r.todo)
           f == After(s, r.new)
<1>1. s \in Steps /\ s = r.todo[1] /\ n \in Nat /\ n > 0
  <2>1. r.todo \in Seq(Steps)  BY DEF ReqRec
  <2> QED  BY <2>1, TailIs
<1>2. s.k \in Calls /\ r.new \in 0 .. MaxOps + 1 /\ s.p \in Paths
  <2>1. Going(r)  BY DEF RequestOk
  <2> QED  BY <1>1, <2>1, StepIs DEF Going, ReqRec
<1>3. /\ f \in Stores
      /\ \A x \in Paths : f[x] # store[x] =>
           \/ s.k \in {"make", "upload"} /\ x = s.p
           \/ s.k \in Takes /\ x \in Under(s.p)
           \/ s.k \in Gives /\ x \in Under(Target(s)) /\ (x # Target(s) => store[Front(x)] # Dir)
      /\ s.k = "make" => f[s.p] = IF store[s.p] = None THEN Dir ELSE store[s.p]
      /\ s.k = "upload" => f[s.p] = r.new
      /\ s.k \in Takes => \A x \in Under(s.p) : f[x] = None
      /\ s.k \in Gives => Target(s) \in Paths \ Under(s.p) /\ f[Target(s)] = store[s.p]
  BY <1>1, <1>2, CallDoes
<1> HIDE DEF f
<1>4. g \in ReqRec /\ g.pc = "patch" /\ g.todo = r.todo /\ g.new = r.new /\ g.old = r.old /\ g.v = r.v
      /\ g.torn = (r.torn \/ (s.k = "make" /\ store[s.p] # None)) /\ g.need = r.need
  <2>1. (r.torn \/ (s.k = "make" /\ store[s.p] # None)) \in BOOLEAN  OBVIOUS
  <2> QED  BY <2>1 DEF ReqRec
<1>5. Going(g)  BY <1>2, <1>4 DEF Going
<1>6. View(g, f)  BY <1>4 DEF View
<1>7. PatchView(g, f)
  <2>1. s.k \in Takes \cup Gives => r.v # None /\ (r.torn \/ r.v = store[s.p])
    <3>1. View(r, store)  BY DEF RequestOk
    <3> QED  BY <3>1 DEF View
  <2>2. ASSUME ~g.torn, s.k = "make" PROVE f[s.p] = Dir  BY <1>3, <1>4, <2>2
  <2>3. s.k \in Takes => f[s.p] = None  BY <1>2, <1>3, UnderSelf
  <2> QED  BY <1>3, <1>4, <2>1, <2>2, <2>3 DEF PatchView
<1>8. Keeps(g, f)
  <2> SUFFICES ASSUME g.old # Empty PROVE g.old \notin {None, Dir} /\ \E p \in DOMAIN Backup : Stage(g, p, f)
    BY DEF Keeps
  <2>1. r.old \notin {None, Dir} /\ \E p \in DOMAIN Backup : Stage(r, p, store)
    BY <1>4 DEF RequestOk, Keeps
  <2>2. PICK p \in DOMAIN Backup : Stage(r, p, store)  BY <2>1
  <2> DEFINE b == Backup[p]
  <2>3. p \in Paths /\ b \in Paths /\ p # b  BY BackupIs
  <2>4. \A u, x, y, z : Head(<<u, x, y, z>>) = u /\ Head(<<u>>) = u  OBVIOUS
  <2>5. CASE /\ r.todo = <<Step("rename", p, b), Step("mkdir", Front(p), Root), Step("upload", p, Root),
                           Step("remove", b, Root)>>
             /\ r.old = IF r.pc = "patch" THEN store[b] ELSE store[p]
    <3>1. s = Step("rename", p, b)  BY <2>4, <2>5
    <3>2. s.k = "rename" /\ s.p = p /\ s.q = b  BY <3>1 DEF Step
    <3>3. Target(s) = b /\ s.k \in Gives  BY <3>2 DEF Target, Gives
    <3>4. g.old = f[b]  BY <1>3, <1>4, <2>5, <3>2, <3>3
    <3>5. Stage(g, p, f)  BY <1>4, <2>5, <3>4 DEF Stage
    <3> QED  BY <1>4, <2>1, <3>5
  <2>6. CASE /\ n > 1 /\ r.todo[n] = Step("remove", b, Root) /\ r.todo[n - 1] = Step("upload", p, Root)
             /\ \A i \in 1 .. n - 2 : r.todo[i].k \in {"mkdir", "make"}
             /\ IF n = 2 /\ r.pc = "patch" THEN store[p] = r.new ELSE r.old = store[b]
    <3>1. CASE n = 2
      <4>1. s.k = "upload" /\ s.p = p
        <5>1. r.todo[1] = Step("upload", p, Root)  BY <2>6, <3>1
        <5> QED  BY <1>1, <5>1 DEF Step
      <4>2. f[p] = g.new  BY <1>3, <1>4, <4>1
      <4>3. Stage(g, p, f)  BY <1>4, <2>6, <3>1, <4>2 DEF Stage
      <4> QED  BY <1>4, <2>1, <4>3
    <3>2. CASE n # 2
      <4>1. 1 \in 1 .. n - 2
        <5>1. n \in Nat /\ n > 1 /\ n # 2  BY <1>1, <2>6, <3>2
        <5> HIDE DEF n
        <5> QED  BY <5>1
      <4>2. s.k = "make"  BY <1>1, <1>2, <2>6, <4>1 DEF Calls
      <4>3. store[b] = r.old /\ r.old # None  BY <2>1, <2>6
      <4>4. f[b] = store[b]
        <5>1. s.k \notin Takes /\ s.k \notin Gives  BY <4>2 DEF Takes, Gives
        <5>2. CASE b = s.p  BY <1>3, <4>2, <4>3, <5>2
        <5>3. CASE b # s.p  BY <1>3, <2>3, <5>1, <5>3
        <5> QED  BY <5>2, <5>3
      <4>5. Stage(g, p, f)  BY <1>4, <2>6, <3>2, <4>3, <4>4 DEF Stage
      <4> QED  BY <1>4, <2>1, <4>5
    <3> QED  BY <3>1, <3>2
  <2>7. CASE r.todo = <<Step("remove", b, Root)>> /\ store[p] = r.new
    <3>1. s = Step("remove", b, Root)  BY <2>4, <2>7
    <3>2. s.k = "remove" /\ s.p = b  BY <3>1 DEF Step
    <3>3. s.k \notin Gives  BY <3>2 DEF Gives
    <3>4. p \notin Under(b)  BY Beside
    <3>5. f[p] = store[p]  BY <1>3, <2>3, <3>2, <3>3, <3>4
    <3>6. Stage(g, p, f)  BY <1>4, <2>7, <3>5 DEF Stage
    <3> QED  BY <1>4, <2>1, <3>6
  <2>8. CASE /\ r.todo = <<Step("rename", b, p)>>
             /\ r.old = IF r.pc = "patch" THEN store[p] ELSE store[b]
    <3>1. s = Step("rename", b, p)  BY <2>4, <2>8
    <3>2. s.k = "rename" /\ s.p = b /\ s.q = p  BY <3>1 DEF Step
    <3>3. Target(s) = p /\ s.k \in Gives  BY <3>2 DEF Target, Gives
    <3>4. g.old = f[p]  BY <1>3, <1>4, <2>8, <3>2, <3>3
    <3>5. Stage(g, p, f)  BY <1>4, <2>8, <3>4 DEF Stage
    <3> QED  BY <1>4, <2>1, <3>5
  <2> QED  BY <2>2, <2>5, <2>6, <2>7, <2>8 DEF Stage
<1>9. RequestOk(g, f)  BY <1>4, <1>5, <1>6, <1>7, <1>8 DEF RequestOk
<1> QED  BY <1>4, <1>9 DEF f

\* Another's call: what it changes it touches, and whom it crosses it marks.
LEMMA OtherCallOk ==
  ASSUME NEW S \in Stores, NEW f \in Stores, NEW r \in ReqRec, RequestOk(r, S), r.todo # << >>,
         NEW P, \A x \in Paths : f[x] # S[x] => \E y \in P : x \in Under(y),
         NEW g, g = [r EXCEPT
           !.torn = @ \/ Overlap(P, Touched(Head(r.todo))),
           !.old = IF Overlap(P, UNION {{p, Backup[p]} : p \in Uploads(r)}) THEN Empty ELSE @]
  PROVE  g \in ReqRec /\ RequestOk(g, f)
<1> DEFINE s == Head(r.todo)
           U == UNION {{p, Backup[p]} : p \in Uploads(r)}
<1>1. s \in Steps
  <2>1. r.todo \in Seq(Steps)  BY DEF ReqRec
  <2> QED  BY <2>1, TailIs
<1>2. \A x \in Paths : \A Q : x \in Q /\ f[x] # S[x] => Overlap(P, Q)  BY DEF Overlap
<1>3. g \in ReqRec /\ g.pc = r.pc /\ g.todo = r.todo /\ g.new = r.new /\ g.v = r.v /\ g.need = r.need
      /\ g.torn = (r.torn \/ Overlap(P, Touched(s)))
      /\ g.old = IF Overlap(P, U) THEN Empty ELSE r.old
  <2>1. (r.torn \/ Overlap(P, Touched(s))) \in BOOLEAN  BY DEF Overlap
  <2>2. Empty \in Values  BY DirCacheAssumption DEF Empty, Values
  <2> HIDE DEF U
  <2>3. g = [r EXCEPT !.torn = r.torn \/ Overlap(P, Touched(s)), !.old = IF Overlap(P, U) THEN Empty ELSE r.old]
    BY DEF U
  <2> QED  BY <2>1, <2>2, <2>3 DEF ReqRec
<1>4. Going(g)  BY <1>3 DEF Going, RequestOk
<1>5. \A x \in Paths : ~g.torn /\ x \in Touched(s) => f[x] = S[x]  BY <1>2, <1>3
<1>6. View(g, f)
  <2> SUFFICES ASSUME s.k \in Takes \cup Gives, g.pc = "call" \/ (g.pc \in {"get", "wait"} /\ g.need # Needs(s))
               PROVE  g.v # None /\ (g.torn \/ g.v = f[s.p])
    BY <1>3 DEF View
  <2>1. s.k \in Calls /\ s.p \in Paths  BY <1>1, StepIs DEF Takes, Gives, Calls
  <2>2. s.p \in Touched(s)  BY <1>1, <2>1, TouchedIs
  <2>3. r.v # None /\ (r.torn \/ r.v = S[s.p])  BY <1>3 DEF RequestOk, View
  <2> QED  BY <1>3, <1>5, <2>1, <2>2, <2>3
<1>7. PatchView(g, f)
  <2> SUFFICES ASSUME g.pc = "patch"
               PROVE  LET t == Target(s) IN
                      /\ s.k \in Gives => t \in Paths \ Under(s.p)
                      /\ s.k \in Takes \cup Gives => g.v # None
                      /\ ~g.torn => /\ s.k = "make" => f[s.p] = Dir
                                    /\ s.k = "upload" => f[s.p] = g.new
                                    /\ s.k \in Takes => f[s.p] = None
                                    /\ s.k \in Gives => f[t] = g.v
    BY <1>3 DEF PatchView
  <2>1. s.k \in Calls /\ s.p \in Paths  BY <1>1, <1>3, StepIs DEF RequestOk, Going
  <2>2. s.p \in Touched(s) /\ (s.k \in Gives => Target(s) \in Touched(s))  BY <1>1, <2>1, TouchedIs
  <2>3. /\ s.k \in Gives => Target(s) \in Paths \ Under(s.p)
        /\ s.k \in Takes \cup Gives => r.v # None
        /\ ~r.torn => /\ s.k = "make" => S[s.p] = Dir
                      /\ s.k = "upload" => S[s.p] = r.new
                      /\ s.k \in Takes => S[s.p] = None
                      /\ s.k \in Gives => S[Target(s)] = r.v
    BY <1>3 DEF RequestOk, PatchView
  <2>4. ~g.torn => f[s.p] = S[s.p] /\ (s.k \in Gives => f[Target(s)] = S[Target(s)])
    BY <1>5, <2>1, <2>2, <2>3
  <2> QED  BY <1>3, <2>3, <2>4
<1>8. Keeps(g, f)
  <2> SUFFICES ASSUME g.old # Empty PROVE g.old \notin {None, Dir} /\ \E p \in DOMAIN Backup : Stage(g, p, f)
    BY DEF Keeps
  <2>1. ~Overlap(P, U) /\ g.old = r.old  BY <1>3
  <2>2. r.old \notin {None, Dir} /\ \E p \in DOMAIN Backup : Stage(r, p, S)
    BY <2>1 DEF RequestOk, Keeps
  <2>3. PICK p \in DOMAIN Backup : Stage(r, p, S)  BY <2>2
  <2>4. p \in Uploads(r)  BY <2>3, StageUploads
  <2>5. p \in U /\ Backup[p] \in U /\ p \in Paths /\ Backup[p] \in Paths  BY <2>4, BackupIs
  <2> HIDE DEF U
  <2>6. f[p] = S[p] /\ f[Backup[p]] = S[Backup[p]]  BY <1>2, <2>1, <2>5
  <2>7. Stage(g, p, f)  BY <1>3, <2>1, <2>3, <2>6 DEF Stage
  <2> QED  BY <2>1, <2>2, <2>7
<1>9. RequestOk(g, f)
  <2>1. Shape(g.todo) /\ g.todo # << >> /\ g.pc # "idle"  BY <1>3 DEF RequestOk
  <2> QED  BY <1>4, <1>6, <1>7, <1>8, <2>1 DEF RequestOk
<1> QED  BY <1>3, <1>9

-----------------------------------------------------------------------------
(* Listings                                                                *)

LEMMA KnownIs ==
  ASSUME NEW l, NEW p, NEW v \in Values, \A e, f \in Named(l, p) : e = f,
         {e.v : e \in Named(l, p)} = Held(v)
  PROVE  Known(l, p) = v
<1>1. CASE v = None
  <2>1. Named(l, p) = {}  BY <1>1 DEF Held
  <2> QED  BY <1>1, <2>1 DEF Known
<1>2. CASE v # None
  <2>1. PICK e \in Named(l, p) : e.v = v  BY <1>2 DEF Held
  <2>2. (CHOOSE f \in Named(l, p) : TRUE) = e  BY <2>1
  <2> QED  BY <2>1, <2>2 DEF Known
<1> QED  BY <1>1, <1>2

LEMMA NothingKnown == \A p : Known({}, p) = None
BY DEF Known, Named

LEMMA EntryIs ==
  ASSUME NEW r \in Paths \ {Root}, NEW v \in Values \ {None}, NEW temp \in BOOLEAN
  PROVE  /\ Entry(r, v, temp) \in EntryOf(Front(r)) /\ Entry(r, v, temp) \in Entries
         /\ Entry(r, v, temp).name = Last(r) /\ Entry(r, v, temp).v = v
<1>1. Last(r) \in Names /\ r \in Within(Front(r))  BY NameOf DEF Within
<1> QED  BY <1>1 DEF Entry, Entries, EntryOf

LEMMA NotAListing == NoList \notin SUBSET Entries
<1>1. Entry(<<"not cached">>, None, FALSE) \in NoList  BY DEF NoList
<1>2. Entry(<<"not cached">>, None, FALSE).v = None  BY DEF Entry
<1>3. \A e \in Entries : e.v # None  BY DEF Entries
<1> QED  BY <1>1, <1>2, <1>3

\* What a listing of the storage shows of a name is what there is.
LEMMA ListingIs ==
  ASSUME NEW S \in Stores, NEW d \in Paths
  PROVE  /\ Listing(S, d) \subseteq EntryOf(d) /\ Listing(S, d) \in SUBSET Entries
         /\ \A r \in Within(d) : /\ \A e, f \in Named(Listing(S, d), r) : e = f
                                 /\ {e.v : e \in Named(Listing(S, d), r)} = Held(S[r])
<1>1. \A r \in Within(d) : r \in Paths \ {Root} /\ Front(r) = d  BY DEF Within
<1>2. ASSUME NEW e \in Listing(S, d)
      PROVE  \E r \in Within(d) : e = Entry(r, S[r], FALSE) /\ S[r] # None
                                  /\ e \in EntryOf(d) /\ e \in Entries /\ e.name = Last(r) /\ e.v = S[r]
  <2>1. PICK r \in Within(d) : e = Entry(r, S[r], FALSE) /\ S[r] # None  BY <1>2 DEF Listing
  <2>2. S[r] \in Values  BY <1>1 DEF Stores
  <2> QED  BY <1>1, <2>1, <2>2, EntryIs
<1>3. ASSUME NEW r \in Within(d)
      PROVE  /\ \A e \in Named(Listing(S, d), r) : e = Entry(r, S[r], FALSE) /\ e.v = S[r] /\ S[r] # None
             /\ S[r] # None => Entry(r, S[r], FALSE) \in Named(Listing(S, d), r)
                               /\ Entry(r, S[r], FALSE).v = S[r]
  <2>1. ASSUME NEW e \in Named(Listing(S, d), r)
        PROVE  e = Entry(r, S[r], FALSE) /\ e.v = S[r] /\ S[r] # None
    <3>1. e \in Listing(S, d) /\ e.name = Last(r)  BY DEF Named
    <3>2. PICK q \in Within(d) : e = Entry(q, S[q], FALSE) /\ S[q] # None /\ e.name = Last(q) /\ e.v = S[q]
      BY <1>2, <3>1
    <3>3. q = r  BY <1>1, <3>1, <3>2, SameName
    <3> QED  BY <3>2, <3>3
  <2>2. ASSUME S[r] # None
        PROVE  Entry(r, S[r], FALSE) \in Named(Listing(S, d), r) /\ Entry(r, S[r], FALSE).v = S[r]
    <3>1. Entry(r, S[r], FALSE) \in Listing(S, d)  BY <2>2 DEF Listing
    <3>2. Entry(r, S[r], FALSE).name = Last(r) /\ Entry(r, S[r], FALSE).v = S[r]  BY DEF Entry
    <3> QED  BY <3>1, <3>2 DEF Named
  <2> QED  BY <2>1, <2>2
<1>4. \A r \in Within(d) : /\ \A e, f \in Named(Listing(S, d), r) : e = f
                           /\ {e.v : e \in Named(Listing(S, d), r)} = Held(S[r])
  <2> TAKE r \in Within(d)
  <2>1. \A e, f \in Named(Listing(S, d), r) : e = f  BY <1>3
  <2>2. CASE S[r] = None
    <3>1. Named(Listing(S, d), r) = {}  BY <1>3, <2>2
    <3> QED  BY <2>1, <2>2, <3>1 DEF Held
  <2>3. CASE S[r] # None
    <3>1. {e.v : e \in Named(Listing(S, d), r)} = {S[r]}  BY <1>3, <2>3
    <3> QED  BY <2>1, <2>3, <3>1 DEF Held
  <2> QED  BY <2>2, <2>3
<1> QED  BY <1>2, <1>4

\* What keeps the listings true when the storage stays as it is: those in X
\* are made anew, others stay or go.
LEMMA ListsKept ==
  ASSUME Types, ListTruth, ListOnce, ListOfDir, store' = store, NEW X \in SUBSET Paths,
         \A c \in Clients : client[c].pc = "patch" => client'[c] = client[c],
         \A d \in Paths \ X : cache'[d] = cache[d] \/ cache'[d] = NoList,
         \A r \in hole \ {Root} : Front(r) \in X \/ cache'[Front(r)] = NoList \/ r \in hole',
         \A d \in X : \/ Within(d) \subseteq hole'
                      \/ cache'[d] = NoList
                      \/ cache'[d] = Listing(store, d) /\ store[d] = Dir
  PROVE  ListTruth' /\ ListOnce' /\ ListOfDir'
<1>1. \A c \in Clients, r \in Paths : /\ Excused(c, r) => Excused(c, r)'
                                      /\ TakenBy(c, r) => TakenBy(c, r)'
  BY DEF Excused, TakenBy, At, Now, Takes, Changed, Under, Target
<1>2. ASSUME NEW r \in Paths, Listed(r)'
      PROVE  /\ r # Root /\ Front(r) \in Paths /\ r \in Within(Front(r)) /\ r \notin hole'
             /\ Front(r) \notin X => Listed(r) /\ cache'[Front(r)] = cache[Front(r)]
             /\ Front(r) \in X => cache'[Front(r)] = Listing(store, Front(r))
  <2>1. r \notin hole' /\ r # Root /\ cache'[Front(r)] # NoList  BY <1>2 DEF Listed, Cached
  <2>2. Front(r) \in Paths /\ r \in Within(Front(r))  BY <2>1, PathSeq DEF Within
  <2>3. CASE Front(r) \notin X
    <3>1. cache'[Front(r)] = cache[Front(r)]  BY <2>1, <2>2, <2>3
    <3>2. r \notin hole  BY <2>1, <2>3
    <3> QED  BY <2>1, <2>2, <2>3, <3>1, <3>2 DEF Listed, Cached
  <2>4. CASE Front(r) \in X  BY <2>1, <2>2, <2>4
  <2> QED  BY <2>1, <2>2, <2>3, <2>4
<1>3. store \in Stores  BY DEF Types
<1>4. ListTruth'
  <2>1. ASSUME NEW r \in Paths, Listed(r)', \A c \in Clients : ~Excused(c, r)'
        PROVE  {e.v : e \in Named(cache[Front(r)], r)'} = Held(store[r])'
    <3>1. CASE Front(r) \notin X
      <4>1. Listed(r) /\ cache'[Front(r)] = cache[Front(r)]  BY <1>2, <2>1, <3>1
      <4>2. \A c \in Clients : ~Excused(c, r)  BY <1>1, <2>1
      <4>3. {e.v : e \in Named(cache[Front(r)], r)} = Held(store[r])  BY <4>1, <4>2 DEF ListTruth
      <4> QED  BY <4>1, <4>3 DEF Named, Held
    <3>2. CASE Front(r) \in X
      <4>1. cache'[Front(r)] = Listing(store, Front(r)) /\ r \in Within(Front(r)) /\ Front(r) \in Paths
        BY <1>2, <2>1, <3>2
      <4>2. {e.v : e \in Named(Listing(store, Front(r)), r)} = Held(store[r])
        BY <1>3, <4>1, ListingIs
      <4> QED  BY <4>1, <4>2 DEF Named, Held
    <3> QED  BY <3>1, <3>2
  <2> QED  BY <2>1 DEF ListTruth
<1>5. ListOnce'
  <2>1. ASSUME NEW r \in Paths, Listed(r)' PROVE \A e, f \in Named(cache[Front(r)], r)' : e = f
    <3>1. CASE Front(r) \notin X
      <4>1. Listed(r) /\ cache'[Front(r)] = cache[Front(r)]  BY <1>2, <2>1, <3>1
      <4>2. \A e, f \in Named(cache[Front(r)], r) : e = f  BY <4>1 DEF ListOnce
      <4> QED  BY <4>1, <4>2 DEF Named
    <3>2. CASE Front(r) \in X
      <4>1. cache'[Front(r)] = Listing(store, Front(r)) /\ r \in Within(Front(r)) /\ Front(r) \in Paths
        BY <1>2, <2>1, <3>2
      <4>2. \A e, f \in Named(Listing(store, Front(r)), r) : e = f  BY <1>3, <4>1, ListingIs
      <4> QED  BY <4>1, <4>2 DEF Named
    <3> QED  BY <3>1, <3>2
  <2> QED  BY <2>1 DEF ListOnce
<1>6. ListOfDir'
  <2>1. ASSUME NEW d \in Paths, cache'[d] # NoList, store[d] # Dir
        PROVE  Within(d) \subseteq hole' \/ \E c \in Clients : TakenBy(c, d)'
    <3>1. CASE d \in X  BY <2>1, <3>1
    <3>2. CASE d \notin X
      <4>1. Cached(d) /\ store[d] # Dir  BY <2>1, <3>2 DEF Cached
      <4>2. CASE Within(d) \subseteq hole
        <5>1. \A r \in Within(d) : r \in hole \ {Root} /\ Front(r) = d  BY <4>2 DEF Within
        <5>2. Within(d) \subseteq hole'  BY <2>1, <3>2, <5>1
        <5> QED  BY <5>2
      <4>3. CASE \E c \in Clients : TakenBy(c, d)  BY <1>1, <4>3
      <4> QED  BY <4>1, <4>2, <4>3 DEF ListOfDir
    <3> QED  BY <3>1, <3>2
  <2> QED  BY <2>1 DEF ListOfDir, Cached, Within
<1> QED  BY <1>4, <1>5, <1>6

-----------------------------------------------------------------------------
(* Steps                                                                   *)

\* A step that leaves the storage and the listings alone
LEMMA QuietOk ==
  ASSUME IInv, UNCHANGED <<store, cache, hole>>, ops' \in 0 .. MaxOps, faults' \in 0 .. MaxFaults,
         flight' \in [Paths -> FlightRec], \A d \in Paths : flight'[d].snap \subseteq EntryOf(d),
         FlightTrue', client' \in [Clients -> ReqRec],
         \A c \in Clients : client[c].pc = "patch" => client'[c] = client[c],
         \A c \in Clients : RequestOk(client'[c], store)
  PROVE  IInv'
<1>1. Types'  BY DEF IInv, Types, EntryOf, Within
<1>2. Tree(store)'  BY DEF IInv, Tree, Under
<1>3. ListTruth' /\ ListOnce' /\ ListOfDir'
  <2>1. hole \subseteq Paths  BY DEF IInv, Types
  <2>2. {} \in SUBSET Paths  OBVIOUS
  <2> QED  BY <2>1, <2>2, ListsKept DEF IInv
<1>4. RequestsInv'  BY DEF RequestsInv
<1> QED  BY <1>1, <1>2, <1>3, <1>4 DEF IInv

\* A request goes on.
LEMMA RequestOnly ==
  ASSUME IInv, UNCHANGED <<store, cache, hole, faults>>, ops' \in 0 .. MaxOps,
         NEW c \in Clients, NEW r \in ReqRec, RequestOk(r, store), client[c].pc # "patch",
         client' = [client EXCEPT ![c] = r],
         flight' \in [Paths -> FlightRec], \A d \in Paths : flight'[d].snap \subseteq EntryOf(d),
         FlightTrue'
  PROVE  IInv'
<1>1. client \in [Clients -> ReqRec]  BY DEF IInv, Types
<1>2. /\ client' \in [Clients -> ReqRec]
      /\ \A b \in Clients : client'[b] = IF b = c THEN r ELSE client[b]
  BY <1>1
<1>3. \A b \in Clients : client[b].pc = "patch" => client'[b] = client[b]  BY <1>2
<1>4. \A b \in Clients : RequestOk(client'[b], store)  BY <1>2 DEF IInv, RequestsInv
<1>5. faults' \in 0 .. MaxFaults  BY DEF IInv, Types
<1> QED  BY <1>2, <1>3, <1>4, <1>5, QuietOk

\* Calls of listG as the invariant has them
Flights(F) ==
  /\ F \in [Paths -> FlightRec] /\ \A d \in Paths : F[d].snap \subseteq EntryOf(d)
  /\ \A d \in Paths : F[d].st = "set" /\ ~F[d].torn => F[d].snap = Listing(store, d)

LEMMA FlightsKept ==
  ASSUME Flights(flight'), UNCHANGED store
  PROVE  /\ flight' \in [Paths -> FlightRec] /\ \A d \in Paths : flight'[d].snap \subseteq EntryOf(d)
         /\ FlightTrue'
<1>1. \A d \in Paths : Listing(store, d)' = Listing(store, d)  BY DEF Listing, Within
<1> QED  BY <1>1 DEF Flights, FlightTrue

LEMMA FlightsNow == IInv => Flights(flight)
BY DEF IInv, Types, FlightTrue, Flights

LEMMA FlightSame ==
  ASSUME IInv, UNCHANGED <<flight, store>>
  PROVE  /\ flight' \in [Paths -> FlightRec] /\ \A d \in Paths : flight'[d].snap \subseteq EntryOf(d)
         /\ FlightTrue'
<1>1. Flights(flight')  BY FlightsNow
<1> QED  BY <1>1, FlightsKept

LEMMA JoinFlights ==
  ASSUME IInv, NEW d \in Paths
  PROVE  /\ Flights(Join(d))
         /\ \A x \in Paths : x # d => Join(d)[x] = flight[x]
<1>1. flight \in [Paths -> FlightRec] /\ Flights(flight)  BY FlightsNow DEF IInv, Types
<1> DEFINE g == [NoFlight EXCEPT !.st = "get"]
           F == Join(d)
<1>2. g \in FlightRec /\ g.st = "get" /\ g.snap = {}  BY DEF NoFlight, FlightRec
<1>3. \A x \in Paths : F[x] = IF x = d /\ flight[x].st = "none" THEN g ELSE flight[x]
  BY <1>1 DEF Join
<1>4. F \in [Paths -> FlightRec]
  <2> HIDE DEF g
  <2> QED  BY <1>1, <1>2 DEF Join, g
<1> HIDE DEF g, F
<1>5. Flights(F)  BY <1>1, <1>2, <1>3, <1>4 DEF Flights
<1> QED  BY <1>3, <1>5 DEF F

LEMMA JoinOk ==
  ASSUME IInv, NEW d \in Paths, UNCHANGED store, flight' = Join(d)
  PROVE  /\ flight' \in [Paths -> FlightRec] /\ \A x \in Paths : flight'[x].snap \subseteq EntryOf(x)
         /\ FlightTrue'
<1>1. Flights(flight')  BY JoinFlights
<1> QED  BY <1>1, FlightsKept

LEMMA Running ==
  ASSUME IInv, NEW c \in Clients, ~At(c, "idle")
  PROVE  /\ client[c] \in ReqRec /\ RequestOk(client[c], store) /\ client[c].todo # << >>
         /\ client[c].todo \in Seq(Steps) /\ Now(c) = Head(client[c].todo) /\ Now(c) \in Steps
         /\ Going(client[c]) /\ store \in Stores
<1>1. client[c] \in ReqRec /\ RequestOk(client[c], store) /\ store \in Stores
  BY DEF IInv, Types, RequestsInv
<1>2. client[c].todo # << >> /\ Going(client[c])  BY <1>1 DEF RequestOk, At
<1>3. client[c].todo \in Seq(Steps)  BY <1>1 DEF ReqRec
<1> QED  BY <1>1, <1>2, <1>3, TailIs DEF Now

LEMMA StartStep ==
  ASSUME IInv, NEW c \in Clients, Start(c)
  PROVE  IInv'
<1>1. PICK s \in Requests : client' = [client EXCEPT ![c] = Onto([Idle EXCEPT !.new = ops + 2], <<s>>)]
  BY DEF Start
<1>2. At(c, "idle") /\ ops < MaxOps /\ ops' = ops + 1 /\ UNCHANGED <<store, cache, flight, hole, faults>>
  BY DEF Start
<1>3. store \in Stores /\ ops \in 0 .. MaxOps /\ MaxOps \in Nat  BY DirCacheAssumption DEF IInv, Types
<1>4. s \in Steps /\ s.k \in Asked
  <2>1. s = Step(s.k, s.p, s.q) /\ s.k \in Asked /\ Proper(s)  BY DirCacheAssumption
  <2>2. Step(s.k, s.p, s.q) \in [k : Kinds, p : Paths, q : Paths]  BY <2>1 DEF Step, Kinds, Proper
  <2> QED  BY <2>1, <2>2 DEF Steps
<1> DEFINE u == [Idle EXCEPT !.new = ops + 2]
           t == <<s>>
<1>5. u \in ReqRec /\ u.old = Empty
  <2>1. Idle \in ReqRec /\ Idle.old = Empty  BY <1>3, IdleOk DEF Idle, Empty
  <2>2. ops + 2 \in 0 .. MaxOps + 1  BY <1>2, <1>3
  <2> QED  BY <2>1, <2>2 DEF ReqRec
<1>6. t \in Seq(Steps) /\ t # << >> /\ Shape(t)
  <2>1. t \in Seq(Steps) /\ Len(t) = 1 /\ t[1] = s  BY <1>4
  <2>2. s.k # "upload"  BY <1>4 DEF Asked
  <2>3. t # << >>  BY <2>1, EmptySeq
  <2> HIDE DEF t
  <2>4. Shape(t)
    <3>1. \A i \in 1 .. Len(t) : i = 1  BY <2>1
    <3> QED  BY <2>1, <2>2, <3>1 DEF Shape
  <2> QED  BY <2>1, <2>3, <2>4
<1> HIDE DEF u, t
<1>7. Onto(u, t) \in ReqRec /\ RequestOk(Onto(u, t), store)
  <2>1. Keeps(Onto(u, t), store)  BY <1>5, <1>6, OntoIs DEF Keeps
  <2> QED  BY <1>3, <1>5, <1>6, <2>1, OntoOk
<1>8. client[c].pc # "patch"  BY <1>2 DEF At
<1>9. ops' \in 0 .. MaxOps  BY <1>2, <1>3
<1>10. client' = [client EXCEPT ![c] = Onto(u, t)]  BY <1>1 DEF u, t
<1> QED  BY <1>2, <1>7, <1>8, <1>9, <1>10, FlightSame, RequestOnly

LEMMA WantsOne ==
  ASSUME NEW r \in ReqRec, r.todo # << >>, Going(r), r.pc \in {"get", "wait"}, Head(r.todo).k # "list"
  PROVE  r.need # << >> /\ Head(r.need) \in Paths
<1> DEFINE s == Head(r.todo)
<1>1. s \in Steps
  <2>1. r.todo \in Seq(Steps)  BY DEF ReqRec
  <2> QED  BY <2>1, TailIs
<1>2. Needs(s) # << >>  BY <1>1, NeedsAre
<1>3. \A a : <<a>> # << >>  OBVIOUS
<1>4. r.need # << >>  BY <1>2, <1>3 DEF Going
<1>5. r.need \in Seq(Paths)  BY DEF ReqRec
<1> QED  BY <1>4, <1>5, HeadTailProperties

LEMMA WaitOk ==
  ASSUME NEW r \in ReqRec, NEW S \in Stores, RequestOk(r, S), r.todo # << >>, r.pc = "get",
         Head(r.todo).k # "list" => Head(r.need) # Root,
         NEW g, g = [r EXCEPT !.pc = "wait"]
  PROVE  g \in ReqRec /\ RequestOk(g, S)
<1>1. g \in ReqRec /\ g.pc = "wait" /\ g.todo = r.todo /\ g.need = r.need /\ g.v = r.v
      /\ g.torn = r.torn /\ g.new = r.new /\ g.old = r.old
  BY DEF ReqRec
<1>2. Going(g)  BY <1>1 DEF RequestOk, Going
<1>3. View(g, S)  BY <1>1 DEF RequestOk, View
<1>4. PatchView(g, S)  BY <1>1 DEF PatchView
<1>5. Keeps(g, S)
  <2> SUFFICES ASSUME g.old # Empty PROVE g.old \notin {None, Dir} /\ \E x \in DOMAIN Backup : Stage(g, x, S)
    BY DEF Keeps
  <2>1. r.old \notin {None, Dir} /\ \E x \in DOMAIN Backup : Stage(r, x, S)  BY <1>1 DEF RequestOk, Keeps
  <2>2. PICK x \in DOMAIN Backup : Stage(r, x, S)  BY <2>1
  <2>3. Stage(g, x, S)  BY <1>1, <2>2 DEF Stage
  <2> QED  BY <1>1, <2>1, <2>3
<1> QED  BY <1>1, <1>2, <1>3, <1>4, <1>5 DEF RequestOk

LEMMA KnownValue ==
  ASSUME NEW l, l \in SUBSET Entries, NEW p
  PROVE  Known(l, p) \in Values
<1>1. None \in Values  BY DirCacheAssumption DEF Values, None
<1>2. ASSUME Named(l, p) # {} PROVE (CHOOSE e \in Named(l, p) : TRUE).v \in Values
  <2>1. (CHOOSE e \in Named(l, p) : TRUE) \in Named(l, p)  BY <1>2
  <2>2. (CHOOSE e \in Named(l, p) : TRUE) \in Entries  BY <2>1 DEF Named
  <2> QED  BY <2>2 DEF Entries
<1> QED  BY <1>1, <1>2 DEF Known

LEMMA CachedIs ==
  ASSUME Types, NEW d \in Paths, Cached(d)
  PROVE  cache[d] \in SUBSET Entries /\ cache[d] \subseteq EntryOf(d)
BY DEF Types, Cached, EntryOf

\* What a request finds in a cached listing is true, or it is marked.
LEMMA LookupTrue ==
  ASSUME IInv, NEW c \in Clients, ~At(c, "patch"), NEW p \in Paths \ {Root}, Cached(Front(p))
  PROVE  /\ Known(cache[Front(p)], p) \in Values
         /\ p \in hole \/ Unpatched(c, {p}) \/ Known(cache[Front(p)], p) = store[p]
<1>1. Front(p) \in Paths /\ Types  BY PathSeq DEF IInv
<1>2. Known(cache[Front(p)], p) \in Values  BY <1>1, CachedIs, KnownValue
<1>3. ASSUME p \notin hole, ~Unpatched(c, {p}) PROVE Known(cache[Front(p)], p) = store[p]
  <2>1. ASSUME NEW b \in Clients PROVE ~Excused(b, p)
    <3> SUFFICES ASSUME Excused(b, p) PROVE FALSE  OBVIOUS
    <3>1. At(b, "patch") /\ b # c  BY DEF Excused, TakenBy
    <3>2. Now(b) \in Steps /\ Now(b).k \in Calls  BY <3>1, Running DEF At, Going
    <3>3. \E y \in Touched(Now(b)) : p \in Under(y)
      <4>1. CASE p \in Changed(Now(b))
        <5>1. p \in Touched(Now(b))  BY <3>2, <4>1, TouchedIs
        <5> QED  BY <5>1, UnderSelf
      <4>2. CASE TakenBy(b, p)  BY <3>2, <4>2, TouchedIs DEF TakenBy
      <4> QED  BY <4>1, <4>2 DEF Excused
    <3>4. Overlap({p}, Touched(Now(b)))  BY <3>3 DEF Overlap
    <3> QED  BY <1>3, <3>1, <3>4 DEF Unpatched
  <2>2. Listed(p)  BY <1>3 DEF Listed
  <2>3. {e.v : e \in Named(cache[Front(p)], p)} = Held(store[p])  BY <2>1, <2>2 DEF IInv, ListTruth
  <2>4. \A e, f \in Named(cache[Front(p)], p) : e = f  BY <2>2 DEF IInv, ListOnce
  <2>5. store[p] \in Values  BY <1>1 DEF Types, Stores
  <2> QED  BY <2>3, <2>4, <2>5, KnownIs
<1> QED  BY <1>2, <1>3

LEMMA GetStep ==
  ASSUME IInv, NEW c \in Clients, Get(c)
  PROVE  IInv'
<1> DEFINE r == client[c]
           p == Head(r.need)
<1>1. At(c, "get") /\ Now(c).k # "list" /\ UNCHANGED <<store, cache, hole, ops, faults>>  BY DEF Get
<1>2. r \in ReqRec /\ RequestOk(r, store) /\ r.todo # << >> /\ Now(c) = Head(r.todo) /\ Going(r)
      /\ store \in Stores /\ r.pc = "get"
  BY <1>1, Running DEF At
<1>3. p \in Paths  BY <1>1, <1>2, WantsOne
<1>4. ops' \in 0 .. MaxOps /\ client \in [Clients -> ReqRec]  BY <1>1 DEF IInv, Types
<1>5. CASE p = Root /\ client' = [client EXCEPT ![c] = Got(@, Dir, FALSE)] /\ UNCHANGED flight
  <2>1. store[p] = Dir  BY <1>5 DEF IInv, Tree
  <2>2. Dir \in Values  BY DirCacheAssumption DEF Values, Dir
  <2>3. Got(r, Dir, FALSE) \in ReqRec /\ RequestOk(Got(r, Dir, FALSE), store)
    BY <1>1, <1>2, <2>1, <2>2, GotOk
  <2>4. client' = [client EXCEPT ![c] = Got(r, Dir, FALSE)]  BY <1>4, <1>5
  <2> QED  BY <1>1, <1>2, <1>4, <1>5, <2>3, <2>4, FlightSame, RequestOnly
<1>6. CASE /\ p # Root /\ Knows(p, Now(c).k = "mkdir")
           /\ client' = [client EXCEPT ![c] =
                Got(@, Known(cache[Front(p)], p), p \in hole \/ Unpatched(c, {p}))]
           /\ UNCHANGED flight
  <2> DEFINE v == Known(cache[Front(p)], p)
             torn == p \in hole \/ Unpatched(c, {p})
  <2>1. Cached(Front(p)) /\ ~At(c, "patch")  BY <1>2, <1>6 DEF Knows, At
  <2>2. v \in Values /\ (torn \/ v = store[p])  BY <1>3, <1>6, <2>1, LookupTrue
  <2>3. torn \in BOOLEAN  BY DEF Unpatched, Overlap
  <2>4. client' = [client EXCEPT ![c] = Got(r, v, torn)]  BY <1>4, <1>6
  <2> HIDE DEF v, torn
  <2>5. Got(r, v, torn) \in ReqRec /\ RequestOk(Got(r, v, torn), store)
    BY <1>1, <1>2, <1>6, <2>2, <2>3, GotOk
  <2> QED  BY <1>1, <1>2, <1>4, <1>6, <2>4, <2>5, FlightSame, RequestOnly
<1>7. CASE p # Root /\ client' = [client EXCEPT ![c].pc = "wait"] /\ flight' = Join(Front(p))
  <2> DEFINE g == [r EXCEPT !.pc = "wait"]
  <2>1. g \in ReqRec /\ RequestOk(g, store)  BY <1>1, <1>2, <1>7, WaitOk
  <2>2. client' = [client EXCEPT ![c] = g]  BY <1>4, <1>7
  <2>3. Front(p) \in Paths  BY <1>3, <1>7, PathSeq
  <2> HIDE DEF g
  <2>4. /\ flight' \in [Paths -> FlightRec] /\ \A x \in Paths : flight'[x].snap \subseteq EntryOf(x)
        /\ FlightTrue'
    BY <1>1, <1>7, <2>3, JoinOk
  <2> QED  BY <1>1, <1>2, <1>4, <2>1, <2>2, <2>4, RequestOnly
<1> QED  BY <1>1, <1>5, <1>6, <1>7 DEF Get

LEMMA ListStep ==
  ASSUME IInv, NEW c \in Clients, List(c)
  PROVE  IInv'
<1> DEFINE r == client[c]
<1>1. At(c, "get") /\ Now(c).k = "list" /\ UNCHANGED <<store, cache, hole, ops, faults>>  BY DEF List
<1>2. r \in ReqRec /\ RequestOk(r, store) /\ r.todo # << >> /\ Now(c) = Head(r.todo)
      /\ store \in Stores /\ r.pc = "get" /\ Now(c) \in Steps
  BY <1>1, Running DEF At
<1>3. ops' \in 0 .. MaxOps /\ client \in [Clients -> ReqRec]  BY <1>1 DEF IInv, Types
<1>4. CASE client' = [client EXCEPT ![c] = Done(@)] /\ UNCHANGED flight
  <2>1. Done(r) \in ReqRec /\ RequestOk(Done(r), store)  BY <1>1, <1>2, DoneOk
  <2>2. client' = [client EXCEPT ![c] = Done(r)]  BY <1>3, <1>4
  <2> QED  BY <1>1, <1>2, <1>3, <1>4, <2>1, <2>2, FlightSame, RequestOnly
<1>5. CASE client' = [client EXCEPT ![c].pc = "wait"] /\ flight' = Join(Now(c).p)
  <2> DEFINE g == [r EXCEPT !.pc = "wait"]
  <2>1. g \in ReqRec /\ RequestOk(g, store)  BY <1>1, <1>2, WaitOk
  <2>2. client' = [client EXCEPT ![c] = g]  BY <1>3, <1>5
  <2>3. Now(c).p \in Paths  BY <1>2, StepIs
  <2> HIDE DEF g
  <2>4. /\ flight' \in [Paths -> FlightRec] /\ \A x \in Paths : flight'[x].snap \subseteq EntryOf(x)
        /\ FlightTrue'
    BY <1>1, <1>5, <2>3, JoinOk
  <2> QED  BY <1>1, <1>2, <1>3, <2>1, <2>2, <2>4, RequestOnly
<1> QED  BY <1>1, <1>4, <1>5 DEF List

\* The call of listG for d goes on.
LEMMA FlightOnly ==
  ASSUME IInv, UNCHANGED <<store, cache, client, hole, ops>>, faults' \in 0 .. MaxFaults, Flights(flight')
  PROVE  IInv'
<1>1. /\ flight' \in [Paths -> FlightRec] /\ \A d \in Paths : flight'[d].snap \subseteq EntryOf(d)
      /\ FlightTrue'
  BY FlightsKept
<1>2. ops' \in 0 .. MaxOps /\ client' \in [Clients -> ReqRec]  BY DEF IInv, Types
<1>3. \A c \in Clients : RequestOk(client'[c], store)  BY DEF IInv, RequestsInv
<1> QED  BY <1>1, <1>2, <1>3, QuietOk

LEMMA FlightMoves ==
  ASSUME NEW F, Flights(F), NEW d \in Paths, NEW st \in {"none", "get", "wait", "list", "fail"}
  PROVE  Flights([F EXCEPT ![d].st = st])
<1> DEFINE g == [F[d] EXCEPT !.st = st]
           G == [F EXCEPT ![d].st = st]
<1>1. F \in [Paths -> FlightRec] /\ F[d] \in FlightRec  BY DEF Flights
<1>2. g \in FlightRec /\ g.st = st /\ g.snap = F[d].snap  BY <1>1 DEF FlightRec
<1>3. G = [F EXCEPT ![d] = g]  OBVIOUS
<1> HIDE DEF g, G
<1>4. G \in [Paths -> FlightRec] /\ \A x \in Paths : G[x] = IF x = d THEN g ELSE F[x]  BY <1>1, <1>2, <1>3
<1>5. Flights(G)  BY <1>2, <1>4 DEF Flights
<1> QED  BY <1>5 DEF G

LEMMA FlightGetStep ==
  ASSUME IInv, NEW d \in Paths, FlightGet(d)
  PROVE  IInv'
<1>1. UNCHANGED <<store, cache, client, hole, ops, faults>>  BY DEF FlightGet
<1>2. faults' \in 0 .. MaxFaults  BY <1>1 DEF IInv, Types
<1>3. CASE d = Root /\ flight' = [flight EXCEPT ![d].st = "list"]
  BY <1>1, <1>2, <1>3, FlightsNow, FlightMoves, FlightOnly
<1>4. CASE flight' = [flight EXCEPT ![d].st = IF Known(cache[Front(d)], d) = Dir THEN "list" ELSE "fail"]
  <2> DEFINE st == IF Known(cache[Front(d)], d) = Dir THEN "list" ELSE "fail"
  <2>1. st \in {"none", "get", "wait", "list", "fail"}  OBVIOUS
  <2> HIDE DEF st
  <2>2. Flights([flight EXCEPT ![d].st = st])  BY <2>1, FlightsNow, FlightMoves
  <2>3. Flights(flight')  BY <1>4, <2>2 DEF st
  <2> QED  BY <1>1, <1>2, <2>3, FlightOnly
<1>5. CASE d # Root /\ flight' = [Join(Front(d)) EXCEPT ![d].st = "wait"]
  <2>1. Front(d) \in Paths  BY <1>5, PathSeq
  <2>2. Flights(Join(Front(d)))  BY <2>1, JoinFlights
  <2>3. Flights([Join(Front(d)) EXCEPT ![d].st = "wait"])  BY <2>2, FlightMoves
  <2> QED  BY <1>1, <1>2, <1>5, <2>3, FlightOnly
<1> QED  BY <1>3, <1>4, <1>5 DEF FlightGet

LEMMA FlightListStep ==
  ASSUME IInv, NEW d \in Paths, FlightList(d)
  PROVE  IInv'
<1>1. UNCHANGED <<store, cache, client, hole, ops>>  BY DEF FlightList
<1>2. faults \in 0 .. MaxFaults /\ MaxFaults \in Nat /\ store \in Stores
  BY DirCacheAssumption DEF IInv, Types
<1>3. CASE /\ flight' = [flight EXCEPT ![d].st = "set", ![d].snap = Listing(store, d)]
           /\ UNCHANGED faults
  <2> DEFINE l == Listing(store, d)
             g == [flight[d] EXCEPT !.st = "set", !.snap = l]
  <2>1. l \subseteq EntryOf(d) /\ l \in SUBSET Entries  BY <1>2, ListingIs
  <2>2. Flights(flight) /\ flight \in [Paths -> FlightRec]  BY FlightsNow DEF IInv, Types
  <2> HIDE DEF l
  <2>3. g \in FlightRec /\ g.st = "set" /\ g.snap = l  BY <2>1, <2>2 DEF FlightRec
  <2>4. flight' = [flight EXCEPT ![d] = g]  BY <1>3, <2>2 DEF l
  <2> HIDE DEF g
  <2>5. flight' \in [Paths -> FlightRec] /\ \A x \in Paths : flight'[x] = IF x = d THEN g ELSE flight[x]
    BY <2>2, <2>3, <2>4
  <2>6. Flights(flight')  BY <2>1, <2>2, <2>3, <2>5 DEF Flights, l
  <2> QED  BY <1>1, <1>2, <1>3, <2>6, FlightOnly
<1>4. CASE /\ store[d] # Dir \/ faults < MaxFaults
           /\ flight' = [flight EXCEPT ![d].st = "fail"]
           /\ faults' = IF store[d] # Dir THEN faults ELSE faults + 1
  <2>1. faults' \in 0 .. MaxFaults  BY <1>2, <1>4
  <2>2. Flights(flight')  BY <1>4, FlightsNow, FlightMoves
  <2> QED  BY <1>1, <2>1, <2>2, FlightOnly
<1> QED  BY <1>3, <1>4 DEF FlightList

\* Who waits for the listing of d gets it: true, or marked, or as an error.
LEMMA DeliveredOk ==
  ASSUME IInv, NEW d \in Paths, NEW l, l \in SUBSET Entries, NEW torn \in BOOLEAN,
         torn \/ \A r \in Within(d) : Known(l, r) \in {None, store[r]}
  PROVE  /\ Delivered(d, l, torn) \in [Clients -> ReqRec]
         /\ \A c \in Clients : /\ RequestOk(Delivered(d, l, torn)[c], store)
                               /\ client[c].pc = "patch" => Delivered(d, l, torn)[c] = client[c]
<1> DEFINE D == Delivered(d, l, torn)
<1>1. ASSUME NEW c \in Clients
      PROVE  /\ D[c] \in ReqRec /\ RequestOk(D[c], store)
             /\ client[c].pc = "patch" => D[c] = client[c]
  <2> DEFINE r == client[c]
             p == Head(r.need)
  <2>1. D[c] = IF At(c, "wait") /\ Now(c).k = "list" /\ Now(c).p = d THEN Done(r)
               ELSE IF At(c, "wait") /\ Now(c).k # "list" /\ Front(p) = d
               THEN Got(r, Known(l, p), torn) ELSE r
    BY DEF Delivered
  <2>2. r \in ReqRec /\ RequestOk(r, store)  BY DEF IInv, Types, RequestsInv
  <2>3. ASSUME At(c, "wait")
        PROVE  r.pc = "wait" /\ r.todo # << >> /\ Now(c) = Head(r.todo) /\ Going(r) /\ store \in Stores
    BY <2>3, Running DEF At
  <2>4. CASE At(c, "wait") /\ Now(c).k = "list" /\ Now(c).p = d
    <3>1. D[c] = Done(r)  BY <2>1, <2>4
    <3>2. Done(r) \in ReqRec /\ RequestOk(Done(r), store)  BY <2>2, <2>3, <2>4, DoneOk
    <3> QED  BY <2>3, <2>4, <3>1, <3>2
  <2>5. CASE At(c, "wait") /\ Now(c).k # "list" /\ Front(p) = d
    <3>1. D[c] = Got(r, Known(l, p), torn)  BY <2>1, <2>5
    <3>2. p \in Paths  BY <2>2, <2>3, <2>5, WantsOne
    <3>3. p # Root  BY <2>3, <2>5 DEF Going
    <3>4. p \in Within(d)  BY <2>5, <3>2, <3>3 DEF Within
    <3>5. Known(l, p) \in Values  BY KnownValue
    <3>6. torn \/ Known(l, p) = None \/ Known(l, p) = store[p]  BY <3>4
    <3>7. Got(r, Known(l, p), torn) \in ReqRec /\ RequestOk(Got(r, Known(l, p), torn), store)
      BY <2>2, <2>3, <2>5, <3>3, <3>5, <3>6, GotOk
    <3> QED  BY <2>3, <2>5, <3>1, <3>7
  <2>6. CASE /\ ~(At(c, "wait") /\ Now(c).k = "list" /\ Now(c).p = d)
             /\ ~(At(c, "wait") /\ Now(c).k # "list" /\ Front(p) = d)
    <3>1. D[c] = r  BY <2>1, <2>6
    <3> QED  BY <2>2, <3>1
  <2> QED  BY <2>4, <2>5, <2>6
<1>2. D = [c \in Clients |-> D[c]]  BY DEF Delivered
<1> HIDE DEF D
<1>3. D \in [Clients -> ReqRec]  BY <1>1, <1>2
<1> QED  BY <1>1, <1>3 DEF D

LEMMA ReturnOk ==
  ASSUME IInv, NEW d \in Paths, NEW l, l \in SUBSET Entries, NEW torn \in BOOLEAN,
         torn \/ \A r \in Within(d) : Known(l, r) \in {None, store[r]},
         Return(d, l, torn)
  PROVE  /\ Flights(flight') /\ client' \in [Clients -> ReqRec]
         /\ \A c \in Clients : /\ RequestOk(client'[c], store)
                               /\ client[c].pc = "patch" => client'[c] = client[c]
<1> DEFINE st(r) == IF Known(l, r) = Dir THEN "list" ELSE "fail"
           F == [r \in Paths |->
                   IF r = d THEN NoFlight
                   ELSE IF r \in Within(d) /\ flight[r].st = "wait"
                   THEN [flight[r] EXCEPT !.st = st(r)]
                   ELSE flight[r]]
<1>1. Flights(flight) /\ flight \in [Paths -> FlightRec]  BY FlightsNow DEF IInv, Types
<1>2. flight' = F /\ client' = Delivered(d, l, torn)  BY DEF Return
<1>3. ASSUME NEW r \in Paths
      PROVE  /\ F[r] \in FlightRec /\ F[r].snap \subseteq EntryOf(r)
             /\ F[r].st = "set" /\ ~F[r].torn => F[r].snap = Listing(store, r)
  <2>1. CASE r = d
    <3>1. F[r] = NoFlight  BY <2>1
    <3>2. NoFlight \in FlightRec /\ NoFlight.st = "none" /\ NoFlight.snap = {}  BY DEF NoFlight, FlightRec
    <3> QED  BY <3>1, <3>2
  <2>2. CASE r # d /\ r \in Within(d) /\ flight[r].st = "wait"
    <3> DEFINE g == [flight[r] EXCEPT !.st = st(r)]
    <3>1. F[r] = g  BY <2>2
    <3>2. st(r) \in {"list", "fail"}  OBVIOUS
    <3> HIDE DEF st
    <3>3. g \in FlightRec /\ g.st = st(r) /\ g.snap = flight[r].snap  BY <1>1, <3>2 DEF FlightRec
    <3> HIDE DEF g, F
    <3> QED  BY <1>1, <3>1, <3>2, <3>3 DEF Flights
  <2>3. CASE r # d /\ ~(r \in Within(d) /\ flight[r].st = "wait")
    <3>1. F[r] = flight[r]  BY <2>3
    <3> QED  BY <1>1, <3>1 DEF Flights
  <2> QED  BY <2>1, <2>2, <2>3
<1>4. F = [r \in Paths |-> F[r]]  OBVIOUS
<1> HIDE DEF F
<1>5. F \in [Paths -> FlightRec]  BY <1>3, <1>4
<1>6. Flights(F)  BY <1>3, <1>5 DEF Flights
<1>7. /\ Delivered(d, l, torn) \in [Clients -> ReqRec]
      /\ \A c \in Clients : /\ RequestOk(Delivered(d, l, torn)[c], store)
                            /\ client[c].pc = "patch" => Delivered(d, l, torn)[c] = client[c]
  BY DeliveredOk
<1> QED  BY <1>2, <1>6, <1>7

LEMMA FlightFailsStep ==
  ASSUME IInv, NEW d \in Paths, FlightFails(d)
  PROVE  IInv'
<1>1. Return(d, {}, FALSE) /\ UNCHANGED <<store, cache, hole, ops, faults>>  BY DEF FlightFails
<1>2. \A r \in Within(d) : Known({}, r) \in {None, store[r]}  BY NothingKnown
<1>3. {} \in SUBSET Entries  OBVIOUS
<1>4. /\ Flights(flight') /\ client' \in [Clients -> ReqRec]
      /\ \A c \in Clients : /\ RequestOk(client'[c], store)
                            /\ client[c].pc = "patch" => client'[c] = client[c]
  BY <1>1, <1>2, <1>3, ReturnOk
<1>5. ops' \in 0 .. MaxOps /\ faults' \in 0 .. MaxFaults  BY <1>1 DEF IInv, Types
<1>6. /\ flight' \in [Paths -> FlightRec] /\ \A x \in Paths : flight'[x].snap \subseteq EntryOf(x)
      /\ FlightTrue'
  BY <1>1, <1>4, FlightsKept
<1> QED  BY <1>1, <1>4, <1>5, <1>6, QuietOk

\* A step that changes the listings, but not what the storage holds
LEMMA ListingStep ==
  ASSUME IInv, UNCHANGED <<store, ops, faults>>,
         cache' \in [Paths -> {NoList} \cup SUBSET Entries],
         \A d \in Paths : cache'[d] = NoList \/ cache'[d] \subseteq EntryOf(d),
         hole' \subseteq Paths, ListTruth', ListOnce', ListOfDir',
         Flights(flight'), client' \in [Clients -> ReqRec],
         \A c \in Clients : RequestOk(client'[c], store)
  PROVE  IInv'
<1>1. /\ flight' \in [Paths -> FlightRec] /\ \A d \in Paths : flight'[d].snap \subseteq EntryOf(d)
      /\ FlightTrue'
  BY FlightsKept
<1>2. Types'  BY <1>1 DEF IInv, Types, EntryOf, Within
<1>3. Tree(store)'  BY DEF IInv, Tree, Under
<1>4. RequestsInv'  BY DEF RequestsInv
<1> QED  BY <1>1, <1>2, <1>3, <1>4 DEF IInv

LEMMA KeptIs ==
  ASSUME NEW h \in SUBSET Paths
  PROVE  /\ Kept(h) \subseteq h
         /\ \A r \in h : r = Root \/ cache'[Front(r)] = NoList \/ r \in Kept(h)
BY DEF Kept

LEMMA DeleteTreeIs ==
  ASSUME Types, NEW p \in Paths
  PROVE  /\ DeleteTree(p) \in [Paths -> {NoList} \cup SUBSET Entries]
         /\ \A d \in Paths : DeleteTree(p)[d] = cache[d] \/ DeleteTree(p)[d] = NoList
         /\ \A d \in Paths \ Under(p) : DeleteTree(p)[d] = cache[d]
         /\ DeleteTree(p)[p] = NoList
<1>1. cache \in [Paths -> {NoList} \cup SUBSET Entries]  BY DEF Types
<1>2. \A d \in Paths : DeleteTree(p)[d] = IF d \in Reached(p) THEN NoList ELSE cache[d]  BY DEF DeleteTree
<1>3. DeleteTree(p) \in [Paths -> {NoList} \cup SUBSET Entries]  BY <1>1 DEF DeleteTree
<1>4. p \in Reached(p)
  <2>1. Len(p) \in Nat  BY PathSeq
  <2>2. ~\E n \in Len(p) .. Len(p) - 1 : TRUE  BY <2>1
  <2>3. p \in Under(p)  BY UnderSelf
  <2> QED  BY <2>2, <2>3 DEF Reached
<1>5. Reached(p) \subseteq Under(p)  BY DEF Reached
<1> QED  BY <1>2, <1>3, <1>4, <1>5

LEMMA FlightSetStep ==
  ASSUME IInv, NEW d \in Paths, FlightSet(d)
  PROVE  IInv'
<1> DEFINE f == flight[d]
           l == f.snap
           h == IF f.torn THEN hole \cup Within(d) ELSE hole \ Within(d)
<1>1. /\ f.st = "set" /\ cache' = (IF l # {} THEN [cache EXCEPT ![d] = l] ELSE DeleteTree(d))
      /\ Return(d, l, f.torn) /\ hole' = Kept(h) /\ UNCHANGED <<store, ops, faults>>
  BY DEF FlightSet
<1>2. /\ Types /\ f \in FlightRec /\ l \subseteq EntryOf(d) /\ store \in Stores /\ hole \subseteq Paths
      /\ cache \in [Paths -> {NoList} \cup SUBSET Entries]
      /\ \A x \in Paths : cache[x] = NoList \/ cache[x] \subseteq EntryOf(x)
      /\ Tree(store) /\ ListTruth /\ ListOnce /\ ListOfDir
  BY DEF IInv, Types
<1>3. l \in SUBSET Entries /\ f.torn \in BOOLEAN  BY <1>2 DEF FlightRec
<1>4. ~f.torn => l = Listing(store, d)  BY <1>1 DEF IInv, FlightTrue
<1>5. \A r \in Within(d) : r \in Paths /\ r # Root /\ Front(r) = d  BY DEF Within
<1>6. f.torn \/ \A r \in Within(d) : Known(l, r) \in {None, store[r]}
  <2> SUFFICES ASSUME ~f.torn, NEW r \in Within(d) PROVE Known(l, r) = store[r]  OBVIOUS
  <2>1. /\ \A e, g \in Named(Listing(store, d), r) : e = g
        /\ {e.v : e \in Named(Listing(store, d), r)} = Held(store[r])
    BY <1>2, ListingIs
  <2>2. store[r] \in Values  BY <1>2, <1>5 DEF Stores
  <2>3. Known(Listing(store, d), r) = store[r]  BY <2>1, <2>2, KnownIs
  <2> QED  BY <1>4, <2>3
<1> HIDE DEF f, l, h
<1>7. /\ Flights(flight') /\ client' \in [Clients -> ReqRec]
      /\ \A c \in Clients : /\ RequestOk(client'[c], store)
                            /\ client[c].pc = "patch" => client'[c] = client[c]
  BY <1>1, <1>3, <1>6, ReturnOk
<1>8. h \in SUBSET Paths /\ \A r \in hole : r \in Within(d) \/ r \in h  BY <1>2, <1>5 DEF h
<1>9. hole' \subseteq Paths /\ \A r \in h : r = Root \/ cache'[Front(r)] = NoList \/ r \in hole'
  BY <1>1, <1>8, KeptIs
<1>10. CASE l # {}
  <2>1. cache' = [cache EXCEPT ![d] = l]  BY <1>1, <1>10
  <2>2. cache' \in [Paths -> {NoList} \cup SUBSET Entries]  BY <1>2, <1>3, <2>1
  <2>3. \A x \in Paths : cache'[x] = IF x = d THEN l ELSE cache[x]  BY <1>2, <2>1
  <2>4. \A x \in Paths : cache'[x] = NoList \/ cache'[x] \subseteq EntryOf(x)  BY <1>2, <2>3
  <2>5. ListTruth' /\ ListOnce' /\ ListOfDir'
    <3>1. \A x \in Paths \ {d} : cache'[x] = cache[x] \/ cache'[x] = NoList  BY <2>3
    <3>2. \A r \in hole \ {Root} : Front(r) \in {d} \/ cache'[Front(r)] = NoList \/ r \in hole'
      <4> TAKE r \in hole \ {Root}
      <4>1. CASE r \in Within(d)  BY <1>5, <4>1
      <4>2. CASE r \notin Within(d)  BY <1>8, <1>9, <4>2
      <4> QED  BY <4>1, <4>2
    <3>3. \/ Within(d) \subseteq hole'
          \/ cache'[d] = Listing(store, d) /\ store[d] = Dir
      <4>1. CASE f.torn
        <5>1. l # NoList  BY <1>3, NotAListing
        <5>2. Within(d) \subseteq h  BY <4>1 DEF h
        <5>3. \A r \in Within(d) : r # Root /\ cache'[Front(r)] # NoList  BY <1>5, <2>3, <5>1
        <5>4. Within(d) \subseteq hole'  BY <1>9, <5>2, <5>3
        <5> QED  BY <5>4
      <4>2. CASE ~f.torn
        <5>1. l = Listing(store, d)  BY <1>4, <4>2
        <5>2. PICK r \in Within(d) : store[r] # None  BY <1>10, <5>1 DEF Listing
        <5>3. r \in Under(d) \ {d}  BY <1>5, FrontUnder
        <5>4. store[d] = Dir  BY <1>2, <5>2, <5>3 DEF Tree
        <5> QED  BY <2>3, <5>1, <5>4
      <4> QED  BY <4>1, <4>2
    <3>4. {d} \in SUBSET Paths  OBVIOUS
    <3>5. \A x \in {d} : \/ Within(x) \subseteq hole'
                         \/ cache'[x] = NoList
                         \/ cache'[x] = Listing(store, x) /\ store[x] = Dir
      BY <3>3
    <3>6. store' = store /\ \A c \in Clients : client[c].pc = "patch" => client'[c] = client[c]
      BY <1>1, <1>7
    <3> QED  BY <1>2, <3>1, <3>2, <3>4, <3>5, <3>6, ListsKept
  <2> QED  BY <1>1, <1>7, <1>9, <2>2, <2>4, <2>5, ListingStep
<1>11. CASE l = {}
  <2>1. cache' = DeleteTree(d)  BY <1>1, <1>11
  <2>2. /\ cache' \in [Paths -> {NoList} \cup SUBSET Entries]
        /\ \A x \in Paths : cache'[x] = cache[x] \/ cache'[x] = NoList
        /\ cache'[d] = NoList
    BY <1>2, <2>1, DeleteTreeIs
  <2>3. \A x \in Paths : cache'[x] = NoList \/ cache'[x] \subseteq EntryOf(x)  BY <1>2, <2>2
  <2>4. ListTruth' /\ ListOnce' /\ ListOfDir'
    <3>1. \A r \in hole \ {Root} : cache'[Front(r)] = NoList \/ r \in hole'
      <4> TAKE r \in hole \ {Root}
      <4>1. CASE r \in Within(d)  BY <1>5, <2>2, <4>1
      <4>2. CASE r \notin Within(d)  BY <1>8, <1>9, <4>2
      <4> QED  BY <4>1, <4>2
    <3>2. store' = store /\ \A c \in Clients : client[c].pc = "patch" => client'[c] = client[c]
      BY <1>1, <1>7
    <3>3. {} \in SUBSET Paths  OBVIOUS
    <3> QED  BY <1>2, <2>2, <3>1, <3>2, <3>3, ListsKept
  <2> QED  BY <1>1, <1>7, <1>9, <2>2, <2>3, <2>4, ListingStep
<1> QED  BY <1>10, <1>11

LEMMA ExpireStep ==
  ASSUME IInv, NEW d \in Paths, Expire(d)
  PROVE  IInv'
<1>1. /\ cache' = [cache EXCEPT ![d] = NoList] /\ hole' = Kept(hole)
      /\ UNCHANGED <<store, flight, client, ops, faults>>
  BY DEF Expire
<1>2. /\ Types /\ hole \in SUBSET Paths /\ cache \in [Paths -> {NoList} \cup SUBSET Entries]
      /\ \A x \in Paths : cache[x] = NoList \/ cache[x] \subseteq EntryOf(x)
      /\ ListTruth /\ ListOnce /\ ListOfDir
  BY DEF IInv, Types
<1>3. \A x \in Paths : cache'[x] = IF x = d THEN NoList ELSE cache[x]  BY <1>1, <1>2
<1>4. cache' \in [Paths -> {NoList} \cup SUBSET Entries]  BY <1>1, <1>2
<1>5. \A x \in Paths : cache'[x] = NoList \/ cache'[x] \subseteq EntryOf(x)  BY <1>2, <1>3
<1>6. hole' \subseteq Paths /\ \A r \in hole : r = Root \/ cache'[Front(r)] = NoList \/ r \in hole'
  BY <1>1, <1>2, KeptIs
<1>7. ListTruth' /\ ListOnce' /\ ListOfDir'
  <2>1. \A r \in hole \ {Root} : cache'[Front(r)] = NoList \/ r \in hole'  BY <1>6
  <2>2. \A x \in Paths : cache'[x] = cache[x] \/ cache'[x] = NoList  BY <1>3
  <2>3. {} \in SUBSET Paths  OBVIOUS
  <2> QED  BY <1>1, <1>2, <2>1, <2>2, <2>3, ListsKept
<1>8. Flights(flight') /\ client' \in [Clients -> ReqRec] /\ \A c \in Clients : RequestOk(client'[c], store)
  BY <1>1, FlightsNow DEF IInv, Types, RequestsInv
<1> QED  BY <1>1, <1>4, <1>5, <1>6, <1>7, <1>8, ListingStep

LEMMA CrossClients ==
  ASSUME IInv, NEW c \in Clients, At(c, "call"), Can(Now(c)),
         store' = After(Now(c), client[c].new), Cross(c, Now(c))
  PROVE  /\ client' \in [Clients -> ReqRec]
         /\ \A b \in Clients : RequestOk(client'[b], store')
         /\ client'[c].pc = "patch" /\ client'[c].todo = client[c].todo
         /\ \A b \in Clients \ {c} : client'[b].pc = client[b].pc /\ client'[b].todo = client[b].todo
<1> DEFINE s == Now(c)
           f == After(Now(c), client[c].new)
<1>1. /\ client[c] \in ReqRec /\ RequestOk(client[c], store) /\ client[c].todo # << >>
      /\ s = Head(client[c].todo) /\ s \in Steps /\ client[c].pc = "call" /\ s.k \in Calls
      /\ store \in Stores /\ Tree(store)
  BY Running DEF At, Going, IInv
<1>2. client[c].new \in 0 .. MaxOps + 1  BY <1>1 DEF ReqRec
<1>3. f \in Stores
  BY <1>1, <1>2, CallDoes
<1>4. \A x \in Paths : f[x] # store[x] => \E y \in Touched(s) : x \in Under(y)
  <2> TAKE x \in Paths
  <2> HAVE f[x] # store[x]
  <2>1. \/ s.k \in {"make", "upload"} /\ x = s.p
        \/ s.k \in Takes /\ x \in Under(s.p)
        \/ s.k \in Gives /\ x \in Under(Target(s)) /\ (x # Target(s) => store[Front(x)] # Dir)
    BY <1>1, <1>2, CallDoes
  <2>2. s.p \in Touched(s) /\ (s.k \in Gives => Target(s) \in Touched(s))  BY <1>1, TouchedIs
  <2>3. x \in Under(x)  BY UnderSelf
  <2> QED  BY <2>1, <2>2, <2>3
<1>5. ASSUME NEW b \in Clients
      PROVE  /\ client'[b] \in ReqRec /\ RequestOk(client'[b], f)
             /\ b = c => client'[b].pc = "patch" /\ client'[b].todo = client[b].todo
             /\ b # c => client'[b].pc = client[b].pc /\ client'[b].todo = client[b].todo
  <2>1. client[b] \in ReqRec /\ RequestOk(client[b], store)  BY DEF IInv, Types, RequestsInv
  <2>2. CASE b = c
    <3>1. client'[c] = [client[c] EXCEPT !.pc = "patch",
                          !.torn = @ \/ (s.k = "make" /\ store[s.p] # None)]
      BY DEF Cross
    <3>2. client'[c] \in ReqRec /\ RequestOk(client'[c], f)  BY <1>1, <3>1, OwnCallOk
    <3>3. client'[c].pc = "patch" /\ client'[c].todo = client[c].todo  BY <1>1, <3>1 DEF ReqRec
    <3> QED  BY <2>2, <3>2, <3>3
  <2>3. CASE b # c /\ client[b].todo = << >>
    <3>1. client'[b] = client[b]  BY <2>3 DEF Cross
    <3>2. RequestOk(client[b], f)  BY <2>1, <2>3 DEF RequestOk, Keeps
    <3> QED  BY <2>1, <2>3, <3>1, <3>2
  <2>4. CASE b # c /\ client[b].todo # << >>
    <3>1. client'[b] = [client[b] EXCEPT
              !.torn = @ \/ Overlap(Touched(s), Touched(Head(client[b].todo))),
              !.old = IF Overlap(Touched(s), UNION {{p, Backup[p]} : p \in Uploads(client[b])})
                      THEN Empty ELSE @]
      BY <2>4 DEF Cross, Now
    <3>2. client'[b] \in ReqRec /\ RequestOk(client'[b], f)
      BY <1>1, <1>3, <1>4, <2>1, <2>4, <3>1, OtherCallOk
    <3>3. client'[b].pc = client[b].pc /\ client'[b].todo = client[b].todo  BY <2>1, <3>1 DEF ReqRec
    <3> QED  BY <2>4, <3>2, <3>3
  <2> QED  BY <2>2, <2>3, <2>4
<1>6. client' \in [Clients -> ReqRec]
  <2>1. client' = [b \in Clients |-> client'[b]]  BY DEF Cross
  <2> QED  BY <1>5, <2>1
<1> QED  BY <1>5, <1>6

LEMMA CrossFlights ==
  ASSUME IInv, NEW c \in Clients, store' \in Stores, Cross(c, Now(c))
  PROVE  /\ flight' \in [Paths -> FlightRec] /\ \A d \in Paths : flight'[d].snap \subseteq EntryOf(d)
         /\ FlightTrue'
<1>1. flight \in [Paths -> FlightRec] /\ \A d \in Paths : flight[d].snap \subseteq EntryOf(d)
  BY DEF IInv, Types
<1> DEFINE t(d) == flight[d].st = "set" /\ (flight[d].torn \/ \E r \in Within(d) : store'[r] # store[r])
<1>2. flight' = [d \in Paths |-> [flight[d] EXCEPT !.torn = t(d)]]  BY DEF Cross
<1>3. \A d \in Paths : t(d) \in BOOLEAN  OBVIOUS
<1> HIDE DEF t
<1>4. ASSUME NEW d \in Paths
      PROVE  /\ flight'[d] \in FlightRec /\ flight'[d].snap = flight[d].snap
             /\ flight'[d].st = flight[d].st /\ flight'[d].torn = t(d)
  <2>1. flight'[d] = [flight[d] EXCEPT !.torn = t(d)]  BY <1>2
  <2> QED  BY <1>1, <1>3, <2>1 DEF FlightRec
<1>5. flight' \in [Paths -> FlightRec]
  <2>1. flight' = [d \in Paths |-> flight'[d]]  BY <1>2
  <2> QED  BY <1>4, <2>1
<1>6. ASSUME NEW d \in Paths, flight'[d].st = "set", ~flight'[d].torn
      PROVE  flight'[d].snap = Listing(store, d)'
  <2>1. flight[d].st = "set" /\ ~flight[d].torn /\ \A r \in Within(d) : store'[r] = store[r]
    BY <1>4, <1>6 DEF t
  <2>2. Listing(store, d)' = Listing(store, d)  BY <2>1 DEF Listing, Within
  <2> QED  BY <1>4, <2>1, <2>2 DEF IInv, FlightTrue
<1>7. FlightTrue'  BY <1>6 DEF FlightTrue
<1> QED  BY <1>1, <1>4, <1>5, <1>7

\* What a call changes, its patch is due for, or a listing that is not known to
\* be a directory's.
LEMMA CrossLists ==
  ASSUME IInv, NEW c \in Clients, At(c, "call"), Can(Now(c)),
         store' = After(Now(c), client[c].new), Cross(c, Now(c)), UNCHANGED <<cache, hole>>
  PROVE  ListTruth' /\ ListOnce' /\ ListOfDir'
<1> DEFINE s == Now(c)
           f == After(Now(c), client[c].new)
<1>1. /\ client[c] \in ReqRec /\ s \in Steps /\ client[c].pc = "call" /\ s.k \in Calls
      /\ store \in Stores /\ Tree(store) /\ s.p \in Paths
  BY Running, StepIs DEF At, Going, IInv
<1>2. client[c].new \in 0 .. MaxOps + 1  BY <1>1 DEF ReqRec
<1>3. /\ client'[c].pc = "patch" /\ client'[c].todo = client[c].todo
      /\ \A b \in Clients \ {c} : client'[b].pc = client[b].pc /\ client'[b].todo = client[b].todo
  BY CrossClients
<1>4. /\ \A r \in Paths : f[r] # store[r] =>
           \/ s.k \in {"make", "upload"} /\ r = s.p
           \/ s.k \in Takes /\ r \in Under(s.p)
           \/ s.k \in Gives /\ r \in Under(Target(s)) /\ (r # Target(s) => store[Front(r)] # Dir)
      /\ s.k \in Gives => Target(s) \in Paths \ Under(s.p)
      /\ \A r \in Paths : store[r] = Dir /\ f[r] # Dir => s.k \in Takes /\ r \in Under(s.p)
  BY <1>1, <1>2, CallDoes
<1> HIDE DEF f
<1>5. store' = f  BY DEF f
<1>6. \A b \in Clients, r \in Paths : /\ TakenBy(b, r) => TakenBy(b, r)'
                                      /\ Excused(b, r) => Excused(b, r)'
  <2> TAKE b \in Clients, r \in Paths
  <2>1. CASE b = c
    <3>1. ~At(b, "patch")  BY <1>1, <2>1 DEF At
    <3> QED  BY <3>1 DEF Excused, TakenBy
  <2>2. CASE b # c
    <3>1. At(b, "patch")' = At(b, "patch") /\ Now(b)' = Now(b)  BY <1>3, <2>2 DEF At, Now
    <3> QED  BY <3>1 DEF Excused, TakenBy, Changed, Takes, Gives, Target, Under
  <2> QED  BY <2>1, <2>2
<1>7. \A r \in Paths : /\ TakenBy(c, r)' <=> s.k \in Takes /\ r \in Under(s.p)
                       /\ r \in Changed(s) => Excused(c, r)'
  <2>1. At(c, "patch")' /\ Now(c)' = s  BY <1>3 DEF At, Now
  <2> QED  BY <2>1 DEF Excused, TakenBy, Changed, Takes, Gives, Target, Under
<1>8. \A r \in Paths : (Listed(r)' <=> Listed(r)) /\ cache'[Front(r)] = cache[Front(r)]
                       /\ Named(cache[Front(r)], r)' = Named(cache[Front(r)], r)
  BY DEF Listed, Cached, Named
<1>9. \A b \in Clients, r \in Paths : TakenBy(b, r) => Excused(b, r)  BY DEF Excused
<1>10. ListTruth'
  <2>1. ASSUME NEW r \in Paths, Listed(r), \A b \in Clients : ~Excused(b, r)'
        PROVE  {e.v : e \in Named(cache[Front(r)], r)} = Held(f[r])
    <3>1. \A b \in Clients : ~Excused(b, r)  BY <1>6, <2>1
    <3>2. {e.v : e \in Named(cache[Front(r)], r)} = Held(store[r])  BY <2>1, <3>1 DEF IInv, ListTruth
    <3>3. f[r] = store[r]
      <4> SUFFICES ASSUME f[r] # store[r] PROVE FALSE  OBVIOUS
      <4>1. r \notin Changed(s) /\ ~(s.k \in Takes /\ r \in Under(s.p))
        <5>1. ~Excused(c, r)'  BY <2>1
        <5>2. TakenBy(c, r)' => Excused(c, r)'  BY DEF Excused
        <5> QED  BY <1>7, <5>1, <5>2
      <4>2. s.k \in Gives /\ r \in Under(Target(s)) /\ r # Target(s) /\ store[Front(r)] # Dir
        <5>1. s.k \in {"make", "upload"} => s.p \in Changed(s)  BY DEF Changed
        <5>2. s.k \in Gives => Target(s) \in Changed(s)  BY DEF Changed
        <5> QED  BY <1>4, <4>1, <5>1, <5>2
      <4>3. r # Root /\ r \notin hole /\ Cached(Front(r))  BY <2>1 DEF Listed
      <4>4. Front(r) \in Paths /\ r \in Within(Front(r))  BY <4>3, PathSeq DEF Within
      <4>5. PICK b \in Clients : TakenBy(b, Front(r))  BY <4>2, <4>3, <4>4 DEF IInv, ListOfDir
      <4>6. TakenBy(b, r)
        <5>1. At(b, "patch") /\ Now(b).k \in Takes /\ Front(r) \in Under(Now(b).p)  BY <4>5 DEF TakenBy
        <5>2. Now(b).p \in Paths  BY <5>1, Running, StepIs DEF At
        <5>3. r \in Under(Now(b).p)  BY <4>3, <5>1, <5>2, FrontUnder
        <5> QED  BY <5>1, <5>3 DEF TakenBy
      <4> QED  BY <1>9, <3>1, <4>6
    <3> QED  BY <3>2, <3>3
  <2>2. ASSUME NEW r \in Paths, Listed(r)', \A b \in Clients : ~Excused(b, r)'
        PROVE  {e.v : e \in Named(cache[Front(r)], r)'} = Held(store[r])'
    BY <1>5, <1>8, <2>1, <2>2 DEF Held
  <2> QED  BY <2>2 DEF ListTruth
<1>11. ListOnce'
  <2>1. \A r \in Paths : Listed(r)' => \A e, g \in Named(cache[Front(r)], r)' : e = g
    BY <1>8 DEF IInv, ListOnce
  <2> QED  BY <2>1 DEF ListOnce
<1>12. ListOfDir'
  <2>1. ASSUME NEW d \in Paths, cache'[d] # NoList, store'[d] # Dir
        PROVE  Within(d) \subseteq hole' \/ \E b \in Clients : TakenBy(b, d)'
    <3>1. CASE store[d] # Dir
      <4>1. Within(d) \subseteq hole \/ \E b \in Clients : TakenBy(b, d)
        BY <2>1, <3>1 DEF IInv, ListOfDir, Cached
      <4> QED  BY <1>6, <4>1
    <3>2. CASE store[d] = Dir
      <4>1. s.k \in Takes /\ d \in Under(s.p)  BY <1>4, <1>5, <2>1, <3>2
      <4> QED  BY <1>7, <4>1
    <3> QED  BY <3>1, <3>2
  <2> QED  BY <2>1 DEF ListOfDir, Cached, Within
<1> QED  BY <1>10, <1>11, <1>12

LEMMA CallStep ==
  ASSUME IInv, NEW c \in Clients, Call(c)
  PROVE  IInv'
<1> DEFINE s == Now(c)
           r == client[c]
<1>1. At(c, "call") /\ UNCHANGED <<cache, hole, ops>>  BY DEF Call
<1>2. /\ r \in ReqRec /\ RequestOk(r, store) /\ r.todo # << >> /\ r.pc = "call"
      /\ s \in Steps /\ s.k \in Calls /\ store \in Stores /\ Tree(store)
  BY <1>1, Running DEF At, Going, IInv
<1>3. CASE Can(s) /\ store' = After(s, r.new) /\ Cross(c, s) /\ UNCHANGED faults
  <2>1. r.new \in 0 .. MaxOps + 1  BY <1>2 DEF ReqRec
  <2>2. store' \in Stores /\ Tree(store')  BY <1>2, <1>3, <2>1, CallDoes
  <2>3. client' \in [Clients -> ReqRec] /\ \A b \in Clients : RequestOk(client'[b], store')
    BY <1>1, <1>3, CrossClients
  <2>4. /\ flight' \in [Paths -> FlightRec] /\ \A d \in Paths : flight'[d].snap \subseteq EntryOf(d)
        /\ FlightTrue'
    BY <1>3, <2>2, CrossFlights
  <2>5. ListTruth' /\ ListOnce' /\ ListOfDir'  BY <1>1, <1>3, CrossLists
  <2>6. Types'  BY <1>1, <1>3, <2>2, <2>3, <2>4 DEF IInv, Types, EntryOf, Within
  <2>7. Tree(store)'  BY <2>2 DEF Tree, Under
  <2>8. RequestsInv'  BY <2>3 DEF RequestsInv
  <2> QED  BY <2>4, <2>5, <2>6, <2>7, <2>8 DEF IInv
<1>4. CASE /\ ~Can(s) \/ faults < MaxFaults
           /\ client' = [client EXCEPT ![c] = Fail(@)]
           /\ faults' = IF Can(s) THEN faults + 1 ELSE faults
           /\ UNCHANGED <<store, flight>>
  <2>1. Fail(r) \in ReqRec /\ RequestOk(Fail(r), store)  BY <1>2, FailOk
  <2>2. client \in [Clients -> ReqRec] /\ ops \in 0 .. MaxOps /\ faults \in 0 .. MaxFaults
        /\ MaxFaults \in Nat
    BY DirCacheAssumption DEF IInv, Types
  <2>3. faults' \in 0 .. MaxFaults  BY <1>4, <2>2
  <2>4. /\ client' \in [Clients -> ReqRec]
        /\ \A b \in Clients : client'[b] = IF b = c THEN Fail(r) ELSE client[b]
    BY <1>4, <2>1, <2>2
  <2>5. \A b \in Clients : /\ client[b].pc = "patch" => client'[b] = client[b]
                           /\ RequestOk(client'[b], store)
    BY <1>2, <2>1, <2>4 DEF IInv, RequestsInv
  <2>6. /\ flight' \in [Paths -> FlightRec] /\ \A d \in Paths : flight'[d].snap \subseteq EntryOf(d)
        /\ FlightTrue'
    BY <1>4, FlightSame
  <2>7. ops' \in 0 .. MaxOps  BY <1>1, <2>2
  <2> QED  BY <1>1, <1>4, <2>3, <2>4, <2>5, <2>6, <2>7, QuietOk
<1> QED  BY <1>3, <1>4 DEF Call

-----------------------------------------------------------------------------
(* The patch                                                               *)

LEMMA RemoveIs ==
  ASSUME NEW l, NEW p
  PROVE  /\ RemoveObject(l, p) \subseteq l
         /\ \A r : Last(r) # Last(p) => Named(RemoveObject(l, p), r) = Named(l, r)
         /\ (\A e, f \in Named(l, p) : e = f) => Named(RemoveObject(l, p), p) = {}
<1>1. CASE Named(l, p) = {}  BY <1>1 DEF RemoveObject
<1>2. CASE Named(l, p) # {}
  <2> DEFINE o == CHOOSE e \in Named(l, p) : TRUE
  <2>1. o \in Named(l, p)  BY <1>2
  <2>2. RemoveObject(l, p) = l \ {o}  BY <1>2 DEF RemoveObject
  <2> HIDE DEF o
  <2>3. o.name = Last(p)  BY <2>1 DEF Named
  <2>4. \A r : Last(r) # Last(p) => Named(RemoveObject(l, p), r) = Named(l, r)  BY <2>2, <2>3 DEF Named
  <2>5. (\A e, f \in Named(l, p) : e = f) => Named(RemoveObject(l, p), p) = {}  BY <2>1, <2>2 DEF Named
  <2> QED  BY <2>2, <2>4, <2>5
<1> QED  BY <1>1, <1>2

LEMMA UpdateIs ==
  ASSUME NEW l, NEW p, NEW e
  PROVE  /\ UpdateObject(l, p, e) \subseteq l \cup {e}
         /\ \A r : Last(r) # Last(p) /\ e.name # Last(r) => Named(UpdateObject(l, p, e), r) = Named(l, r)
         /\ \A r : Last(r) # Last(p) /\ e.name = Last(r) => Named(UpdateObject(l, p, e), r) = Named(l, r) \cup {e}
         /\ (\A f, g \in Named(l, p) : f = g) =>
              Named(UpdateObject(l, p, e), p) = IF e.name = Last(p) THEN {e} ELSE {}
<1> DEFINE m == RemoveObject(l, p)
<1>1. /\ m \subseteq l
      /\ \A r : Last(r) # Last(p) => Named(m, r) = Named(l, r)
      /\ (\A f, g \in Named(l, p) : f = g) => Named(m, p) = {}
  BY RemoveIs
<1>2. UpdateObject(l, p, e) = m \cup {e}  BY DEF UpdateObject
<1> HIDE DEF m
<1>3. \A r : Named(m \cup {e}, r) = Named(m, r) \cup (IF e.name = Last(r) THEN {e} ELSE {})
  BY DEF Named
<1> QED  BY <1>1, <1>2, <1>3

LEMMA InIs ==
  ASSUME NEW T, NEW base \in [Paths -> T], NEW dir \in Paths, NEW l, Cached(dir) => l \in T
  PROVE  /\ In(base, dir, l) \in [Paths -> T]
         /\ \A x \in Paths : In(base, dir, l)[x] = IF x = dir /\ Cached(dir) THEN l ELSE base[x]
BY DEF In

LEMMA SweptIs ==
  ASSUME Types, NEW p \in Paths, NEW v
  PROVE  /\ Swept(p, v) \in [Paths -> {NoList} \cup SUBSET Entries]
         /\ \A x \in Paths : Swept(p, v)[x] = cache[x] \/ Swept(p, v)[x] = NoList
         /\ \A x \in Paths \ Under(p) : Swept(p, v)[x] = cache[x]
<1>1. cache \in [Paths -> {NoList} \cup SUBSET Entries]  BY DEF Types
<1> QED  BY <1>1, DeleteTreeIs DEF Swept

\* What the patch for s leaves cached of a directory x
PatchedTo(s, v, new, x, l) ==
  \/ x = Front(s.p) /\ s.k = "make" /\ l = cache[x] \cup {Entry(s.p, Dir, TRUE)}
  \/ x = Front(s.p) /\ s.k = "upload" /\ l = UpdateObject(cache[x], s.p, Entry(s.p, new, TRUE))
  \/ x = Front(s.p) /\ s.k \in {"remove", "move"} /\ l = RemoveObject(cache[x], s.p)
  \/ x = Front(s.p) /\ s.k = "rename" /\ l = UpdateObject(cache[x], s.p, Entry(s.q, v, TRUE))
  \/ x = s.q /\ s.k \in {"move", "copy"} /\ l = UpdateObject(cache[x], s.p, Entry(s.p, v, TRUE))
  \/ /\ (x # Front(s.p) \/ s.k = "copy") /\ ~(x = s.q /\ s.k \in {"move", "copy"})
     /\ l = cache[x]
     /\ s.k \in Takes /\ x \in Under(s.p) => Swept(s.p, v)[x] # NoList

LEMMA PatchedIs ==
  ASSUME Types, NEW s \in Steps, s.k \in Calls, s.k \in Gives => Target(s) \in Paths \ Under(s.p),
         NEW v \in Values, s.k \in Takes \cup Gives => v # None, NEW new \in 0 .. MaxOps + 1
  PROVE  /\ Patched(s, v, new) \in [Paths -> {NoList} \cup SUBSET Entries]
         /\ \A x \in Paths : Patched(s, v, new)[x] # NoList =>
              /\ Cached(x) /\ PatchedTo(s, v, new, x, Patched(s, v, new)[x])
              /\ Patched(s, v, new)[x] \subseteq EntryOf(x)
<1> DEFINE p == s.p
           q == s.q
           T == {NoList} \cup SUBSET Entries
           C == Patched(s, v, new)
           d == Front(p)
<1>1. p \in Paths \ {Root} /\ q \in Paths /\ d \in Paths /\ d \notin Under(p) /\ p \in Under(p)
  BY StepIs, FrontUnder, UnderSelf DEF Calls
<1>2. cache \in [Paths -> T]  BY DEF Types
<1>3. /\ Swept(p, v) \in [Paths -> T]
      /\ \A x \in Paths : Swept(p, v)[x] = cache[x] \/ Swept(p, v)[x] = NoList
      /\ \A x \in Paths \ Under(p) : Swept(p, v)[x] = cache[x]
  BY <1>1, SweptIs
<1> HIDE DEF T
<1>4. \A x \in Paths : Cached(x) <=> cache[x] # NoList  BY DEF Cached
<1>5. \A x \in Paths : Cached(x) => cache[x] \subseteq EntryOf(x)  BY CachedIs
<1>6. \A x \in Paths : EntryOf(x) \subseteq Entries  BY DEF EntryOf
<1>7. new \in Values \ {None} /\ Dir \in Values \ {None}
  BY DirCacheAssumption DEF Values, None, Dir
<1>8. CASE s.k \in {"make", "upload"}
  <2> DEFINE l == IF s.k = "make" THEN cache[d] \cup {Entry(p, Dir, TRUE)}
                  ELSE UpdateObject(cache[d], p, Entry(p, new, TRUE))
  <2>1. C = In(cache, d, l)  BY <1>8 DEF Patched, PatchMake, PatchUpload
  <2>2. Entry(p, Dir, TRUE) \in EntryOf(d) /\ Entry(p, new, TRUE) \in EntryOf(d)  BY <1>1, <1>7, EntryIs
  <2>3. Cached(d) => l \subseteq EntryOf(d)
    <3>1. UpdateObject(cache[d], p, Entry(p, new, TRUE)) \subseteq cache[d] \cup {Entry(p, new, TRUE)}
      <4> DEFINE o == cache[d]
                 e == Entry(p, new, TRUE)
      <4>1. RemoveObject(o, p) \subseteq o  BY RemoveIs
      <4> HIDE DEF o, e
      <4>2. UpdateObject(o, p, e) \subseteq o \cup {e}  BY <4>1 DEF UpdateObject
      <4> QED  BY <4>2 DEF o, e
    <3> QED  BY <1>1, <1>5, <2>2, <3>1
  <2> HIDE DEF C, l
  <2>4. Cached(d) => l \in T  BY <1>1, <1>6, <2>3 DEF T
  <2>5. C \in [Paths -> T] /\ \A x \in Paths : C[x] = IF x = d /\ Cached(d) THEN l ELSE cache[x]
    <3>1. C = [cache EXCEPT ![d] = IF Cached(d) THEN l ELSE @]  BY <2>1 DEF In
    <3> HIDE DEF p, d
    <3> QED  BY <1>1, <1>2, <2>4, <3>1
  <2>6. s.k \notin Takes /\ s.k \notin {"move", "copy"}  BY <1>8 DEF Takes
  <2>7. ASSUME NEW x \in Paths, C[x] # NoList
        PROVE  Cached(x) /\ PatchedTo(s, v, new, x, C[x]) /\ C[x] \subseteq EntryOf(x)
    <3>1. CASE x = d /\ Cached(d)
      <4>1. C[x] = l  BY <2>5, <3>1
      <4> QED  BY <1>8, <2>3, <3>1, <4>1 DEF PatchedTo, l
    <3>2. CASE ~(x = d /\ Cached(d))
      <4>1. C[x] = cache[x] /\ Cached(x) /\ x # d  BY <1>4, <2>5, <2>7, <3>2
      <4> QED  BY <1>5, <2>6, <4>1 DEF PatchedTo
    <3> QED  BY <3>1, <3>2
  <2> QED  BY <2>5, <2>7 DEF C, T
<1>9. CASE s.k = "remove" \/ s.k = "rename"
  <2> DEFINE l == IF s.k = "remove" THEN RemoveObject(cache[d], p)
                  ELSE UpdateObject(cache[d], p, Entry(q, v, TRUE))
  <2>1. C = In(Swept(p, v), d, l)  BY <1>9 DEF Patched, PatchRemove, PatchRename
  <2>2. s.k = "rename" => Entry(q, v, TRUE) \in EntryOf(d)
    <3> SUFFICES ASSUME s.k = "rename" PROVE Entry(q, v, TRUE) \in EntryOf(d)  OBVIOUS
    <3>1. q # Root /\ Front(q) = d /\ v # None  BY StepIs DEF Takes
    <3> QED  BY <1>1, <3>1, EntryIs
  <2>3. Cached(d) => l \subseteq EntryOf(d)
    <3>1. UpdateObject(cache[d], p, Entry(q, v, TRUE)) \subseteq cache[d] \cup {Entry(q, v, TRUE)}
      <4> DEFINE o == cache[d]
                 e == Entry(q, v, TRUE)
      <4>1. RemoveObject(o, p) \subseteq o  BY RemoveIs
      <4> HIDE DEF o, e
      <4>2. UpdateObject(o, p, e) \subseteq o \cup {e}  BY <4>1 DEF UpdateObject
      <4> QED  BY <4>2 DEF o, e
    <3>2. RemoveObject(cache[d], p) \subseteq cache[d]  BY RemoveIs
    <3> QED  BY <1>1, <1>5, <1>9, <2>2, <3>1, <3>2
  <2> HIDE DEF C, l
  <2>4. Cached(d) => l \in T  BY <1>1, <1>6, <2>3 DEF T
  <2>5. C \in [Paths -> T] /\ \A x \in Paths : C[x] = IF x = d /\ Cached(d) THEN l ELSE Swept(p, v)[x]
    <3> DEFINE base == Swept(p, v)
    <3>1. C = [base EXCEPT ![d] = IF Cached(d) THEN l ELSE @]  BY <2>1 DEF In
    <3>2. base \in [Paths -> T]  BY <1>3
    <3> HIDE DEF p, d, base
    <3>3. C \in [Paths -> T] /\ \A x \in Paths : C[x] = IF x = d /\ Cached(d) THEN l ELSE base[x]
      BY <1>1, <2>4, <3>1, <3>2
    <3> QED  BY <3>3 DEF base
  <2>6. s.k \notin {"move", "copy"}  BY <1>9
  <2>7. ASSUME NEW x \in Paths, C[x] # NoList
        PROVE  Cached(x) /\ PatchedTo(s, v, new, x, C[x]) /\ C[x] \subseteq EntryOf(x)
    <3>1. CASE x = d /\ Cached(d)
      <4>1. C[x] = l  BY <2>5, <3>1
      <4> QED  BY <1>9, <2>3, <3>1, <4>1 DEF PatchedTo, l
    <3>2. CASE ~(x = d /\ Cached(d))
      <4>1. C[x] = Swept(p, v)[x]  BY <2>5, <3>2
      <4>2. C[x] = cache[x] /\ Cached(x) /\ x # d  BY <1>1, <1>3, <1>4, <2>7, <3>2, <4>1
      <4> QED  BY <1>5, <2>6, <2>7, <4>1, <4>2 DEF PatchedTo
    <3> QED  BY <3>1, <3>2
  <2> QED  BY <2>5, <2>7 DEF C, T
<1>10. CASE s.k = "move" \/ s.k = "copy"
  <2> DEFINE base == IF s.k = "move" THEN In(Swept(p, v), d, RemoveObject(cache[d], p)) ELSE cache
             l == UpdateObject(cache[q], p, Entry(p, v, TRUE))
  <2>1. C = In(base, q, l)  BY <1>10 DEF Patched, PatchMove, PatchCopy, PatchRemove
  <2>2. /\ q # d /\ q \notin Under(p) /\ v # None /\ s.k \in Gives
        /\ Target(s) \in Paths \ {Root} /\ Front(Target(s)) = q /\ Last(Target(s)) = Last(p)
    <3>1. s.k \in Gives  BY <1>10 DEF Gives
    <3>2. /\ Target(s) \in Paths \ {Root} /\ Front(Target(s)) = q /\ Last(Target(s)) = Last(p)
          /\ Target(s) \notin Under(p)
      BY <1>10, <3>1, TargetIs
    <3>3. q \notin Under(p)  BY <1>1, <3>2, FrontUnder
    <3> QED  BY <1>10, <3>1, <3>2, <3>3, StepIs
  <2>3. Entry(p, v, TRUE) \in EntryOf(q)
    <3>1. Entry(Target(s), v, TRUE) \in EntryOf(q)  BY <2>2, EntryIs
    <3> QED  BY <2>2, <3>1 DEF Entry
  <2>4. Cached(q) => l \subseteq EntryOf(q)
    <3>1. UpdateObject(cache[q], p, Entry(p, v, TRUE)) \subseteq cache[q] \cup {Entry(p, v, TRUE)}
      <4> DEFINE o == cache[q]
                 e == Entry(p, v, TRUE)
      <4>1. RemoveObject(o, p) \subseteq o  BY RemoveIs
      <4> HIDE DEF o, e
      <4>2. UpdateObject(o, p, e) \subseteq o \cup {e}  BY <4>1 DEF UpdateObject
      <4> QED  BY <4>2 DEF o, e
    <3> QED  BY <1>1, <1>5, <2>3, <3>1
  <2> DEFINE m == RemoveObject(cache[d], p)
             mv == In(Swept(p, v), d, m)
  <2>5. m \subseteq cache[d]  BY RemoveIs
  <2> HIDE DEF m, l, C
  <2>6. Cached(d) => m \subseteq EntryOf(d)  BY <1>1, <1>5, <2>5
  <2>7. (Cached(q) => l \in T) /\ (Cached(d) => m \in T)  BY <1>1, <1>6, <2>4, <2>6 DEF T
  <2>8. /\ mv \in [Paths -> T]
        /\ \A x \in Paths : mv[x] = IF x = d /\ Cached(d) THEN m ELSE Swept(p, v)[x]
    BY <1>1, <1>3, <2>7, InIs
  <2>9. base = IF s.k = "move" THEN mv ELSE cache  BY DEF m
  <2> HIDE DEF base, mv
  <2>10. base \in [Paths -> T]  BY <1>2, <2>8, <2>9
  <2>11. C \in [Paths -> T] /\ \A x \in Paths : C[x] = IF x = q /\ Cached(q) THEN l ELSE base[x]
    <3>1. C = [base EXCEPT ![q] = IF Cached(q) THEN l ELSE @]  BY <2>1 DEF In
    <3> HIDE DEF q
    <3> QED  BY <1>1, <2>7, <2>10, <3>1
  <2>12. ASSUME NEW x \in Paths, C[x] # NoList
         PROVE  Cached(x) /\ PatchedTo(s, v, new, x, C[x]) /\ C[x] \subseteq EntryOf(x)
    <3>1. CASE x = q /\ Cached(q)
      <4>1. C[x] = l  BY <2>11, <3>1
      <4> QED  BY <1>10, <2>4, <3>1, <4>1 DEF PatchedTo, l
    <3>2. CASE ~(x = q /\ Cached(q)) /\ s.k = "move" /\ x = d /\ Cached(d)
      <4>1. C[x] = m  BY <2>8, <2>9, <2>11, <3>2
      <4> QED  BY <2>6, <3>2, <4>1 DEF PatchedTo, m
    <3>3. CASE ~(x = q /\ Cached(q)) /\ s.k = "move" /\ ~(x = d /\ Cached(d))
      <4>1. C[x] = Swept(p, v)[x]  BY <2>8, <2>9, <2>11, <3>3
      <4>2. C[x] = cache[x] /\ Cached(x) /\ x # d /\ x # q  BY <1>1, <1>3, <1>4, <2>2, <2>12, <3>3, <4>1
      <4> QED  BY <1>5, <2>12, <4>1, <4>2 DEF PatchedTo
    <3>4. CASE ~(x = q /\ Cached(q)) /\ s.k = "copy"
      <4>1. C[x] = cache[x] /\ Cached(x) /\ x # q  BY <1>4, <2>9, <2>11, <2>12, <3>4
      <4>2. s.k \notin Takes  BY <3>4 DEF Takes
      <4> QED  BY <1>5, <3>4, <4>1, <4>2 DEF PatchedTo
    <3> QED  BY <1>10, <3>1, <3>2, <3>3, <3>4
  <2> QED  BY <2>11, <2>12 DEF C, T
<1> QED  BY <1>8, <1>9, <1>10 DEF Calls

\* A name that the patch is not for stays as it is listed.
LEMMA PatchedElsewhere ==
  ASSUME NEW s \in Steps, s.k \in Calls, s.k \in Gives => Target(s) \in Paths \ Under(s.p),
         NEW v, NEW new, NEW l, NEW r \in Paths \ {Root}, PatchedTo(s, v, new, Front(r), l),
         r \notin Changed(s)
  PROVE  Named(l, r) = Named(cache[Front(r)], r)
<1> DEFINE p == s.p
           q == s.q
           o == cache[Front(r)]
<1>1. p \in Paths \ {Root} /\ q \in Paths  BY StepIs DEF Calls
<1>2. s.k # "copy" => r # p  BY DEF Changed
<1>3. s.k \in Gives => r # Target(s)  BY DEF Changed
<1>4. Front(r) = Front(p) /\ s.k # "copy" => Last(r) # Last(p)  BY <1>1, <1>2, SameName
<1>5. CASE Front(r) = Front(p) /\ s.k = "make" /\ l = o \cup {Entry(p, Dir, TRUE)}
  <2>1. Entry(p, Dir, TRUE).name = Last(p)  BY DEF Entry
  <2> QED  BY <1>4, <1>5, <2>1 DEF Named
<1>6. CASE Front(r) = Front(p) /\ s.k = "upload" /\ l = UpdateObject(o, p, Entry(p, new, TRUE))
  <2> DEFINE e == Entry(p, new, TRUE)
  <2>1. e.name = Last(p)  BY DEF Entry
  <2> HIDE DEF e, o
  <2>2. Named(UpdateObject(o, p, e), r) = Named(o, r)  BY <1>4, <1>6, <2>1, UpdateIs
  <2> QED  BY <1>6, <2>2 DEF e, o
<1>7. CASE Front(r) = Front(p) /\ s.k \in {"remove", "move"} /\ l = RemoveObject(o, p)
  <2> HIDE DEF o
  <2>1. Named(RemoveObject(o, p), r) = Named(o, r)  BY <1>4, <1>7, RemoveIs
  <2> QED  BY <1>7, <2>1 DEF o
<1>8. CASE Front(r) = Front(p) /\ s.k = "rename" /\ l = UpdateObject(o, p, Entry(q, v, TRUE))
  <2> DEFINE e == Entry(q, v, TRUE)
  <2>1. e.name = Last(q)  BY DEF Entry
  <2>2. q # Root /\ Front(q) = Front(p) /\ Target(s) = q /\ s.k \in Gives
    BY <1>8, StepIs DEF Target, Gives
  <2>3. Last(r) # Last(q)  BY <1>1, <1>3, <1>8, <2>2, SameName
  <2> HIDE DEF e, o
  <2>4. Named(UpdateObject(o, p, e), r) = Named(o, r)  BY <1>4, <1>8, <2>1, <2>3, UpdateIs
  <2> QED  BY <1>8, <2>4 DEF e, o
<1>9. CASE Front(r) = q /\ s.k \in {"move", "copy"} /\ l = UpdateObject(o, p, Entry(p, v, TRUE))
  <2> DEFINE e == Entry(p, v, TRUE)
  <2>1. e.name = Last(p)  BY DEF Entry
  <2>2. s.k \in Gives  BY <1>9 DEF Gives
  <2>3. Target(s) \in Paths \ {Root} /\ Front(Target(s)) = q /\ Last(Target(s)) = Last(p)
    BY <1>9, <2>2, TargetIs
  <2>4. Last(r) # Last(p)  BY <1>3, <1>9, <2>2, <2>3, SameName
  <2> HIDE DEF e, o
  <2>5. Named(UpdateObject(o, p, e), r) = Named(o, r)  BY <2>1, <2>4, UpdateIs
  <2> QED  BY <1>9, <2>5 DEF e, o
<1>10. CASE l = o  BY <1>10
<1> QED  BY <1>5, <1>6, <1>7, <1>8, <1>9, <1>10 DEF PatchedTo

\* l shows of r what there is, once.
Shows(l, r) == (\A e, f \in Named(l, r) : e = f) /\ {e.v : e \in Named(l, r)} = Held(store[r])

\* One that it is for is then listed as what its call has left there.
LEMMA PatchedThere ==
  ASSUME NEW s \in Steps, s.k \in Calls, s.k \in Gives => Target(s) \in Paths \ Under(s.p),
         NEW v \in Values, s.k \in Takes \cup Gives => v # None, NEW new \in 0 .. MaxOps + 1,
         NEW l, NEW r \in Paths \ {Root}, Cached(Front(r)), PatchedTo(s, v, new, Front(r), l),
         r \in Changed(s), r \notin Wrong(s, v, FALSE),
         \A e, f \in Named(cache[Front(r)], r) : e = f,
         s.k = "make" => store[s.p] = Dir,
         s.k = "upload" => store[s.p] = new,
         s.k \in Takes => store[s.p] = None,
         s.k \in Gives => store[Target(s)] = v
  PROVE  Shows(l, r)
<1> DEFINE p == s.p
           q == s.q
           d == Front(r)
           o == cache[d]
<1>1. p \in Paths \ {Root} /\ q \in Paths  BY StepIs DEF Calls
<1>2. new # None /\ Dir # None  BY DirCacheAssumption DEF None, Dir
<1>3. r \in Touched(s)  BY TouchedIs
<1>4. /\ s.k = "make" /\ r = p => Named(o, p) = {}
      /\ s.k = "rename" /\ d = Front(p) => Named(o, q) = {}
  BY <1>3 DEF Wrong
<1>5. ASSUME NEW e, Named(l, r) = {e}, e.v = store[r], store[r] # None
      PROVE  Shows(l, r)
  BY <1>5 DEF Shows, Held
<1>6. ASSUME Named(l, r) = {}, store[r] = None PROVE Shows(l, r)
  BY <1>6 DEF Shows, Held
<1>7. CASE r = p /\ s.k = "make"
  <2> DEFINE e == Entry(p, Dir, TRUE)
  <2>1. l = o \cup {e}  BY <1>7 DEF PatchedTo
  <2>2. e.name = Last(p) /\ e.v = Dir  BY DEF Entry
  <2> HIDE DEF e
  <2>3. Named(l, r) = {e}  BY <1>4, <1>7, <2>1, <2>2 DEF Named
  <2> QED  BY <1>5, <1>2, <1>7, <2>2, <2>3
<1>8. CASE r = p /\ s.k = "upload"
  <2> DEFINE e == Entry(p, new, TRUE)
  <2>1. l = UpdateObject(o, p, e)  BY <1>8 DEF PatchedTo
  <2>2. e.name = Last(p) /\ e.v = new  BY DEF Entry
  <2> HIDE DEF e, o
  <2>3. \A f, g \in Named(o, p) : f = g  BY <1>8 DEF o
  <2>4. Named(UpdateObject(o, p, e), p) = {e}  BY <2>2, <2>3, UpdateIs
  <2> QED  BY <1>5, <1>2, <1>8, <2>1, <2>2, <2>4
<1>9. CASE r = p /\ s.k \in {"remove", "move"}
  <2>1. s.k = "move" => q # d  BY <1>9, StepIs
  <2>2. l = RemoveObject(o, p)  BY <1>9, <2>1 DEF PatchedTo
  <2> HIDE DEF o
  <2>3. \A f, g \in Named(o, p) : f = g  BY <1>9 DEF o
  <2>4. Named(RemoveObject(o, p), p) = {}  BY <2>3, RemoveIs
  <2>5. store[r] = None  BY <1>9 DEF Takes
  <2> QED  BY <1>6, <1>9, <2>2, <2>4, <2>5
<1>10. CASE s.k = "rename"
  <2> DEFINE e == Entry(q, v, TRUE)
  <2>1. q # Root /\ Front(q) = Front(p) /\ Target(s) = q /\ s.k \in Gives /\ s.k \in Takes
    BY <1>10, StepIs DEF Target, Gives, Takes
  <2>2. r \in {p, q} /\ d = Front(p) /\ q # p
    <3>1. r \in {p, q}  BY <1>10, <2>1 DEF Changed
    <3>2. q # p  BY <1>1, <2>1, UnderSelf
    <3> QED  BY <2>1, <3>1, <3>2
  <2>3. Last(q) # Last(p)  BY <1>1, <2>1, <2>2, SameName
  <2>4. l = UpdateObject(o, p, e)  BY <1>10, <2>2 DEF PatchedTo
  <2>5. e.name = Last(q) /\ e.v = v  BY DEF Entry
  <2>6. Named(o, q) = {}  BY <1>4, <1>10, <2>2
  <2>7. r = p => \A f, g \in Named(o, p) : f = g  OBVIOUS
  <2> HIDE DEF e, o
  <2>8. CASE r = p
    <3>1. Named(UpdateObject(o, p, e), p) = {}  BY <2>3, <2>5, <2>7, <2>8, UpdateIs
    <3> QED  BY <1>6, <2>1, <2>4, <2>8, <3>1
  <2>9. CASE r = q
    <3>1. Named(UpdateObject(o, p, e), q) = Named(o, q) \cup {e}  BY <2>3, <2>5, UpdateIs
    <3>2. Named(l, r) = {e}  BY <2>4, <2>6, <2>9, <3>1
    <3> QED  BY <1>5, <2>1, <2>5, <2>9, <3>2
  <2> QED  BY <2>2, <2>8, <2>9
<1>11. CASE s.k \in {"move", "copy"} /\ r = Target(s)
  <2> DEFINE e == Entry(p, v, TRUE)
  <2>1. s.k \in Gives  BY <1>11 DEF Gives
  <2>2. Front(r) = q /\ Last(r) = Last(p) /\ q # Front(p)  BY <1>11, <2>1, TargetIs, StepIs
  <2>3. l = UpdateObject(o, p, e)  BY <1>11, <2>2 DEF PatchedTo
  <2>4. e.name = Last(p) /\ e.v = v  BY DEF Entry
  <2>5. Named(l, r) = Named(l, p) /\ Named(o, r) = Named(o, p)  BY <2>2 DEF Named
  <2>6. \A f, g \in Named(o, p) : f = g  BY <2>5
  <2> HIDE DEF e, o
  <2>7. Named(UpdateObject(o, p, e), p) = {e}  BY <2>4, <2>6, UpdateIs
  <2> QED  BY <1>5, <1>11, <2>1, <2>3, <2>4, <2>5, <2>7
<1>12. s.k \in Gives => s.k \in {"rename", "move", "copy"}  BY DEF Gives
<1> QED  BY <1>7, <1>8, <1>9, <1>10, <1>11, <1>12 DEF Changed, Calls

\* Listings below what is gone stay only where they are known to be wrong.
LEMMA PatchedBelow ==
  ASSUME NEW s \in Steps, s.k \in Takes, s.k \in Gives => Target(s) \in Paths \ Under(s.p),
         NEW v, NEW new, NEW l, NEW d \in Under(s.p), PatchedTo(s, v, new, d, l)
  PROVE  Swept(s.p, v)[d] # NoList /\ \A torn : Within(d) \subseteq Wrong(s, v, torn)
<1> DEFINE p == s.p
           q == s.q
<1>1. p \in Paths \ {Root} /\ q \in Paths /\ d \in Paths  BY StepIs, UnderSelf DEF Takes
<1>2. d # Front(p)  BY <1>1, FrontUnder
<1>3. s.k = "move" => d # q
  <2> SUFFICES ASSUME s.k = "move", d = q PROVE FALSE  OBVIOUS
  <2>1. s.k \in Gives /\ Target(s) \in Paths \ Under(p)  BY DEF Gives
  <2>2. Target(s) # Root /\ Front(Target(s)) = q  BY <2>1, TargetIs
  <2>3. Front(Target(s)) \in Under(p)  BY <2>2
  <2>4. Target(s) \in Under(p)  BY <1>1, <2>1, <2>2, <2>3, FrontUnder
  <2> QED  BY <2>1, <2>4
<1>4. Swept(p, v)[d] # NoList
  <2>1. s.k # "copy"  BY DEF Takes
  <2> QED  BY <1>2, <1>3, <2>1 DEF PatchedTo
<1>5. ASSUME NEW r \in Within(d), NEW torn PROVE r \in Wrong(s, v, torn)
  <2>1. r \in Paths /\ r # Root /\ Front(r) = d  BY DEF Within
  <2>2. r \in Under(p) \ {p}
    <3>1. Front(r) \in Under(p)  BY <2>1
    <3> QED  BY <1>1, <2>1, <3>1, FrontUnder
  <2>3. Swept(p, v)[Front(r)] # NoList  BY <1>4, <2>1
  <2>4. s.k \in {"remove", "rename", "move"}  BY DEF Takes
  <2> QED  BY <2>2, <2>3, <2>4 DEF Wrong
<1> QED  BY <1>4, <1>5

LEMMA PatchStep ==
  ASSUME IInv, NEW c \in Clients, Patch(c)
  PROVE  IInv'
<1> DEFINE s == Now(c)
           v == client[c].v
           new == client[c].new
           torn == client[c].torn
           C == Patched(s, v, new)
           W == Wrong(s, v, torn)
<1>1. /\ At(c, "patch") /\ cache' = C /\ hole' = Kept(hole \cup W)
      /\ client' = [client EXCEPT ![c] = Done(@)] /\ UNCHANGED <<store, flight, ops, faults>>
  BY DEF Patch
<1>2. /\ client[c] \in ReqRec /\ RequestOk(client[c], store) /\ client[c].todo # << >>
      /\ s = Head(client[c].todo) /\ s \in Steps /\ client[c].pc = "patch" /\ s.k \in Calls
      /\ store \in Stores /\ Types /\ hole \subseteq Paths
  BY <1>1, Running DEF At, Going, IInv, Types
<1>3. v \in Values /\ new \in 0 .. MaxOps + 1 /\ torn \in BOOLEAN  BY <1>2 DEF ReqRec
<1>4. /\ s.k \in Gives => Target(s) \in Paths \ Under(s.p)
      /\ s.k \in Takes \cup Gives => v # None
      /\ ~torn => /\ s.k = "make" => store[s.p] = Dir
                  /\ s.k = "upload" => store[s.p] = new
                  /\ s.k \in Takes => store[s.p] = None
                  /\ s.k \in Gives => store[Target(s)] = v
  BY <1>2 DEF RequestOk, PatchView
<1>5. s.p \in Paths \ {Root} /\ Touched(s) \subseteq Paths
  <2>1. s.p \in Paths \ {Root}  BY <1>2, StepIs DEF Calls
  <2>2. s.k \in {"make", "upload", "remove"} \/ s.k \in Gives  BY <1>2 DEF Calls, Gives
  <2> QED  BY <1>4, <2>1, <2>2 DEF Touched, Gives
<1>6. W \subseteq Paths  BY <1>5, UnderSelf DEF Wrong
<1>7. /\ C \in [Paths -> {NoList} \cup SUBSET Entries]
      /\ \A x \in Paths : C[x] # NoList =>
           Cached(x) /\ PatchedTo(s, v, new, x, C[x]) /\ C[x] \subseteq EntryOf(x)
  BY <1>2, <1>3, <1>4, PatchedIs
<1> HIDE DEF C, W
<1>8. hole' \subseteq Paths /\ \A r \in hole \cup W : r = Root \/ cache'[Front(r)] = NoList \/ r \in hole'
  BY <1>1, <1>2, <1>6, KeptIs
<1>9. /\ Done(client[c]) \in ReqRec /\ RequestOk(Done(client[c]), store)
      /\ Done(client[c]).pc # "patch"
  BY <1>2, DoneOk
<1>10. /\ client' \in [Clients -> ReqRec]
       /\ \A b \in Clients : client'[b] = IF b = c THEN Done(client[c]) ELSE client[b]
  <2>1. client \in [Clients -> ReqRec]  BY DEF IInv, Types
  <2> QED  BY <1>1, <1>9, <2>1
<1>11. \A b \in Clients : RequestOk(client'[b], store)  BY <1>9, <1>10 DEF IInv, RequestsInv
\* The others' excuses last, and the one of c is
<1>12. \A b \in Clients \ {c}, r \in Paths : /\ Excused(b, r) => Excused(b, r)'
                                             /\ TakenBy(b, r) => TakenBy(b, r)'
  <2> TAKE b \in Clients \ {c}, r \in Paths
  <2>1. At(b, "patch")' = At(b, "patch") /\ Now(b)' = Now(b)  BY <1>10 DEF At, Now
  <2> QED  BY <2>1 DEF Excused, TakenBy, Changed, Takes, Gives, Target, Under
<1>13. \A r \in Paths : /\ TakenBy(c, r) <=> s.k \in Takes /\ r \in Under(s.p)
                        /\ Excused(c, r) <=> r \in Changed(s) \/ (s.k \in Takes /\ r \in Under(s.p))
  BY <1>1 DEF Excused, TakenBy
<1>14. ASSUME NEW r \in Paths, Listed(r)'
       PROVE  /\ r \in Paths \ {Root} /\ Front(r) \in Paths /\ r \notin hole /\ r \notin W /\ Listed(r)
              /\ PatchedTo(s, v, new, Front(r), C[Front(r)])
              /\ r \in Changed(s) => r \notin Wrong(s, v, FALSE) /\ ~torn
              /\ s.k \in Takes => r \notin Under(s.p) \ {s.p}
  <2>1. r # Root /\ r \notin hole' /\ cache'[Front(r)] # NoList  BY <1>14 DEF Listed, Cached
  <2>2. Front(r) \in Paths /\ r \in Within(Front(r))  BY <2>1, PathSeq DEF Within
  <2>3. r \notin hole /\ r \notin W  BY <1>8, <2>1
  <2>4. Cached(Front(r)) /\ PatchedTo(s, v, new, Front(r), C[Front(r)])  BY <1>1, <1>7, <2>1, <2>2
  <2>5. ASSUME r \in Changed(s) PROVE r \notin Wrong(s, v, FALSE) /\ ~torn
    <3>1. r \in Touched(s)  BY <1>2, <2>5, TouchedIs
    <3> QED  BY <1>3, <2>3, <3>1 DEF W, Wrong
  <2>6. ASSUME s.k \in Takes, r \in Under(s.p) \ {s.p} PROVE FALSE
    <3>1. Front(r) \in Under(s.p)  BY <1>5, <2>1, <2>6, FrontUnder
    <3>2. Within(Front(r)) \subseteq Wrong(s, v, torn)  BY <1>2, <1>4, <2>4, <2>6, <3>1, PatchedBelow
    <3> QED  BY <2>2, <2>3, <3>2 DEF W
  <2> QED  BY <2>1, <2>2, <2>3, <2>4, <2>5, <2>6 DEF Listed
<1>15. ASSUME NEW r \in Paths, Listed(r)', r \in Changed(s)
       PROVE  /\ \A e, f \in Named(C[Front(r)], r) : e = f
              /\ {e.v : e \in Named(C[Front(r)], r)} = Held(store[r])
  <2>1. /\ r \in Paths \ {Root} /\ Listed(r) /\ PatchedTo(s, v, new, Front(r), C[Front(r)])
        /\ r \notin Wrong(s, v, FALSE) /\ ~torn
    BY <1>14, <1>15
  <2>2. \A e, f \in Named(cache[Front(r)], r) : e = f  BY <2>1 DEF IInv, ListOnce
  <2>3. Cached(Front(r))  BY <2>1 DEF Listed
  <2>4. /\ s.k \in Gives => Target(s) \in Paths \ Under(s.p)
        /\ s.k \in Takes \cup Gives => v # None
        /\ s.k = "make" => store[s.p] = Dir
        /\ s.k = "upload" => store[s.p] = new
        /\ s.k \in Takes => store[s.p] = None
        /\ s.k \in Gives => store[Target(s)] = v
    BY <1>4, <2>1
  <2>5. PatchedTo(s, v, new, Front(r), C[Front(r)]) /\ s \in Steps /\ s.k \in Calls  BY <1>2, <2>1
  <2> DEFINE l == C[Front(r)]
  <2> HIDE DEF l
  <2>6. PatchedTo(s, v, new, Front(r), l)  BY <2>5 DEF l
  <2> HIDE DEF s, v, new
  <2>7. Shows(l, r)  BY <1>3, <1>15, <2>1, <2>2, <2>3, <2>4, <2>5, <2>6, PatchedThere
  <2> QED  BY <2>7 DEF l, Shows
<1>16. ASSUME NEW r \in Paths, Listed(r)', r \notin Changed(s)
       PROVE  Named(C[Front(r)], r) = Named(cache[Front(r)], r) /\ Listed(r)
  <2>1. r \in Paths \ {Root} /\ Listed(r) /\ PatchedTo(s, v, new, Front(r), C[Front(r)])
    BY <1>14, <1>16
  <2> HIDE DEF s, v, new
  <2> QED  BY <1>2, <1>4, <1>16, <2>1, PatchedElsewhere
<1>17. ListTruth'
  <2>1. ASSUME NEW r \in Paths, Listed(r)', \A b \in Clients : ~Excused(b, r)'
        PROVE  {e.v : e \in Named(C[Front(r)], r)} = Held(store[r])
    <3>1. CASE r \in Changed(s)  BY <1>15, <2>1, <3>1
    <3>2. CASE r \notin Changed(s)
      <4>1. Named(C[Front(r)], r) = Named(cache[Front(r)], r) /\ Listed(r)  BY <1>16, <2>1, <3>2
      <4>2. ~Excused(c, r)
        <5>1. s.k \in Takes => r \notin Under(s.p) \ {s.p}  BY <1>14, <2>1
        <5>2. s.k \in Takes => s.p \in Changed(s)  BY DEF Takes, Changed
        <5> QED  BY <1>13, <3>2, <5>1, <5>2
      <4>3. \A b \in Clients : ~Excused(b, r)  BY <1>12, <2>1, <4>2
      <4>4. {e.v : e \in Named(cache[Front(r)], r)} = Held(store[r])
        BY <4>1, <4>3 DEF IInv, ListTruth
      <4> QED  BY <4>1, <4>4
    <3> QED  BY <3>1, <3>2
  <2>2. \A r \in Paths : Named(cache[Front(r)], r)' = Named(C[Front(r)], r) /\ Held(store[r])' = Held(store[r])
    BY <1>1 DEF Named, Held
  <2> QED  BY <2>1, <2>2 DEF ListTruth
<1>18. ListOnce'
  <2>1. ASSUME NEW r \in Paths, Listed(r)' PROVE \A e, f \in Named(C[Front(r)], r) : e = f
    <3>1. CASE r \in Changed(s)  BY <1>15, <2>1, <3>1
    <3>2. CASE r \notin Changed(s)
      <4>1. Named(C[Front(r)], r) = Named(cache[Front(r)], r) /\ Listed(r)  BY <1>16, <2>1, <3>2
      <4> QED  BY <4>1 DEF IInv, ListOnce
    <3> QED  BY <3>1, <3>2
  <2>2. \A r \in Paths : Named(cache[Front(r)], r)' = Named(C[Front(r)], r)  BY <1>1 DEF Named
  <2> QED  BY <2>1, <2>2 DEF ListOnce
<1>19. ListOfDir'
  <2>1. ASSUME NEW d \in Paths, cache'[d] # NoList, store[d] # Dir
        PROVE  Within(d) \subseteq hole' \/ \E b \in Clients : TakenBy(b, d)'
    <3>1. Cached(d) /\ PatchedTo(s, v, new, d, C[d])  BY <1>1, <1>7, <2>1
    <3>2. \A r \in Within(d) : r # Root /\ cache'[Front(r)] # NoList  BY <2>1 DEF Within
    <3>3. CASE Within(d) \subseteq hole
      <4>1. Within(d) \subseteq hole'  BY <1>8, <3>2, <3>3
      <4> QED  BY <4>1
    <3>4. CASE TakenBy(c, d)
      <4>1. s.k \in Takes /\ d \in Under(s.p)  BY <1>13, <3>4
      <4>2. Within(d) \subseteq Wrong(s, v, torn)  BY <1>2, <1>4, <3>1, <4>1, PatchedBelow
      <4>3. Within(d) \subseteq hole'  BY <1>8, <3>2, <4>2 DEF W
      <4> QED  BY <4>3
    <3>5. CASE \E b \in Clients \ {c} : TakenBy(b, d)  BY <1>12, <3>5
    <3> QED  BY <2>1, <3>1, <3>3, <3>4, <3>5 DEF IInv, ListOfDir
  <2>2. \A d \in Paths : Within(d)' = Within(d)  BY DEF Within
  <2> QED  BY <1>1, <2>1, <2>2 DEF ListOfDir, Cached
<1>20. \A d \in Paths : cache'[d] = NoList \/ cache'[d] \subseteq EntryOf(d)  BY <1>1, <1>7
<1>21. Flights(flight')  BY <1>1, FlightsNow
<1> QED  BY <1>1, <1>7, <1>8, <1>10, <1>11, <1>17, <1>18, <1>19, <1>20, <1>21, ListingStep

-----------------------------------------------------------------------------
(* The theorems                                                            *)

LEMMA InitOk == Init => IInv
<1> SUFFICES ASSUME Init PROVE IInv  OBVIOUS
<1>1. store \in [Paths -> {None, Dir, 0, 1}] /\ Tree(store)  BY DirCacheAssumption DEF Init
<1>2. store \in Stores
  <2>1. {None, Dir, 0, 1} \subseteq Values  BY DirCacheAssumption DEF Values, None, Dir
  <2> QED  BY <1>1, <2>1 DEF Stores
<1>3. PICK L \in SUBSET {p \in Paths : store[p] = Dir /\ Listing(store, p) # {}} :
        cache = [p \in Paths |-> IF p \in L THEN Listing(store, p) ELSE NoList]
  BY DEF Init
<1>4. \A d \in Paths : /\ Listing(store, d) \subseteq EntryOf(d) /\ Listing(store, d) \in SUBSET Entries
                       /\ \A r \in Within(d) : /\ \A e, f \in Named(Listing(store, d), r) : e = f
                                               /\ {e.v : e \in Named(Listing(store, d), r)} = Held(store[r])
  BY <1>2, ListingIs
<1>5. \A d \in Paths : Cached(d) => cache[d] = Listing(store, d) /\ store[d] = Dir  BY <1>3 DEF Cached
<1>6. NoFlight \in FlightRec /\ NoFlight.st = "none" /\ NoFlight.snap = {}  BY DEF NoFlight, FlightRec
<1>7. Idle \in ReqRec /\ RequestOk(Idle, store)  BY <1>2, IdleOk
<1>8. /\ flight = [p \in Paths |-> NoFlight] /\ client = [c \in Clients |-> Idle]
      /\ hole = {} /\ ops = 0 /\ faults = 0
  BY DEF Init
<1>9. Types
  <2>1. cache \in [Paths -> {NoList} \cup SUBSET Entries]  BY <1>3, <1>4
  <2>2. \A d \in Paths : cache[d] = NoList \/ cache[d] \subseteq EntryOf(d)  BY <1>4, <1>5 DEF Cached
  <2>3. flight \in [Paths -> FlightRec] /\ \A d \in Paths : flight[d].snap \subseteq EntryOf(d)
    BY <1>6, <1>8
  <2>4. client \in [Clients -> ReqRec]  BY <1>7, <1>8
  <2>5. ops \in 0 .. MaxOps /\ faults \in 0 .. MaxFaults  BY <1>8, DirCacheAssumption
  <2> QED  BY <1>2, <1>8, <2>1, <2>2, <2>3, <2>4, <2>5 DEF Types
<1>10. ASSUME NEW r \in Paths, Listed(r)
       PROVE  /\ \A e, f \in Named(cache[Front(r)], r) : e = f
              /\ {e.v : e \in Named(cache[Front(r)], r)} = Held(store[r])
  <2>1. r # Root /\ Cached(Front(r))  BY <1>10 DEF Listed
  <2>2. Front(r) \in Paths /\ r \in Within(Front(r))  BY <2>1, PathSeq DEF Within
  <2>3. cache[Front(r)] = Listing(store, Front(r))  BY <1>5, <2>1, <2>2
  <2> QED  BY <1>4, <2>2, <2>3
<1>11. ListTruth /\ ListOnce  BY <1>10 DEF ListTruth, ListOnce
<1>12. ListOfDir  BY <1>5 DEF ListOfDir
<1>13. FlightTrue  BY <1>6, <1>8 DEF FlightTrue
<1>14. RequestsInv  BY <1>7, <1>8 DEF RequestsInv
<1> QED  BY <1>1, <1>9, <1>11, <1>12, <1>13, <1>14 DEF IInv

LEMMA StutterOk ==
  ASSUME IInv, UNCHANGED vars
  PROVE  IInv'
<1>1. UNCHANGED <<store, cache, flight, client, hole, ops, faults>>  BY DEF vars
<1>2. client' \in [Clients -> ReqRec] /\ \A c \in Clients : RequestOk(client'[c], store)
  BY <1>1 DEF IInv, Types, RequestsInv
<1>3. ops' \in 0 .. MaxOps /\ faults' \in 0 .. MaxFaults  BY <1>1 DEF IInv, Types
<1>4. /\ flight' \in [Paths -> FlightRec] /\ \A d \in Paths : flight'[d].snap \subseteq EntryOf(d)
      /\ FlightTrue'
  BY <1>1, FlightSame
<1> QED  BY <1>1, <1>2, <1>3, <1>4, QuietOk

\* Whatever the storage holds at first and whatever is asked of it, in any
\* interleaving of lookups, driver calls, patches, listings and expiries, with
\* any calls of the driver failing, the invariant holds.
THEOREM Invariance == Spec => []IInv
<1>1. IInv /\ [Next]_vars => IInv'
  <2> SUFFICES ASSUME IInv, [Next]_vars PROVE IInv'  OBVIOUS
  <2>1. ASSUME NEW c \in Clients, Start(c) PROVE IInv'  BY <2>1, StartStep
  <2>2. ASSUME NEW c \in Clients, Get(c) PROVE IInv'  BY <2>2, GetStep
  <2>3. ASSUME NEW c \in Clients, List(c) PROVE IInv'  BY <2>3, ListStep
  <2>4. ASSUME NEW c \in Clients, Call(c) PROVE IInv'  BY <2>4, CallStep
  <2>5. ASSUME NEW c \in Clients, Patch(c) PROVE IInv'  BY <2>5, PatchStep
  <2>6. ASSUME NEW d \in Paths, FlightGet(d) PROVE IInv'  BY <2>6, FlightGetStep
  <2>7. ASSUME NEW d \in Paths, FlightList(d) PROVE IInv'  BY <2>7, FlightListStep
  <2>8. ASSUME NEW d \in Paths, FlightSet(d) PROVE IInv'  BY <2>8, FlightSetStep
  <2>9. ASSUME NEW d \in Paths, FlightFails(d) PROVE IInv'  BY <2>9, FlightFailsStep
  <2>10. ASSUME NEW d \in Paths, Expire(d) PROVE IInv'  BY <2>10, ExpireStep
  <2>11. CASE UNCHANGED vars  BY <2>11, StutterOk
  <2> QED  BY <2>1, <2>2, <2>3, <2>4, <2>5, <2>6, <2>7, <2>8, <2>9, <2>10, <2>11 DEF Next
<1> QED  BY InitOk, <1>1, PTL DEF Spec

\* Every variable keeps its type: a cached listing holds only names of its
\* directory, and the requests and failures stay within their bounds.
THEOREM TypeCorrect == Spec => []TypeOK
<1>1. IInv => TypeOK
  <2> SUFFICES ASSUME IInv PROVE TypeOK  OBVIOUS
  <2>1. Types  BY DEF IInv
  <2>2. store \in [Paths -> Values]  BY <2>1 DEF Types, Stores
  <2>3. ASSUME NEW p \in Paths, cache[p] # NoList
        PROVE  cache[p] \subseteq [name : {Last(r) : r \in Within(p)}, v : Values \ {None}, temp : BOOLEAN]
    <3>1. cache[p] \subseteq EntryOf(p)  BY <2>1, <2>3 DEF Types
    <3> QED  BY <3>1 DEF EntryOf, Entries
  <2>4. \A p \in Paths : flight[p].st \in {"none", "get", "wait", "list", "set", "fail"}
    BY <2>1 DEF Types, FlightRec
  <2>5. \A c \in Clients : client[c].pc \in {"idle", "get", "wait", "call", "patch"}
    BY <2>1 DEF Types, ReqRec
  <2> QED  BY <2>1, <2>2, <2>3, <2>4, <2>5 DEF TypeOK, Types
<1> QED  BY Invariance, <1>1, PTL

\* Every cached listing says what the storage holds, of every name but those
\* that a request is between its driver call and its patch of, and those that
\* were patched from an old view.
THEOREM ListingsAreTrue == Spec => []CacheTruth
<1>1. IInv => CacheTruth
  <2> SUFFICES ASSUME IInv, NEW r \in Paths \ (hole \cup {Root}), Cached(Front(r)),
                      \A c \in Clients : At(c, "patch") => \A p \in Touched(Now(c)) : r \notin Under(p)
               PROVE  {e.v : e \in Named(cache[Front(r)], r)} = Held(store[r])
    BY DEF CacheTruth, Held
  <2>1. ASSUME NEW c \in Clients PROVE ~Excused(c, r)
    <3> SUFFICES ASSUME Excused(c, r) PROVE FALSE  OBVIOUS
    <3>1. At(c, "patch")  BY DEF Excused, TakenBy
    <3>2. Now(c) \in Steps /\ Now(c).k \in Calls  BY <3>1, Running DEF At, Going
    <3>3. CASE r \in Changed(Now(c))  BY <3>1, <3>2, <3>3, TouchedIs, UnderSelf
    <3>4. CASE TakenBy(c, r)  BY <3>1, <3>2, <3>4, TouchedIs DEF TakenBy
    <3> QED  BY <3>3, <3>4 DEF Excused
  <2>2. Listed(r)  BY DEF Listed
  <2> QED  BY <2>1, <2>2 DEF IInv, ListTruth
<1> QED  BY Invariance, <1>1, PTL

LEMMA SameStep ==
  ASSUME NEW k, NEW p, NEW q, NEW l, NEW x, NEW y, Step(k, p, q) = Step(l, x, y)
  PROVE  k = l /\ p = x /\ q = y
BY DEF Step

\* A Put on a storage that cannot overwrite never loses the old file: it is at
\* its own or at the backup name until the new one is in place, whichever call
\* fails, unless another request works on these names.
THEOREM OldFileIsKept == Spec => []OldKept
<1>1. IInv => OldKept
  <2> SUFFICES ASSUME IInv, NEW c \in Clients, client[c].old # Empty, NEW p \in Uploads(client[c])
               PROVE  client[c].old \in {store[p], store[Backup[p]]} \/ store[p] = client[c].new
    BY DEF OldKept
  <2> DEFINE r == client[c]
             t == r.todo
  <2>1. Keeps(r, store) /\ r \in ReqRec  BY DEF IInv, RequestsInv, RequestOk, Types
  <2>2. PICK x \in DOMAIN Backup : Stage(r, x, store)  BY <2>1 DEF Keeps
  <2>3. p \in DOMAIN Backup /\ \E i \in DOMAIN t :
          \/ t[i] = Step("upload", p, Root)
          \/ t[i] = Step("remove", Backup[p], Root)
          \/ t[i] = Step("rename", Backup[p], p)
    BY DEF Uploads
  <2>4. PICK i \in DOMAIN t : \/ t[i] = Step("upload", p, Root)
                              \/ t[i] = Step("remove", Backup[p], Root)
                              \/ t[i] = Step("rename", Backup[p], p)
    BY <2>3
  <2>5. Backup[p] = Backup[x] => p = x  BY <2>3, DirCacheAssumption
  <2>6. t \in Seq(Steps) /\ DOMAIN t = 1 .. Len(t) /\ Len(t) \in Nat  BY <2>1, LenProperties DEF ReqRec
  <2> DEFINE b == Backup[x]
             n == Len(t)
  <2>7. ASSUME t[i] = Step("upload", x, Root) \/ t[i] = Step("remove", b, Root)
               \/ t[i] = Step("rename", b, x)
        PROVE  p = x
    <3>1. t[i] = Step("upload", x, Root) => p = x  BY <2>4, SameStep
    <3>2. t[i] = Step("remove", b, Root) => p = x  BY <2>4, <2>5, SameStep
    <3>3. t[i] = Step("rename", b, x) => p = x  BY <2>4, SameStep
    <3> QED  BY <2>7, <3>1, <3>2, <3>3
  <2>8. \A z : t[i] # Step("mkdir", z, Root)  BY <2>4, SameStep
  <2>9. ASSUME t[i] = Step("rename", x, b) PROVE p = x \/ (p = b /\ Backup[p] = x)
    <3>1. t[i] = Step("rename", Backup[p], p)  BY <2>4, <2>9, SameStep
    <3> QED  BY <2>9, <3>1, SameStep
  <2>10. CASE /\ t = <<Step("rename", x, b), Step("mkdir", Front(x), Root), Step("upload", x, Root),
                       Step("remove", b, Root)>>
              /\ r.old = IF r.pc = "patch" THEN store[b] ELSE store[x]
    <3>1. \A f, g, h, k : LET u == <<f, g, h, k>> IN
            Len(u) = 4 /\ u[1] = f /\ u[2] = g /\ u[3] = h /\ u[4] = k
      OBVIOUS
    <3>2. n = 4 /\ t[1] = Step("rename", x, b) /\ t[2] = Step("mkdir", Front(x), Root)
          /\ t[3] = Step("upload", x, Root) /\ t[4] = Step("remove", b, Root)
      BY <2>10, <3>1
    <3>3. i \in {1, 2, 3, 4}  BY <2>6, <3>2
    <3>4. p = x \/ (p = b /\ Backup[p] = x)  BY <2>7, <2>8, <2>9, <3>2, <3>3
    <3>5. r.old \in {store[x], store[b]}  BY <2>10
    <3> QED  BY <3>4, <3>5
  <2>11. CASE /\ n > 1 /\ t[n] = Step("remove", b, Root) /\ t[n - 1] = Step("upload", x, Root)
              /\ \A j \in 1 .. n - 2 : t[j].k \in {"mkdir", "make"}
              /\ IF n = 2 /\ r.pc = "patch" THEN store[x] = r.new ELSE r.old = store[b]
    <3>1. i \in 1 .. n - 2 \/ i = n - 1 \/ i = n
      <4> HIDE DEF n
      <4>1. n \in Nat /\ i \in 1 .. n  BY <2>6 DEF n
      <4> QED  BY <4>1
    <3>2. i \notin 1 .. n - 2
      <4>1. t[i].k \in {"upload", "remove", "rename"}  BY <2>4 DEF Step
      <4> QED  BY <2>11, <4>1
    <3>3. p = x  BY <2>7, <2>11, <3>1, <3>2
    <3> QED  BY <2>11, <3>3
  <2>12. CASE t = <<Step("remove", b, Root)>> /\ store[x] = r.new
    <3>1. \A f : Len(<<f>>) = 1 /\ <<f>>[1] = f  OBVIOUS
    <3>2. n = 1 /\ t[1] = Step("remove", b, Root)  BY <2>12, <3>1
    <3>3. i = 1  BY <2>6, <3>2
    <3> QED  BY <2>7, <2>12, <3>2, <3>3
  <2>13. CASE t = <<Step("rename", b, x)>> /\ r.old = IF r.pc = "patch" THEN store[x] ELSE store[b]
    <3>1. \A f : Len(<<f>>) = 1 /\ <<f>>[1] = f  OBVIOUS
    <3>2. n = 1 /\ t[1] = Step("rename", b, x)  BY <2>13, <3>1
    <3>3. i = 1  BY <2>6, <3>2
    <3> QED  BY <2>7, <2>13, <3>2, <3>3
  <2> QED  BY <2>2, <2>10, <2>11, <2>12, <2>13 DEF Stage
<1> QED  BY Invariance, <1>1, PTL
=============================================================================
