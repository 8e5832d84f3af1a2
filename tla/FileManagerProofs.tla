-------------------------- MODULE FileManagerProofs -------------------------
(***************************************************************************)
(* Theorems about the file manager (module FileManager), for every set of  *)
(* names, every volume it is opened on, every page and chunk length and    *)
(* every depth, with a card that fails or one that does not.               *)
(*                                                                         *)
(* The first part is about the volume: paths, and what adding, removing,   *)
(* renaming, writing and repairing make of a tree.  No induction is        *)
(* needed: a tree is stated by its paths, not by its height.  The second   *)
(* part is the inductive invariant IInv.  It adds to TypeOK what the steps *)
(* of a copy rely on: its source and its target are apart, each frame of   *)
(* its stack names a directory that exists in the source and one in the    *)
(* target, and its file lies in the target.                                *)
(***************************************************************************)
EXTENDS FileManager, SequenceTheorems, TLAPS

-----------------------------------------------------------------------------
(* Paths.                                                                  *)

(* A prefix agrees with the whole, name by name.                           *)
LEMMA PrefixPointwise ==
    ASSUME NEW p \in Seq(Names), NEW q \in Seq(Names)
    PROVE  IsPrefix(p, q) <=> Len(p) <= Len(q) /\ \A i \in 1 .. Len(p) : p[i] = q[i]
  <1>1. Len(p) \in Nat /\ Len(q) \in Nat
    OBVIOUS
  <1>2. SubSeq(p, 1, Len(p)) = p
    BY SubSeqFull
  <1> SUFFICES ASSUME Len(p) <= Len(q)
               PROVE  SubSeq(q, 1, Len(p)) = p <=> \A i \in 1 .. Len(p) : p[i] = q[i]
    BY <1>2 DEF IsPrefix
  <1>3. /\ SubSeq(q, 1, Len(p)) \in Seq(Names) /\ Len(SubSeq(q, 1, Len(p))) = Len(p)
        /\ \A i \in 1 .. Len(p) : SubSeq(q, 1, Len(p))[i] = q[i]
    BY <1>1
  <1> QED
    BY <1>1, <1>3, SeqEqual

LEMMA PrefixOfItself == ASSUME NEW p \in Seq(Names) PROVE IsPrefix(p, p)
  BY DEF IsPrefix

LEMMA RootIsPrefix ==
    ASSUME NEW p \in Seq(Names) PROVE <<>> \in Seq(Names) /\ IsPrefix(<<>>, p)
  <1> DEFINE e == <<>>
  <1>1. e \in Seq(Names) /\ Len(e) = 0 /\ Len(p) \in Nat
    BY EmptySeq
  <1> HIDE DEF e
  <1>2. Len(e) <= Len(p) /\ \A i \in 1 .. Len(e) : e[i] = p[i]
    BY <1>1
  <1>3. IsPrefix(e, p)
    BY ONLY <1>1, <1>2, p \in Seq(Names), PrefixPointwise
  <1> QED
    BY <1>1, <1>3 DEF e

LEMMA PrefixTransitive ==
    ASSUME NEW p \in Seq(Names), NEW q \in Seq(Names), NEW r \in Seq(Names),
           IsPrefix(p, q), IsPrefix(q, r)
    PROVE  IsPrefix(p, r)
  BY PrefixPointwise

(* Of two paths to one entry, one lies on the other.                       *)
LEMMA PrefixesComparable ==
    ASSUME NEW p \in Seq(Names), NEW q \in Seq(Names), NEW r \in Seq(Names),
           IsPrefix(p, r), IsPrefix(q, r)
    PROVE  IsPrefix(p, q) \/ IsPrefix(q, p)
  BY PrefixPointwise

LEMMA PrefixesEqual ==
    ASSUME NEW p \in Seq(Names), NEW q \in Seq(Names), IsPrefix(p, q), IsPrefix(q, p)
    PROVE  p = q
  <1>1. Len(p) = Len(q) /\ \A i \in 1 .. Len(p) : p[i] = q[i]
    BY PrefixPointwise
  <1> QED
    BY <1>1, SeqEqual

(* What lies above an entry lies above its directory or is the entry.      *)
LEMMA PrefixOfAppend ==
    ASSUME NEW p \in Seq(Names), NEW q \in Seq(Names), NEW x \in Names
    PROVE  IsPrefix(p, Append(q, x)) <=> IsPrefix(p, q) \/ p = Append(q, x)
  <1> DEFINE a == Append(q, x)
  <1>1. /\ a \in Seq(Names) /\ Len(a) = Len(q) + 1 /\ Len(q) \in Nat /\ Len(p) \in Nat
        /\ \A i \in 1 .. Len(q) : a[i] = q[i]
    BY AppendProperties
  <1> HIDE DEF a
  <1>2. IsPrefix(p, q) => IsPrefix(p, a)
    BY <1>1, PrefixPointwise
  <1>3. ASSUME IsPrefix(p, a), Len(p) <= Len(q) PROVE IsPrefix(p, q)
    BY <1>1, <1>3, PrefixPointwise
  <1>4. ASSUME IsPrefix(p, a), ~(Len(p) <= Len(q)) PROVE p = a
    <2>1. Len(p) = Len(a) /\ \A i \in 1 .. Len(p) : p[i] = a[i]
      BY <1>1, <1>4, PrefixPointwise
    <2> QED
      BY <1>1, <2>1, SeqEqual
  <1>5. p = a => IsPrefix(p, a)
    BY <1>1, PrefixOfItself
  <1> QED
    BY <1>2, <1>3, <1>4, <1>5 DEF a

(* An entry lies in its directory, and not the other way round.            *)
LEMMA FrontOfAppend ==
    ASSUME NEW p \in Seq(Names), NEW x \in Names
    PROVE  /\ Append(p, x) \in Seq(Names) /\ Append(p, x) # <<>>
           /\ Front(Append(p, x)) = p /\ Last(Append(p, x)) = x
           /\ IsPrefix(p, Append(p, x)) /\ ~IsPrefix(Append(p, x), p)
  <1> DEFINE a == Append(p, x)
  <1>1. /\ a \in Seq(Names) /\ a # <<>> /\ Len(a) = Len(p) + 1 /\ Len(p) \in Nat
        /\ \A i \in 1 .. Len(p) : a[i] = p[i]
        /\ a[Len(a)] = x
    BY AppendProperties
  <1> HIDE DEF a
  <1>2. IsPrefix(p, a) /\ ~IsPrefix(a, p)
    BY <1>1, PrefixPointwise
  <1>3. /\ Front(a) \in Seq(Names) /\ Len(Front(a)) = Len(p)
        /\ \A i \in 1 .. Len(p) : Front(a)[i] = p[i]
    BY <1>1 DEF Front
  <1>4. Front(a) = p
    BY <1>3, SeqEqual
  <1> QED
    BY <1>1, <1>2, <1>4 DEF Last, a

LEMMA AppendOfFront ==
    ASSUME NEW p \in Seq(Names), p # <<>>
    PROVE  /\ Front(p) \in Seq(Names) /\ Last(p) \in Names /\ p = Append(Front(p), Last(p))
           /\ IsPrefix(Front(p), p) /\ Front(p) # p
  <1>1. PICK s \in Seq(Names), e \in Names : p = Append(s, e)
    BY SequenceEmptyOrAppend
  <1>2. Front(p) = s /\ Last(p) = e /\ IsPrefix(s, p) /\ ~IsPrefix(p, s)
    BY <1>1, FrontOfAppend
  <1> QED
    BY <1>1, <1>2, PrefixOfItself

(* What lies below a path: the path, and what follows it.                  *)
(* Below a path lie the paths that continue it ...                         *)
LEMMA BelowConcat ==
    ASSUME NEW p \in Seq(Names), NEW r \in Seq(Names)
    PROVE  /\ p \o r \in Seq(Names) /\ IsPrefix(p, p \o r)
           /\ SubSeq(p \o r, Len(p) + 1, Len(p \o r)) = r
  <1> DEFINE c == p \o r
             d == SubSeq(c, Len(p) + 1, Len(c))
  <1>1. /\ c \in Seq(Names) /\ Len(c) = Len(p) + Len(r) /\ Len(p) \in Nat /\ Len(r) \in Nat
        /\ \A i \in 1 .. Len(p) : c[i] = p[i]
        /\ \A i \in 1 .. Len(r) : c[Len(p) + i] = r[i]
    BY ConcatProperties
  <1> HIDE DEF c
  <1>2. d \in Seq(Names) /\ Len(d) = Len(r) /\ \A i \in 1 .. Len(r) : d[i] = r[i]
    BY <1>1
  <1>3. d = r
    BY <1>2, SeqEqual
  <1>4. IsPrefix(p, c)
    BY <1>1, PrefixPointwise
  <1> QED
    BY <1>1, <1>3, <1>4 DEF c

(* ... and no others.                                                      *)
LEMMA ConcatBelow ==
    ASSUME NEW p \in Seq(Names), NEW q \in Seq(Names), IsPrefix(p, q)
    PROVE  /\ SubSeq(q, Len(p) + 1, Len(q)) \in Seq(Names)
           /\ q = p \o SubSeq(q, Len(p) + 1, Len(q))
  <1> DEFINE d == SubSeq(q, Len(p) + 1, Len(q))
  <1>1. /\ Len(p) \in Nat /\ Len(q) \in Nat /\ Len(p) <= Len(q)
        /\ \A i \in 1 .. Len(p) : p[i] = q[i]
    BY PrefixPointwise
  <1>2. d \in Seq(Names) /\ Len(d) = Len(q) - Len(p) /\ \A i \in 1 .. Len(d) : d[i] = q[Len(p) + i]
    BY <1>1
  <1> HIDE DEF d
  <1>3. /\ p \o d \in Seq(Names) /\ Len(p \o d) = Len(p) + Len(d)
        /\ \A i \in 1 .. Len(p) + Len(d) : (p \o d)[i] = IF i <= Len(p) THEN p[i] ELSE d[i - Len(p)]
    BY <1>2, ConcatProperties
  <1>5. Len(p \o d) = Len(q) /\ \A i \in 1 .. Len(q) : (p \o d)[i] = q[i]
    BY <1>1, <1>2, <1>3
  <1>4. p \o d = q
    BY <1>3, <1>5, SeqEqual
  <1> QED
    BY <1>1, <1>2, <1>4 DEF d

LEMMA ConcatAppend ==
    ASSUME NEW p \in Seq(Names), NEW r \in Seq(Names), NEW x \in Names
    PROVE  Append(p \o r, x) = p \o Append(r, x)
  <1>1. /\ Append(p \o r, x) = (p \o r) \o <<x>> /\ Append(r, x) = r \o <<x>>
        /\ <<x>> \in Seq(Names) /\ p \o r \in Seq(Names)
    BY AppendIsConcat, ConcatProperties
  <1> QED
    BY <1>1, ConcatAssociative

LEMMA ConcatCancel ==
    ASSUME NEW p \in Seq(Names), NEW q \in Seq(Names), NEW r \in Seq(Names), p \o q = p \o r
    PROVE  q = r
  <1>1. SubSeq(p \o q, Len(p) + 1, Len(p \o q)) = q
    BY BelowConcat
  <1>2. SubSeq(p \o r, Len(p) + 1, Len(p \o r)) = r
    BY BelowConcat
  <1> QED
    BY <1>1, <1>2

LEMMA ConcatPrefix ==
    ASSUME NEW p \in Seq(Names), NEW q \in Seq(Names), NEW r \in Seq(Names)
    PROVE  IsPrefix(p \o q, p \o r) <=> IsPrefix(q, r)
  <1> DEFINE c == p \o q
             d == p \o r
  <1>1. /\ Len(p) \in Nat /\ Len(q) \in Nat /\ Len(r) \in Nat
        /\ c \in Seq(Names) /\ Len(c) = Len(p) + Len(q)
        /\ d \in Seq(Names) /\ Len(d) = Len(p) + Len(r)
    BY ConcatProperties
  <1>2. /\ \A i \in 1 .. Len(p) : c[i] = p[i] /\ d[i] = p[i]
        /\ \A i \in 1 .. Len(q) : c[Len(p) + i] = q[i]
        /\ \A i \in 1 .. Len(r) : d[Len(p) + i] = r[i]
    BY <1>1, ConcatProperties
  <1> HIDE DEF c, d
  <1>3. IsPrefix(c, d) <=> Len(c) <= Len(d) /\ \A i \in 1 .. Len(c) : c[i] = d[i]
    <2>1. c \in Seq(Names) /\ d \in Seq(Names)
      BY <1>1
    <2> QED
      BY ONLY <2>1, PrefixPointwise
  <1>4. IsPrefix(q, r) <=> Len(q) <= Len(r) /\ \A i \in 1 .. Len(q) : q[i] = r[i]
    BY PrefixPointwise
  <1>5. Len(c) <= Len(d) <=> Len(q) <= Len(r)
    BY ONLY <1>1
  <1>6. ASSUME Len(q) <= Len(r), \A i \in 1 .. Len(q) : q[i] = r[i], NEW i \in 1 .. Len(c)
        PROVE  c[i] = d[i]
    <2>1. CASE i <= Len(p)
      BY <1>1, <1>2, <2>1
    <2>2. CASE i > Len(p)
      <3>1. i - Len(p) \in 1 .. Len(q) /\ i - Len(p) \in 1 .. Len(r)
        BY ONLY <1>1, <1>6, <2>2
      <3>2. c[Len(p) + (i - Len(p))] = q[i - Len(p)] /\ d[Len(p) + (i - Len(p))] = r[i - Len(p)]
        BY <1>2, <3>1
      <3>3. Len(p) + (i - Len(p)) = i
        BY ONLY <1>1, <1>6
      <3> QED
        BY <1>6, <3>1, <3>2, <3>3
    <2> QED
      BY ONLY <1>1, <1>6, <2>1, <2>2
  <1>7. ASSUME Len(q) <= Len(r), \A i \in 1 .. Len(c) : c[i] = d[i], NEW i \in 1 .. Len(q)
        PROVE  q[i] = r[i]
    <2>1. Len(p) + i \in 1 .. Len(c) /\ i \in 1 .. Len(r)
      BY ONLY <1>1, <1>7
    <2> QED
      BY <1>2, <1>7, <2>1
  <1> QED
    BY <1>3, <1>4, <1>5, <1>6, <1>7 DEF c, d

-----------------------------------------------------------------------------
(* Lists of names.                                                         *)

(* Taking an entry out of a directory takes that one only.                 *)
LEMMA WithoutItems ==
    ASSUME NEW items \in Seq(Names), IsInjective(items), NEW name \in Range(items)
    PROVE  /\ Without(items, name) \in Seq(Names) /\ IsInjective(Without(items, name))
           /\ Range(Without(items, name)) = Range(items) \ {name}
  <1> DEFINE k == CHOOSE i \in DOMAIN items : items[i] = name
             w == Without(items, name)
             l == SubSeq(items, 1, k - 1)
             r == SubSeq(items, k + 1, Len(items))
  <1>1. k \in 1 .. Len(items) /\ items[k] = name /\ Len(items) \in Nat
    BY DEF Range
  <1>2. w = l \o r
    BY DEF Without, RemoveAt
  <1> HIDE DEF k
  <1>3. /\ l \in Seq(Names) /\ Len(l) = k - 1 /\ \A i \in 1 .. k - 1 : l[i] = items[i]
        /\ r \in Seq(Names) /\ Len(r) = Len(items) - k
        /\ \A i \in 1 .. Len(items) - k : r[i] = items[k + i]
    BY <1>1
  <1> HIDE DEF w, l, r
  <1>4. /\ w \in Seq(Names) /\ Len(w) = Len(items) - 1 /\ DOMAIN w = 1 .. Len(items) - 1
        /\ \A i \in 1 .. Len(items) - 1 : w[i] = IF i < k THEN items[i] ELSE items[i + 1]
    <2>1. /\ w \in Seq(Names) /\ Len(w) = Len(l) + Len(r)
          /\ \A i \in 1 .. Len(l) + Len(r) : w[i] = IF i <= Len(l) THEN l[i] ELSE r[i - Len(l)]
      BY <1>2, <1>3, ConcatProperties
    <2>2. Len(w) = Len(items) - 1 /\ DOMAIN w = 1 .. Len(items) - 1
      BY <1>1, <1>3, <2>1
    <2>3. ASSUME NEW i \in 1 .. Len(items) - 1
          PROVE  w[i] = IF i < k THEN items[i] ELSE items[i + 1]
      <3>1. CASE i < k
        <4>1. i \in 1 .. Len(l) + Len(r) /\ i <= Len(l) /\ i \in 1 .. k - 1
          BY <1>1, <1>3, <3>1
        <4>2. w[i] = l[i] /\ l[i] = items[i]
          BY ONLY <1>3, <2>1, <4>1
        <4> QED
          BY ONLY <3>1, <4>2
      <3>2. CASE i >= k
        <4>1. /\ i \in 1 .. Len(l) + Len(r) /\ ~(i <= Len(l)) /\ ~(i < k)
              /\ i - Len(l) \in 1 .. Len(items) - k /\ k + (i - Len(l)) = i + 1
          BY <1>1, <1>3, <3>2
        <4>2. w[i] = r[i - Len(l)] /\ r[i - Len(l)] = items[k + (i - Len(l))]
          BY ONLY <1>3, <2>1, <4>1
        <4> QED
          BY ONLY <4>1, <4>2
      <3> QED
        BY <1>1, <3>1, <3>2
    <2> QED
      BY <2>1, <2>2, <2>3
  <1>5. DOMAIN items = 1 .. Len(items)
    OBVIOUS
  <1>6. \A i, j \in 1 .. Len(items) : items[i] = items[j] => i = j
    BY <1>5 DEF IsInjective
  <1>7. IsInjective(w)
    BY <1>1, <1>4, <1>6, SMTT(30) DEF IsInjective
  <1>8. Range(w) \subseteq Range(items) \ {name}
    BY <1>1, <1>4, <1>5, <1>6, SMTT(30) DEF Range
  <1>9. ASSUME NEW x \in Range(items) \ {name} PROVE x \in Range(w)
    <2>1. PICK i \in 1 .. Len(items) : items[i] = x
      BY <1>5 DEF Range
    <2>2. i < k \/ i > k
      BY <1>1, <2>1
    <2>3. CASE i < k
      BY <1>1, <1>4, <2>1, <2>3, SMTT(30) DEF Range
    <2>4. CASE i > k
      <3>1. i - 1 \in DOMAIN w /\ w[i - 1] = x
        BY <1>1, <1>4, <2>1, <2>4
      <3> QED
        BY <3>1 DEF Range
    <2> QED
      BY <2>2, <2>3, <2>4
  <1> QED
    BY <1>4, <1>7, <1>8, <1>9 DEF w

(* A new entry may take any slot: the directory lists it, and all it did.  *)
LEMMA InsertItems ==
    ASSUME NEW items \in Seq(Names), IsInjective(items), NEW name \in Names,
           NEW k \in 1 .. Len(items) + 1
    PROVE  /\ InsertAt(items, k, name) \in Seq(Names)
           /\ name \notin Range(items) => IsInjective(InsertAt(items, k, name))
           /\ Range(InsertAt(items, k, name)) = Range(items) \cup {name}
  <1> DEFINE w == InsertAt(items, k, name)
             l == SubSeq(items, 1, k - 1)
             r == SubSeq(items, k, Len(items))
  <1>1. k \in 1 .. Len(items) + 1 /\ Len(items) \in Nat /\ DOMAIN items = 1 .. Len(items)
    OBVIOUS
  <1>2. /\ l \in Seq(Names) /\ Len(l) = k - 1 /\ \A i \in 1 .. k - 1 : l[i] = items[i]
        /\ r \in Seq(Names) /\ Len(r) = Len(items) - k + 1
        /\ \A i \in 1 .. Len(items) - k + 1 : r[i] = items[k + i - 1]
    BY <1>1
  <1>3. w = l \o <<name>> \o r
    BY DEF InsertAt
  <1> HIDE DEF l, r, w
  <1>4. /\ l \o <<name>> \in Seq(Names) /\ Len(l \o <<name>>) = k
        /\ \A i \in 1 .. k : (l \o <<name>>)[i] = IF i = k THEN name ELSE items[i]
    BY <1>1, <1>2, ConcatProperties
  <1>5. /\ w \in Seq(Names) /\ DOMAIN w = 1 .. Len(items) + 1
        /\ \A i \in 1 .. Len(items) + 1 :
              w[i] = IF i = k THEN name ELSE IF i < k THEN items[i] ELSE items[i - 1]
    <2> DEFINE m == l \o <<name>>
    <2> HIDE DEF m
    <2>1. /\ w \in Seq(Names) /\ Len(w) = Len(m) + Len(r)
          /\ \A i \in 1 .. Len(m) + Len(r) : w[i] = IF i <= Len(m) THEN m[i] ELSE r[i - Len(m)]
      BY <1>2, <1>3, <1>4, ConcatProperties, ZenonT(40) DEF m
    <2>2. Len(m) = k /\ Len(w) = Len(items) + 1 /\ DOMAIN w = 1 .. Len(items) + 1
      <3>1. Len(m) = k /\ Len(r) = Len(items) - k + 1
        BY <1>2, <1>4 DEF m
      <3>2. Len(w) = Len(items) + 1
        BY ONLY <1>1, <2>1, <3>1
      <3> QED
        BY <2>1, <3>1, <3>2
    <2>3. ASSUME NEW i \in 1 .. Len(items) + 1, i > k PROVE w[i] = items[i - 1]
      <3>1. i - k \in 1 .. Len(items) - k + 1 /\ k + (i - k) - 1 = i - 1
        BY <1>1, <2>3
      <3> QED
        BY <1>1, <1>2, <2>1, <2>2, <2>3, <3>1
    <2>4. ASSUME NEW i \in 1 .. Len(items) + 1, i <= k
          PROVE  w[i] = IF i = k THEN name ELSE items[i]
      <3>1. i \in 1 .. Len(m) + Len(r) /\ i <= Len(m) /\ i \in 1 .. k
        BY <1>1, <1>2, <2>2, <2>4
      <3>2. w[i] = m[i]
        BY ONLY <2>1, <3>1
      <3> QED
        BY <1>4, <3>1, <3>2 DEF m
    <2> QED
      BY <1>1, <2>1, <2>2, <2>3, <2>4
  <1>6. \A i, j \in 1 .. Len(items) : items[i] = items[j] => i = j
    BY <1>1 DEF IsInjective
  <1>7. name \notin Range(items) => IsInjective(w)
    BY <1>1, <1>5, <1>6, SMTT(30) DEF IsInjective, Range
  <1>8. Range(w) \subseteq Range(items) \cup {name}
    BY <1>1, <1>5 DEF Range
  <1>9. name \in Range(w)
    BY <1>1, <1>5 DEF Range
  <1>10. ASSUME NEW x \in Range(items) PROVE x \in Range(w)
    <2>1. PICK i \in 1 .. Len(items) : items[i] = x
      BY <1>1 DEF Range
    <2>2. CASE i < k
      <3>1. i \in DOMAIN w /\ w[i] = x
        BY <1>1, <1>5, <2>1, <2>2
      <3> QED
        BY <3>1 DEF Range
    <2>3. CASE i >= k
      <3>1. i + 1 \in DOMAIN w /\ w[i + 1] = x
        BY <1>1, <1>5, <2>1, <2>3
      <3> QED
        BY <3>1 DEF Range
    <2> QED
      BY <1>1, <2>1, <2>2, <2>3
  <1> QED
    BY <1>5, <1>7, <1>8, <1>9, <1>10 DEF w

-----------------------------------------------------------------------------
(* Trees.                                                                  *)

Shape(t, p) ==
    /\ p \in Seq(Names) /\ t[p] \in Nodes
    /\ Range(t[p].items) = {name \in Names : Append(p, name) \in DOMAIN t}
    /\ IsInjective(t[p].items)

Rooted(t, p) == \A q \in Seq(Names) : IsPrefix(q, p) /\ q # p => Kind(t, q) = "dir"

(* IsTree, with the directories above a path as its prefixes.              *)
LEMMA TreeIs ==
    ASSUME NEW t
    PROVE  IsTree(t) <=> /\ <<>> \in DOMAIN t
                         /\ \A p \in DOMAIN t : Shape(t, p) /\ Rooted(t, p)
  <1>1. ASSUME NEW p \in Seq(Names)
        PROVE  Rooted(t, p) <=> \A n \in 0 .. Len(p) - 1 : Kind(t, SubSeq(p, 1, n)) = "dir"
    <2>1. ASSUME Rooted(t, p), NEW n \in 0 .. Len(p) - 1
          PROVE  Kind(t, SubSeq(p, 1, n)) = "dir"
      <3> DEFINE q == SubSeq(p, 1, n)
      <3>1. q \in Seq(Names) /\ Len(q) = n /\ \A i \in 1 .. n : q[i] = p[i]
        OBVIOUS
      <3>2. n <= Len(p) /\ n # Len(p)
        OBVIOUS
      <3> HIDE DEF q
      <3>3. IsPrefix(q, p) /\ q # p
        BY <3>1, <3>2, PrefixPointwise
      <3> QED
        BY <2>1, <3>1, <3>3 DEF Rooted, q
    <2>2. ASSUME \A n \in 0 .. Len(p) - 1 : Kind(t, SubSeq(p, 1, n)) = "dir",
                 NEW q \in Seq(Names), IsPrefix(q, p), q # p
          PROVE  Kind(t, q) = "dir"
      <3>1. Len(q) <= Len(p) /\ SubSeq(q, 1, Len(q)) = SubSeq(p, 1, Len(q))
        BY <2>2 DEF IsPrefix
      <3>2. SubSeq(q, 1, Len(q)) = q /\ SubSeq(p, 1, Len(p)) = p
        BY SubSeqFull
      <3>3. Len(q) \in 0 .. Len(p) - 1
        <4>1. Len(q) # Len(p)
          BY <2>2, <3>1, <3>2
        <4>2. Len(q) \in Nat /\ Len(p) \in Nat
          OBVIOUS
        <4> QED
          BY ONLY <3>1, <4>1, <4>2
      <3> QED
        BY <2>2, <3>1, <3>2, <3>3
    <2> QED
      BY <2>1, <2>2 DEF Rooted
  <1> QED
    BY <1>1 DEF IsTree, Shape

(* Everything above an entry is a directory.                               *)
LEMMA Above ==
    ASSUME NEW t, IsTree(t), NEW p \in DOMAIN t
    PROVE  /\ p \in Seq(Names)
           /\ \A q \in Seq(Names) : IsPrefix(q, p) => q \in DOMAIN t /\ (q # p => Kind(t, q) = "dir")
  BY TreeIs DEF Rooted, Shape, Kind

(* A directory lists what lies in it.                                      *)
LEMMA Children ==
    ASSUME NEW t, IsTree(t), NEW p \in DOMAIN t
    PROVE  /\ t[p] \in Nodes /\ t[p].items \in Seq(Names) /\ IsInjective(t[p].items)
           /\ Range(t[p].items) = {name \in Names : Append(p, name) \in DOMAIN t}
  BY TreeIs DEF Shape, Nodes

(* What lists nothing has nothing below it.                                *)
LEMMA Empty ==
    ASSUME NEW t, IsTree(t), NEW p \in DOMAIN t, Range(t[p].items) = {}
    PROVE  Below(t, p) = {p}
  <1> SUFFICES ASSUME NEW q \in DOMAIN t, IsPrefix(p, q), q # p PROVE FALSE
    BY Above, PrefixOfItself DEF Below
  <1> DEFINE r == SubSeq(q, Len(p) + 1, Len(q))
  <1>1. p \in Seq(Names) /\ q \in Seq(Names)
    BY Above
  <1>2. r \in Seq(Names) /\ q = p \o r
    BY <1>1, ConcatBelow
  <1> HIDE DEF r
  <1>3. r # <<>>
    BY <1>1, <1>2, ConcatEmptySeq
  <1> DEFINE x == r[1]
  <1>4. x \in Names /\ IsPrefix(<<x>>, r) /\ <<x>> \in Seq(Names)
    <2>1. Len(r) \in Nat /\ Len(r) >= 1 /\ x \in Names
      BY <1>2, <1>3, EmptySeq
    <2>2. <<x>> \in Seq(Names) /\ Len(<<x>>) = 1 /\ <<x>>[1] = r[1]
      BY <2>1
    <2>3. \A i \in 1 .. Len(<<x>>) : <<x>>[i] = r[i]
      BY <2>2
    <2>4. Len(<<x>>) <= Len(r)
      BY <2>1, <2>2
    <2>5. r \in Seq(Names) /\ <<x>> \in Seq(Names)
      BY <1>2, <2>2
    <2>6. IsPrefix(<<x>>, r)
      BY ONLY <2>3, <2>4, <2>5, PrefixPointwise
    <2> QED
      BY <2>1, <2>2, <2>6
  <1>5. IsPrefix(p \o <<x>>, q) /\ p \o <<x>> = Append(p, x) /\ p \o <<x>> \in Seq(Names)
    BY <1>1, <1>2, <1>4, ConcatPrefix, AppendIsConcat, ConcatProperties
  <1>6. Append(p, x) \in DOMAIN t
    BY <1>5, Above
  <1> QED
    BY <1>4, <1>6, Children

(* A file, and a directory that cannot be read, have nothing below.        *)
LEMMA NoDirectory ==
    ASSUME NEW t, IsTree(t), NEW p \in DOMAIN t, Kind(t, p) # "dir"
    PROVE  Range(t[p].items) = {} /\ t[p].items = <<>> /\ Below(t, p) = {p}
  <1>1. ASSUME NEW x \in Names, Append(p, x) \in DOMAIN t PROVE FALSE
    <2>1. p \in Seq(Names)
      BY Above
    <2>2. IsPrefix(p, Append(p, x)) /\ p # Append(p, x)
      BY <2>1, FrontOfAppend, PrefixOfItself
    <2> QED
      BY <1>1, <2>1, <2>2, Above
  <1>2. Range(t[p].items) = {} /\ t[p].items \in Seq(Names)
    BY <1>1, Children
  <1>3. t[p].items = <<>>
    <2> DEFINE s == t[p].items
    <2> SUFFICES ASSUME s # <<>> PROVE FALSE
      OBVIOUS
    <2>1. s \in Seq(Names) /\ Range(s) = {}
      BY <1>2
    <2> HIDE DEF s
    <2>2. Len(s) \in Nat \ {0}
      BY <2>1, EmptySeq
    <2>3. 1 \in DOMAIN s
      BY <2>1, <2>2
    <2> QED
      BY <2>1, <2>3 DEF Range
  <1> QED
    BY <1>2, <1>3, Empty

(* The subtree at a path, path by path.                                    *)
LEMMA SubtreeIs ==
    ASSUME NEW t, IsTree(t), NEW p \in Seq(Names)
    PROVE  /\ DOMAIN Subtree(t, p) = {r \in Seq(Names) : p \o r \in DOMAIN t}
           /\ \A r \in DOMAIN Subtree(t, p) : Subtree(t, p)[r] = t[p \o r]
  <1> DEFINE D == {SubSeq(q, Len(p) + 1, Len(q)) : q \in Below(t, p)}
  <1>1. D = {r \in Seq(Names) : p \o r \in DOMAIN t}
    <2>1. ASSUME NEW q \in Below(t, p)
          PROVE  /\ SubSeq(q, Len(p) + 1, Len(q)) \in Seq(Names)
                 /\ p \o SubSeq(q, Len(p) + 1, Len(q)) \in DOMAIN t
      <3>1. q \in Seq(Names) /\ IsPrefix(p, q) /\ q \in DOMAIN t
        BY Above DEF Below
      <3> QED
        BY <3>1, ConcatBelow
    <2>2. ASSUME NEW r \in Seq(Names), p \o r \in DOMAIN t PROVE r \in D
      <3>1. IsPrefix(p, p \o r) /\ SubSeq(p \o r, Len(p) + 1, Len(p \o r)) = r
        BY BelowConcat
      <3> QED
        BY <2>2, <3>1 DEF Below
    <2> QED
      BY <2>1, <2>2
  <1> QED
    BY <1>1 DEF Subtree

(* A subtree is a volume of its own, but for its root, which may be a file.*)
LEMMA SubtreeTree ==
    ASSUME NEW t, IsTree(t), NEW p \in DOMAIN t
    PROVE  IsTree(Subtree(t, p)) /\ Kind(Subtree(t, p), <<>>) = Kind(t, p)
  <1> DEFINE s == Subtree(t, p)
  <1>1. p \in Seq(Names) /\ <<>> \in Seq(Names) /\ p \o <<>> = p
    BY Above, ConcatEmptySeq
  <1>2. /\ DOMAIN s = {r \in Seq(Names) : p \o r \in DOMAIN t}
        /\ \A r \in DOMAIN s : s[r] = t[p \o r]
    BY <1>1, SubtreeIs
  <1> HIDE DEF s
  <1>3. <<>> \in DOMAIN s /\ Kind(s, <<>>) = Kind(t, p)
    BY <1>1, <1>2 DEF Kind
  <1>4. ASSUME NEW r \in DOMAIN s PROVE Shape(s, r)
    <2>1. r \in Seq(Names) /\ p \o r \in DOMAIN t /\ s[r] = t[p \o r]
      BY <1>2
    <2>2. /\ t[p \o r] \in Nodes /\ IsInjective(t[p \o r].items)
          /\ Range(t[p \o r].items) = {name \in Names : Append(p \o r, name) \in DOMAIN t}
      BY <2>1, Children
    <2>3. ASSUME NEW name \in Names
          PROVE  Append(p \o r, name) \in DOMAIN t <=> Append(r, name) \in DOMAIN s
      <3>1. Append(r, name) \in Seq(Names)
        BY <2>1, AppendProperties
      <3>2. Append(p \o r, name) = p \o Append(r, name)
        BY <1>1, <2>1, ConcatAppend
      <3> QED
        BY <1>2, <3>1, <3>2
    <2> QED
      BY <2>1, <2>2, <2>3 DEF Shape
  <1>5. ASSUME NEW r \in DOMAIN s PROVE Rooted(s, r)
    <2> SUFFICES ASSUME NEW q \in Seq(Names), IsPrefix(q, r), q # r PROVE Kind(s, q) = "dir"
      BY DEF Rooted
    <2>1. r \in Seq(Names) /\ p \o r \in DOMAIN t
      BY <1>2
    <2>2. p \o q \in Seq(Names) /\ IsPrefix(p \o q, p \o r) /\ p \o q # p \o r
      BY <1>1, <2>1, ConcatPrefix, ConcatCancel, ConcatProperties
    <2>3. p \o q \in DOMAIN t /\ Kind(t, p \o q) = "dir"
      BY <2>1, <2>2, Above
    <2> QED
      BY <1>2, <2>3 DEF Kind
  <1> QED
    BY <1>3, <1>4, <1>5, TreeIs DEF s

(* A volume without an entry and what lies below it.                       *)
LEMMA RemovedIs ==
    ASSUME NEW t, IsTree(t), NEW p \in DOMAIN t, p # <<>>
    PROVE  LET u == Removed(t, p)
           IN  /\ DOMAIN u = {q \in DOMAIN t : ~IsPrefix(p, q)}
               /\ Front(p) \in DOMAIN u /\ Kind(t, Front(p)) = "dir"
               /\ \A q \in DOMAIN u : Kind(u, q) = Kind(t, q) /\ u[q].data = t[q].data
               /\ \A q \in DOMAIN u : q # Front(p) => u[q] = t[q]
               /\ u[Front(p)] \in Nodes
               /\ IsInjective(u[Front(p)].items)
               /\ Range(u[Front(p)].items) = Range(t[Front(p)].items) \ {Last(p)}
  <1> DEFINE u == Removed(t, p)
             f == Front(p)
  <1>1. DOMAIN u = {q \in DOMAIN t : ~IsPrefix(p, q)}
    BY DEF Removed, Below
  <1>2. /\ p \in Seq(Names) /\ f \in Seq(Names) /\ Last(p) \in Names /\ p = Append(f, Last(p))
        /\ IsPrefix(f, p) /\ f # p
    BY Above, AppendOfFront
  <1>3. f \in DOMAIN t /\ Kind(t, f) = "dir" /\ ~IsPrefix(p, f)
    BY <1>2, Above, PrefixesEqual
  <1>4. /\ u[f] = [t[f] EXCEPT !.items = Without(@, Last(p))]
        /\ \A q \in DOMAIN u : q # f => u[q] = t[q]
    BY <1>1, <1>3 DEF Removed, Below
  <1>5. Last(p) \in Range(t[f].items) /\ t[f].items \in Seq(Names) /\ IsInjective(t[f].items)
        /\ t[f] \in Nodes
    <2>1. /\ t[f] \in Nodes /\ t[f].items \in Seq(Names) /\ IsInjective(t[f].items)
          /\ Range(t[f].items) = {name \in Names : Append(f, name) \in DOMAIN t}
      BY <1>3, Children
    <2> QED
      BY <1>2, <2>1
  <1> HIDE DEF u, f
  <1>6. /\ Without(t[f].items, Last(p)) \in Seq(Names)
        /\ IsInjective(Without(t[f].items, Last(p)))
        /\ Range(Without(t[f].items, Last(p))) = Range(t[f].items) \ {Last(p)}
    BY <1>5, WithoutItems
  <1>7. /\ u[f].items = Without(t[f].items, Last(p)) /\ u[f].kind = t[f].kind
        /\ u[f].data = t[f].data /\ u[f] \in Nodes
    BY <1>4, <1>5, <1>6 DEF Nodes
  <1>8. \A q \in DOMAIN u : Kind(u, q) = Kind(t, q) /\ u[q].data = t[q].data
    BY <1>1, <1>4, <1>7 DEF Kind
  <1> QED
    BY <1>1, <1>3, <1>4, <1>6, <1>7, <1>8 DEF u, f

(* Removing an entry with all below it leaves a volume.                    *)
LEMMA RemovedTree ==
    ASSUME NEW t, IsTree(t), NEW p \in DOMAIN t, p # <<>>
    PROVE  IsTree(Removed(t, p)) /\ Kind(Removed(t, p), <<>>) = Kind(t, <<>>)
  <1> DEFINE u == Removed(t, p)
             f == Front(p)
  <1>1. /\ DOMAIN u = {q \in DOMAIN t : ~IsPrefix(p, q)}
        /\ \A q \in DOMAIN u : Kind(u, q) = Kind(t, q)
        /\ \A q \in DOMAIN u : q # f => u[q] = t[q]
        /\ f \in DOMAIN u /\ u[f] \in Nodes /\ IsInjective(u[f].items)
        /\ Range(u[f].items) = Range(t[f].items) \ {Last(p)}
    BY RemovedIs
  <1>2. /\ p \in Seq(Names) /\ f \in Seq(Names) /\ Last(p) \in Names /\ p = Append(f, Last(p))
    BY Above, AppendOfFront
  <1> HIDE DEF u, f
  <1>3. <<>> \in DOMAIN u
    <2>1. <<>> \in DOMAIN t /\ <<>> \in Seq(Names) /\ IsPrefix(<<>>, p)
      BY <1>2, TreeIs, RootIsPrefix
    <2>2. ~IsPrefix(p, <<>>)
      BY <1>2, <2>1, PrefixesEqual
    <2> QED
      BY <1>1, <2>1, <2>2
  <1>4. ASSUME NEW q \in DOMAIN u PROVE Shape(u, q)
    <2>1. q \in DOMAIN t /\ q \in Seq(Names) /\ ~IsPrefix(p, q)
      BY <1>1, Above
    <2>2. ASSUME NEW x \in Names
          PROVE  Append(q, x) \in DOMAIN u <=>
                    Append(q, x) \in DOMAIN t /\ ~(q = f /\ x = Last(p))
      <3>1. Append(q, x) = p <=> q = f /\ x = Last(p)
        BY <1>2, <2>1, AppendInjective
      <3>2. IsPrefix(p, Append(q, x)) <=> Append(q, x) = p
        BY <1>2, <2>1, PrefixOfAppend
      <3> QED
        BY <1>1, <3>1, <3>2
    <2>3. /\ t[q] \in Nodes /\ IsInjective(t[q].items)
          /\ Range(t[q].items) = {name \in Names : Append(q, name) \in DOMAIN t}
      BY <2>1, Children
    <2>4. CASE q = f
      BY <1>1, <2>1, <2>2, <2>3, <2>4 DEF Shape
    <2>5. CASE q # f
      BY <1>1, <2>1, <2>2, <2>3, <2>5 DEF Shape
    <2> QED
      BY <2>4, <2>5
  <1>5. ASSUME NEW r \in DOMAIN u PROVE Rooted(u, r)
    <2> SUFFICES ASSUME NEW q \in Seq(Names), IsPrefix(q, r), q # r PROVE Kind(u, q) = "dir"
      BY DEF Rooted
    <2>1. r \in DOMAIN t /\ r \in Seq(Names) /\ ~IsPrefix(p, r)
      BY <1>1, Above
    <2>2. q \in DOMAIN t /\ Kind(t, q) = "dir"
      BY <2>1, Above
    <2>3. ~IsPrefix(p, q)
      BY <1>2, <2>1, PrefixTransitive
    <2> QED
      BY <1>1, <2>2, <2>3
  <1> QED
    BY <1>1, <1>3, <1>4, <1>5, TreeIs DEF u

(* What Added does to a volume t: at is the path of what is added.         *)
IsAdded(t, u, dir, name, at, sub) ==
    /\ dir \in DOMAIN t /\ dir \in Seq(Names) /\ at \in Seq(Names)
    /\ DOMAIN u = DOMAIN t \cup {at \o r : r \in DOMAIN sub}
    /\ \A q \in DOMAIN t : ~IsPrefix(at, q)
    /\ \A q \in DOMAIN t : Kind(u, q) = Kind(t, q) /\ u[q].data = t[q].data
    /\ \A q \in DOMAIN t : q # dir => u[q] = t[q]
    /\ u[dir] \in Nodes /\ IsInjective(u[dir].items)
    /\ Range(u[dir].items) = Range(t[dir].items) \cup {name}
    /\ \A r \in DOMAIN sub : u[at \o r] = sub[r] /\ Kind(u, at \o r) = Kind(sub, r)

(* A volume with a tree added to a directory of it.                        *)
LEMMA AddedIs ==
    ASSUME NEW t, IsTree(t), NEW dir, Kind(t, dir) = "dir", NEW name \in Names,
           Append(dir, name) \notin DOMAIN t, NEW sub, IsTree(sub),
           NEW u \in Added(t, dir, name, sub)
    PROVE  IsAdded(t, u, dir, name, Append(dir, name), sub)
  <1> DEFINE at == Append(dir, name)
             nodes == [q \in DOMAIN t \cup {at \o r : r \in DOMAIN sub} |->
                         IF q \in DOMAIN t THEN t[q] ELSE sub[SubSeq(q, Len(at) + 1, Len(q))]]
  <1>1. dir \in DOMAIN t /\ dir \in Seq(Names) /\ at \in Seq(Names)
    <2>1. dir \in DOMAIN t
      BY DEF Kind
    <2>2. dir \in Seq(Names)
      BY <2>1, Above
    <2> QED
      BY <2>1, <2>2, FrontOfAppend DEF at
  <1>2. \A q \in DOMAIN t : ~IsPrefix(at, q)
    BY <1>1, Above
  <1>3. PICK k \in 1 .. Len(t[dir].items) + 1 :
            u = [nodes EXCEPT ![dir].items = InsertAt(@, k, name)]
    BY DEF Added
  <1> HIDE DEF at
  <1>4. \A r \in DOMAIN sub : /\ r \in Seq(Names) /\ at \o r \in Seq(Names) /\ at \o r \notin DOMAIN t
                              /\ SubSeq(at \o r, Len(at) + 1, Len(at \o r)) = r
    <2> SUFFICES ASSUME NEW r \in DOMAIN sub
                 PROVE  /\ r \in Seq(Names) /\ at \o r \in Seq(Names) /\ at \o r \notin DOMAIN t
                        /\ SubSeq(at \o r, Len(at) + 1, Len(at \o r)) = r
      OBVIOUS
    <2>1. r \in Seq(Names)
      BY Above
    <2>2. /\ at \o r \in Seq(Names) /\ IsPrefix(at, at \o r)
          /\ SubSeq(at \o r, Len(at) + 1, Len(at \o r)) = r
      BY <1>1, <2>1, BelowConcat
    <2> QED
      BY <1>2, <2>1, <2>2
  <1>5. /\ DOMAIN nodes = DOMAIN t \cup {at \o r : r \in DOMAIN sub}
        /\ \A q \in DOMAIN t : nodes[q] = t[q]
        /\ \A r \in DOMAIN sub : nodes[at \o r] = sub[r]
    BY <1>4
  <1> HIDE DEF nodes
  <1>6. /\ DOMAIN u = DOMAIN nodes
        /\ u[dir] = [t[dir] EXCEPT !.items = InsertAt(@, k, name)]
        /\ \A q \in DOMAIN nodes : q # dir => u[q] = nodes[q]
    BY <1>1, <1>3, <1>5
  <1>7. /\ t[dir] \in Nodes /\ t[dir].items \in Seq(Names) /\ IsInjective(t[dir].items)
        /\ name \notin Range(t[dir].items)
    <2>1. /\ t[dir] \in Nodes /\ t[dir].items \in Seq(Names) /\ IsInjective(t[dir].items)
          /\ Range(t[dir].items) = {x \in Names : Append(dir, x) \in DOMAIN t}
      BY <1>1, Children
    <2> QED
      BY <2>1 DEF at
  <1>8. /\ InsertAt(t[dir].items, k, name) \in Seq(Names)
        /\ IsInjective(InsertAt(t[dir].items, k, name))
        /\ Range(InsertAt(t[dir].items, k, name)) = Range(t[dir].items) \cup {name}
    BY <1>7, InsertItems
  <1>9. /\ u[dir].items = InsertAt(t[dir].items, k, name) /\ u[dir].kind = t[dir].kind
        /\ u[dir].data = t[dir].data /\ u[dir] \in Nodes
    BY <1>6, <1>7, <1>8 DEF Nodes
  <1>10. \A q \in DOMAIN t : q # dir => u[q] = t[q]
    BY <1>5, <1>6
  <1>11. \A q \in DOMAIN t : Kind(u, q) = Kind(t, q) /\ u[q].data = t[q].data
    BY <1>5, <1>6, <1>9, <1>10 DEF Kind
  <1>12. \A r \in DOMAIN sub : u[at \o r] = sub[r] /\ Kind(u, at \o r) = Kind(sub, r)
    BY <1>1, <1>4, <1>5, <1>6 DEF Kind
  <1> QED
    BY <1>1, <1>2, <1>5, <1>6, <1>8, <1>9, <1>10, <1>11, <1>12 DEF IsAdded, at

(* Adding a subtree leaves a volume.                                       *)
LEMMA AddedTree ==
    ASSUME NEW t, IsTree(t), NEW dir, Kind(t, dir) = "dir", NEW name \in Names,
           Append(dir, name) \notin DOMAIN t, NEW sub, IsTree(sub),
           NEW u \in Added(t, dir, name, sub)
    PROVE  IsTree(u)
  <1> DEFINE at == Append(dir, name)
  <1> HIDE DEF at
  <1>1. IsAdded(t, u, dir, name, at, sub)
    BY AddedIs DEF at
  <1> USE DEF IsAdded
  <1>2. \A q \in Seq(Names), x \in Names : at = Append(q, x) <=> q = dir /\ x = name
    BY <1>1, AppendInjective DEF at
  <1>3. /\ <<>> \in DOMAIN sub /\ at \o <<>> = at /\ <<>> \in Seq(Names)
        /\ at \in DOMAIN u /\ <<>> \in DOMAIN t
    BY <1>1, TreeIs, ConcatEmptySeq, EmptySeq
  <1>4. \A q \in Seq(Names) : IsPrefix(q, at) <=> IsPrefix(q, dir) \/ q = at
    BY <1>1, PrefixOfAppend DEF at
  <1>5. \A r \in Seq(Names) : at \o r \in DOMAIN u => r \in DOMAIN sub
    <2> SUFFICES ASSUME NEW r \in Seq(Names), at \o r \in DOMAIN u PROVE r \in DOMAIN sub
      OBVIOUS
    <2>1. IsPrefix(at, at \o r)
      BY <1>1, BelowConcat
    <2>2. PICK s \in DOMAIN sub : at \o r = at \o s
      BY <1>1, <2>1
    <2>3. s \in Seq(Names)
      BY Above
    <2> QED
      BY <1>1, <2>2, <2>3, ConcatCancel
  <1>6. ASSUME NEW q \in DOMAIN t PROVE Shape(u, q) /\ Rooted(u, q)
    <2>1. /\ q \in Seq(Names) /\ t[q] \in Nodes /\ IsInjective(t[q].items)
          /\ Range(t[q].items) = {x \in Names : Append(q, x) \in DOMAIN t}
      BY Above, Children
    <2>2. ASSUME NEW x \in Names
          PROVE  Append(q, x) \in DOMAIN u <=>
                    Append(q, x) \in DOMAIN t \/ (q = dir /\ x = name)
      <3>1. Append(q, x) \in Seq(Names)
        BY <2>1, AppendProperties
      <3>2. ASSUME NEW r \in DOMAIN sub, Append(q, x) = at \o r PROVE q = dir /\ x = name
        <4>1. r \in Seq(Names)
          BY Above
        <4>2. IsPrefix(at, Append(q, x))
          BY <1>1, <3>2, <4>1, BelowConcat
        <4>3. IsPrefix(at, q) \/ at = Append(q, x)
          BY <1>1, <2>1, <4>2, PrefixOfAppend
        <4> QED
          BY <1>1, <1>2, <2>1, <4>3
      <3>3. q = dir /\ x = name => Append(q, x) \in DOMAIN u
        BY <1>3 DEF at
      <3> QED
        BY <1>1, <3>2, <3>3
    <2>3. Shape(u, q)
      <3>1. CASE q = dir
        BY <1>1, <2>1, <2>2, <3>1 DEF Shape
      <3>2. CASE q # dir
        BY <1>1, <2>1, <2>2, <3>2 DEF Shape
      <3> QED
        BY <3>1, <3>2
    <2>4. Rooted(u, q)
      BY <1>1, Above DEF Rooted
    <2> QED
      BY <2>3, <2>4
  <1>7. ASSUME NEW r \in DOMAIN sub PROVE Shape(u, at \o r) /\ Rooted(u, at \o r)
    <2>1. /\ r \in Seq(Names) /\ sub[r] \in Nodes /\ IsInjective(sub[r].items)
          /\ Range(sub[r].items) = {x \in Names : Append(r, x) \in DOMAIN sub}
      BY Above, Children
    <2>2. at \o r \in Seq(Names) /\ IsPrefix(at, at \o r)
      BY <1>1, <2>1, BelowConcat
    <2>3. ASSUME NEW x \in Names
          PROVE  Append(at \o r, x) \in DOMAIN u <=> Append(r, x) \in DOMAIN sub
      <3>1. Append(r, x) \in Seq(Names)
        BY <2>1, AppendProperties
      <3>2. Append(at \o r, x) = at \o Append(r, x)
        BY <1>1, <2>1, ConcatAppend
      <3> QED
        BY <1>1, <1>5, <3>1, <3>2
    <2>4. Shape(u, at \o r)
      BY <1>1, <2>1, <2>2, <2>3 DEF Shape
    <2>5. ASSUME NEW q \in Seq(Names), IsPrefix(q, at \o r), q # at \o r PROVE Kind(u, q) = "dir"
      <3>1. IsPrefix(q, at) \/ IsPrefix(at, q)
        BY <1>1, <2>2, <2>5, PrefixesComparable
      <3>2. CASE IsPrefix(q, dir)
        <4>1. q \in DOMAIN t /\ Kind(t, q) = "dir"
          BY <1>1, <3>2, Above
        <4> QED
          BY <1>1, <4>1
      <3>3. CASE IsPrefix(at, q)
        <4> DEFINE s == SubSeq(q, Len(at) + 1, Len(q))
        <4>1. s \in Seq(Names) /\ q = at \o s
          BY <1>1, <3>3, ConcatBelow
        <4> HIDE DEF s
        <4>2. IsPrefix(s, r) /\ s # r
          BY <1>1, <2>1, <2>5, <4>1, ConcatPrefix
        <4>3. s \in DOMAIN sub /\ Kind(sub, s) = "dir"
          BY <4>1, <4>2, Above
        <4> QED
          BY <1>1, <4>1, <4>3
      <3>4. IsPrefix(at, at)
        BY <1>1, PrefixOfItself
      <3> QED
        BY <1>4, <3>1, <3>2, <3>3, <3>4
    <2> QED
      BY <2>4, <2>5 DEF Rooted
  <1> QED
    BY <1>1, <1>3, <1>6, <1>7, TreeIs

(* One node alone is a tree.                                               *)
LEMMA NodeTree ==
    ASSUME NEW kind \in {"file", "dir", "broken"}
    PROVE  /\ IsTree(Alone(kind))
           /\ DOMAIN Alone(kind) = {<<>>} /\ Kind(Alone(kind), <<>>) = kind
  <1> DEFINE t == Alone(kind)
  <1>1. DOMAIN t = {<<>>} /\ t[<<>>] = Node(kind) /\ t[<<>>].kind = kind
    BY DEF Alone, Node
  <1> HIDE DEF t
  <1>2. <<>> \in Seq(Names) /\ <<>> \in Seq(Content) /\ Node(kind) \in Nodes
    BY DEF Node, Nodes
  <1>3. Range(<<>>) = {} /\ IsInjective(<<>>)
    BY DEF Range, IsInjective
  <1>4. Shape(t, <<>>)
    <2>1. \A x \in Names : Append(<<>>, x) \notin DOMAIN t
      BY <1>1, AppendProperties
    <2>2. t[<<>>].items = <<>>
      BY <1>1 DEF Node
    <2> QED
      BY <1>1, <1>2, <1>3, <2>1, <2>2 DEF Shape
  <1>5. Rooted(t, <<>>)
    BY RootIsPrefix, PrefixesEqual DEF Rooted
  <1> QED
    BY <1>1, <1>4, <1>5, TreeIs DEF t, Kind

(* A file is longer.                                                       *)
LEMMA WrittenTree ==
    ASSUME NEW t, IsTree(t), NEW p, NEW units \in Seq(Content)
    PROVE  /\ IsTree(Written(t, p, units)) /\ DOMAIN Written(t, p, units) = DOMAIN t
           /\ \A q \in DOMAIN t : /\ q # p => Written(t, p, units)[q] = t[q]
                                  /\ Kind(Written(t, p, units), q) = Kind(t, q)
                                  /\ Written(t, p, units)[q].items = t[q].items
  <1> DEFINE u == Written(t, p, units)
  <1>1. /\ DOMAIN u = DOMAIN t
        /\ \A q \in DOMAIN t : q # p => u[q] = t[q]
        /\ p \in DOMAIN t => u[p] = [t[p] EXCEPT !.data = @ \o units]
    BY DEF Written
  <1> HIDE DEF u
  <1>2. ASSUME p \in DOMAIN t
        PROVE  u[p] \in Nodes /\ u[p].items = t[p].items /\ u[p].kind = t[p].kind
    <2>1. t[p] \in Nodes
      BY <1>2, Children
    <2>2. t[p].data \o units \in Seq(Content)
      BY <2>1 DEF Nodes
    <2> QED
      BY <1>1, <1>2, <2>1, <2>2 DEF Nodes
  <1>3. \A q \in DOMAIN t : u[q] \in Nodes /\ u[q].items = t[q].items /\ Kind(u, q) = Kind(t, q)
    BY <1>1, <1>2, Children DEF Kind
  <1>4. \A q : Kind(u, q) = Kind(t, q)
    BY <1>1, <1>3 DEF Kind
  <1>5. \A q \in DOMAIN u : Shape(u, q) /\ Rooted(u, q)
    BY <1>1, <1>3, <1>4, TreeIs DEF Shape, Rooted
  <1> QED
    BY <1>1, <1>3, <1>5, TreeIs DEF u

(* A directory that could not be read is emptied.                          *)
LEMMA RepairedTree ==
    ASSUME NEW t, IsTree(t), NEW p \in DOMAIN t, Kind(t, p) = "broken"
    PROVE  LET u == [t EXCEPT ![p] = Node("dir")]
           IN  /\ IsTree(u) /\ DOMAIN u = DOMAIN t
               /\ \A q \in DOMAIN t : q # p => Kind(u, q) = Kind(t, q)
               /\ Kind(u, p) = "dir"
  <1> DEFINE u == [t EXCEPT ![p] = Node("dir")]
  <1>1. /\ DOMAIN u = DOMAIN t /\ u[p] = Node("dir") /\ u[p].items = <<>>
        /\ \A q \in DOMAIN t : q # p => u[q] = t[q]
    BY DEF Node
  <1> HIDE DEF u
  <1>2. /\ Range(t[p].items) = {name \in Names : Append(p, name) \in DOMAIN t}
        /\ Range(t[p].items) = {} /\ t[p].items = <<>> /\ p \in Seq(Names)
    <2>1. Range(t[p].items) = {} /\ t[p].items = <<>>
      BY NoDirectory
    <2> QED
      BY <2>1, Children, Above
  <1>3. Node("dir") \in Nodes /\ IsInjective(<<>>)
    BY DEF Node, Nodes, IsInjective
  <1>4. /\ \A q \in DOMAIN t : q # p => Kind(u, q) = Kind(t, q)
        /\ Kind(u, p) = "dir"
    BY <1>1 DEF Kind, Node
  <1>5. ASSUME NEW q \in DOMAIN u PROVE Shape(u, q)
    <2>1. CASE q = p
      BY <1>1, <1>2, <1>3, <2>1 DEF Shape
    <2>2. CASE q # p
      <3>1. Shape(t, q)
        BY <1>1, TreeIs
      <3> QED
        BY <1>1, <2>2, <3>1 DEF Shape
    <2> QED
      BY <2>1, <2>2
  <1>6. ASSUME NEW r \in DOMAIN u PROVE Rooted(u, r)
    <2> SUFFICES ASSUME NEW q \in Seq(Names), IsPrefix(q, r), q # r PROVE Kind(u, q) = "dir"
      BY DEF Rooted
    <2>1. q \in DOMAIN t /\ Kind(t, q) = "dir"
      BY <1>1, Above
    <2> QED
      BY <1>4, <2>1
  <1> QED
    BY <1>1, <1>4, <1>5, <1>6, TreeIs DEF u

(* Where no path and no node differs, the subtree is the same.             *)
LEMMA SubtreeSame ==
    ASSUME NEW t, IsTree(t), NEW u, IsTree(u), NEW p \in Seq(Names),
           \A q \in Seq(Names) : IsPrefix(p, q) =>
                (q \in DOMAIN u <=> q \in DOMAIN t) /\ (q \in DOMAIN t => u[q] = t[q])
    PROVE  Subtree(u, p) = Subtree(t, p)
  <1>1. \A r \in Seq(Names) : /\ p \o r \in DOMAIN u <=> p \o r \in DOMAIN t
                              /\ p \o r \in DOMAIN t => u[p \o r] = t[p \o r]
    BY BelowConcat
  <1>2. /\ DOMAIN Subtree(t, p) = {r \in Seq(Names) : p \o r \in DOMAIN t}
        /\ \A r \in DOMAIN Subtree(t, p) : Subtree(t, p)[r] = t[p \o r]
    BY SubtreeIs
  <1>3. /\ DOMAIN Subtree(u, p) = {r \in Seq(Names) : p \o r \in DOMAIN u}
        /\ \A r \in DOMAIN Subtree(u, p) : Subtree(u, p)[r] = u[p \o r]
    BY SubtreeIs
  <1>4. DOMAIN Subtree(t, p) = DOMAIN Subtree(u, p)
    BY <1>1, <1>2, <1>3
  <1>5. \A r \in DOMAIN Subtree(t, p) : Subtree(t, p)[r] = Subtree(u, p)[r]
    BY <1>1, <1>2, <1>3, <1>4
  <1>6. /\ Subtree(t, p) = [r \in DOMAIN Subtree(t, p) |-> Subtree(t, p)[r]]
        /\ Subtree(u, p) = [r \in DOMAIN Subtree(u, p) |-> Subtree(u, p)[r]]
    BY DEF Subtree
  <1> QED
    BY <1>4, <1>5, <1>6

(* An entry moves with all that lies below it.                             *)
LEMMA RenamedTree ==
    ASSUME NEW t, IsVolume(t), NEW from \in DOMAIN t, from # <<>>,
           NEW dir, Kind(t, dir) = "dir", ~IsPrefix(from, dir), NEW name \in Names,
           Append(dir, name) \notin DOMAIN t,
           NEW u \in Added(Removed(t, from), dir, name, Subtree(t, from))
    PROVE  /\ IsVolume(u)
           /\ \A p \in DOMAIN t : ~IsPrefix(from, p) => p \in DOMAIN u /\ Kind(u, p) = Kind(t, p)
           /\ from \notin DOMAIN u
           /\ Append(dir, name) \in DOMAIN u /\ Subtree(u, Append(dir, name)) = Subtree(t, from)
  <1> DEFINE v == Removed(t, from)
             s == Subtree(t, from)
             at == Append(dir, name)
  <1>1. /\ IsTree(t) /\ from \in Seq(Names) /\ dir \in DOMAIN t /\ dir \in Seq(Names)
        /\ at \in Seq(Names) /\ at \notin DOMAIN t
    <2>1. IsTree(t) /\ from \in Seq(Names) /\ dir \in DOMAIN t
      BY Above DEF IsVolume, Kind
    <2>2. dir \in Seq(Names)
      BY <2>1, Above
    <2> QED
      BY <2>1, <2>2, AppendProperties
  <1>2. IsTree(v) /\ IsTree(s) /\ Kind(v, <<>>) = Kind(t, <<>>)
    BY <1>1, RemovedTree, SubtreeTree
  <1>3. /\ DOMAIN v = {q \in DOMAIN t : ~IsPrefix(from, q)}
        /\ \A q \in DOMAIN v : Kind(v, q) = Kind(t, q)
    BY <1>1, RemovedIs
  <1>4. Kind(v, dir) = "dir" /\ at \notin DOMAIN v
    BY <1>1, <1>3
  <1> HIDE DEF v, s
  <1>5. IsTree(u) /\ IsAdded(v, u, dir, name, at, s)
    BY <1>2, <1>4, AddedTree, AddedIs DEF v, s
  <1> HIDE DEF at
  <1>6. /\ DOMAIN u = DOMAIN v \cup {at \o r : r \in DOMAIN s}
        /\ \A q \in DOMAIN v : Kind(u, q) = Kind(v, q)
        /\ \A r \in DOMAIN s : u[at \o r] = s[r]
        /\ \A q \in DOMAIN v : ~IsPrefix(at, q)
    BY <1>5 DEF IsAdded
  <1>7. <<>> \in DOMAIN v /\ <<>> \in DOMAIN s /\ at \o <<>> = at
    BY <1>1, <1>2, TreeIs, ConcatEmptySeq
  <1>8. IsVolume(u) /\ at \in DOMAIN u
    BY <1>2, <1>5, <1>6, <1>7 DEF IsVolume
  <1>9. from \notin DOMAIN u
    <2>1. from \notin DOMAIN v
      BY <1>1, <1>3, PrefixOfItself
    <2>2. ASSUME NEW r \in DOMAIN s, from = at \o r PROVE FALSE
      <3>1. r \in Seq(Names)
        BY <1>2, Above
      <3>2. IsPrefix(at, from)
        BY <1>1, <2>2, <3>1, BelowConcat
      <3> QED
        BY <1>1, <3>2, Above
    <2> QED
      BY <1>6, <2>1, <2>2
  <1>10. Subtree(u, at) = s
    <2>1. /\ DOMAIN Subtree(u, at) = {r \in Seq(Names) : at \o r \in DOMAIN u}
          /\ \A r \in DOMAIN Subtree(u, at) : Subtree(u, at)[r] = u[at \o r]
      BY <1>1, <1>5, SubtreeIs
    <2>2. DOMAIN s \subseteq Seq(Names)
      BY <1>2, Above
    <2>3. ASSUME NEW r \in Seq(Names) PROVE at \o r \in DOMAIN u <=> r \in DOMAIN s
      <3>1. at \o r \notin DOMAIN v
        BY <1>1, <1>6, BelowConcat
      <3>2. ASSUME NEW q \in DOMAIN s, at \o r = at \o q PROVE r \in DOMAIN s
        BY <1>1, <2>2, <3>2, ConcatCancel
      <3> QED
        BY <1>6, <3>1, <3>2
    <2>4. DOMAIN Subtree(u, at) = DOMAIN s /\ \A r \in DOMAIN s : Subtree(u, at)[r] = s[r]
      BY <1>6, <2>1, <2>2, <2>3
    <2>5. /\ s = [r \in DOMAIN s |-> s[r]]
          /\ Subtree(u, at) = [r \in DOMAIN Subtree(u, at) |-> Subtree(u, at)[r]]
      BY DEF Subtree, s
    <2> QED
      BY <2>4, <2>5
  <1>11. \A p \in DOMAIN t : ~IsPrefix(from, p) => p \in DOMAIN u /\ Kind(u, p) = Kind(t, p)
    BY <1>3, <1>6
  <1> QED
    BY <1>8, <1>9, <1>10, <1>11 DEF at, s

-----------------------------------------------------------------------------
(* What a change of the card comes to.                                     *)

(* A change succeeds only with what it was to do; a failed one leaves that or nothing.*)
LEMMA AttemptIs ==
    ASSUME NEW allowed, NEW done, NEW r \in Attempt(allowed, done)
    PROVE  /\ r.tree = tree \/ (allowed /\ r.tree \in done)
           /\ r.ok => allowed /\ r.tree \in done
  BY DEF Attempt

LEMMA CreateIs ==
    ASSUME NEW dir, NEW name, NEW kind, NEW r \in Create(dir, name, kind)
    PROVE  /\ r.tree = tree \/ r.tree \in Added(tree, dir, name, Alone(kind))
           /\ r.ok => r.tree \in Added(tree, dir, name, Alone(kind))
  BY AttemptIs DEF Create

LEMMA RenameIs ==
    ASSUME NEW from, NEW dir, NEW name, NEW r \in Rename(from, dir, name)
    PROVE  LET moved == /\ ~IsPrefix(from, dir)
                        /\ r.tree \in Added(Removed(tree, from), dir, name, Subtree(tree, from))
           IN  (r.tree = tree \/ moved) /\ (r.ok => moved)
  BY AttemptIs DEF Rename

LEMMA DeleteIs ==
    ASSUME NEW p, NEW r \in Delete(p)
    PROVE  LET deleted == /\ r.tree = Removed(tree, p)
                          /\ Kind(tree, p) # "broken" => tree[p].items = <<>>
           IN  /\ \/ r.tree = tree
                  \/ deleted
                  \/ Kind(tree, p) = "broken" /\ r.tree = [tree EXCEPT ![p] = Node("dir")] /\ ~r.ok
               /\ r.ok => deleted
  <1>1. CASE Kind(tree, p) # "broken"
    <2>1. r \in Attempt(tree[p].items = <<>>, {Removed(tree, p)})
      BY <1>1 DEF Delete
    <2> QED
      BY <1>1, <2>1 DEF Attempt
  <1>2. CASE Kind(tree, p) = "broken"
    <2>1. \/ r \in Attempt(TRUE, {Removed(tree, p)})
          \/ r = [ok |-> FALSE, tree |-> [tree EXCEPT ![p] = Node("dir")]]
      BY <1>2 DEF Delete
    <2>2. CASE r \in Attempt(TRUE, {Removed(tree, p)})
      BY <1>2, <2>2 DEF Attempt
    <2>3. CASE r = [ok |-> FALSE, tree |-> [tree EXCEPT ![p] = Node("dir")]]
      <3>1. r.tree = [tree EXCEPT ![p] = Node("dir")] /\ ~r.ok
        BY <2>3
      <3> QED
        BY <1>2, <3>1
    <2> QED
      BY <2>1, <2>2, <2>3
  <1> QED
    BY <1>1, <1>2

-----------------------------------------------------------------------------
(* The inductive invariant.                                                *)

Items    == [name : Names, directory : BOOLEAN]
Marks    == [parent : Seq(Names), name : Names, directory : BOOLEAN, moving : BOOLEAN]
Frames   == [source : Seq(Names), target : Seq(Names), next : Nat]
FileJobs == [source : Seq(Names), target : Seq(Names), name : Names, at : Nat,
             started : BOOLEAN]
Jobs     == [dirs : Seq(Frames), file : SUBSET FileJobs]

ListOK ==
    /\ cwd \in Seq(Names) /\ page \in Nat /\ page % PageLen = 0
    /\ entries \in Seq(Items) /\ Len(entries) <= PageLen
    /\ selected \in Nat /\ (entries # <<>> => selected < Len(entries))

(* Fresh even while a copy runs: what it has added it has marked lagging.  *)
Fresh ==
    ~lagging =>
        /\ Kind(tree, cwd) = "dir"
        /\ entries = FirstPage(Listed(tree, cwd, page))
        /\ more = (Len(tree[cwd].items) > page + PageLen)

DialogOK ==
    /\ (view = "delete") = (confirm # {}) /\ confirm \subseteq Names
    /\ job # {} => open /\ view = "browse"
    /\ (job = {}) = (task = {})

Follows(c) == Source(c) \in Paths /\ IsDir(tree, Source(c)) = c.directory
ClipOK == \A c \in clipboard : c \in Marks /\ (~stray => Follows(c))

(* The source and the target of a copy do not overlap.                     *)
Apart(t) ==
    /\ t.from \in Seq(Names) /\ t.to \in Seq(Names) /\ t.to # <<>>
    /\ ~IsPrefix(t.from, t.to) /\ ~IsPrefix(t.to, t.from)

(* What the job holds lies in what it was asked to copy to.                *)
JobFits(j, t) ==
    /\ j \in Jobs
    /\ \A i \in DOMAIN j.dirs :
        /\ j.dirs[i].source \in Paths
        /\ Kind(tree, j.dirs[i].target) = "dir" /\ IsPrefix(t.to, j.dirs[i].target)
    /\ \A f \in j.file : IsPrefix(t.to, Append(f.target, f.name))

JobOK == \A t \in task : Apart(t) /\ \A j \in job : JobFits(j, t)

IInv == IsVolume(tree) /\ ListOK /\ Fresh /\ DialogOK /\ ClipOK /\ JobOK

-----------------------------------------------------------------------------
(* The list.                                                               *)

(* Divisibility by a variable number.                                      *)
LEMMA Multiple ==
    ASSUME NEW n \in Int, n > 0, NEW p \in Int
    PROVE  p % n = 0 <=> \E k \in Int : p = n * k
  <1>1. p % n = 0 => \E k \in Int : p = n * k
    BY Z3
  <1>2. ASSUME NEW k \in Int, p = n * k PROVE p % n = 0
    BY <1>2, Z3
  <1> QED
    BY <1>1, <1>2

(* Turning the page keeps it at a multiple of PAGE_LEN.                    *)
LEMMA PageSteps ==
    ASSUME NEW n \in Nat \ {0}, NEW p \in Nat, p % n = 0
    PROVE  /\ 0 % n = 0 /\ (p + n) % n = 0
           /\ p > 0 => p - n \in Nat /\ (p - n) % n = 0
  <1>1. PICK k \in Int : p = n * k
    BY Multiple
  <1>2. p + n = n * (k + 1) /\ p - n = n * (k - 1)
    BY <1>1, Z3
  <1>3. p > 0 => p - n \in Nat
    BY <1>1, Z3
  <1>4. (p + n) % n = 0 /\ (p - n) % n = 0
    <2>1. p + n \in Int /\ p - n \in Int /\ k + 1 \in Int /\ k - 1 \in Int /\ n > 0
      OBVIOUS
    <2> QED
      BY <1>2, <2>1, Multiple
  <1>5. 0 % n = 0
    OBVIOUS
  <1> QED
    BY <1>3, <1>4, <1>5

LEMMA PageIs == PageLen \in Nat \ {0} /\ Chunk \in Nat \ {0} /\ Typed \subseteq Names
  BY FilesAssumption

(* What the listing holds are items of the directory, from the given one on.*)
LEMMA ListedIs ==
    ASSUME NEW t, IsTree(t), NEW d, Kind(t, d) = "dir", NEW p \in Nat
    PROVE  /\ Listed(t, d, p) \in Seq(Items)
           /\ Len(Listed(t, d, p)) = IF p < Len(t[d].items) THEN Len(t[d].items) - p ELSE 0
           /\ Len(t[d].items) \in Nat
           /\ \A i \in 1 .. Len(Listed(t, d, p)) : \E name \in Names :
                /\ Append(d, name) \in DOMAIN t
                /\ Listed(t, d, p)[i] = Item(t, d, name)
  <1> DEFINE items == t[d].items
             from  == SubSeq(items, p + 1, Len(items))
  <1>1. /\ items \in Seq(Names) /\ Len(items) \in Nat
        /\ \A i \in 1 .. Len(items) : items[i] \in Names /\ Append(d, items[i]) \in DOMAIN t
    <2>1. d \in DOMAIN t
      BY DEF Kind
    <2>2. items \in Seq(Names) /\ Range(items) = {name \in Names : Append(d, name) \in DOMAIN t}
      BY <2>1, Children
    <2>3. Len(items) \in Nat /\ DOMAIN items = 1 .. Len(items)
      BY <2>2, LenProperties
    <2> QED
      BY <2>2, <2>3 DEF Range
  <1> HIDE DEF items
  <1>2. /\ from \in Seq(Names)
        /\ Len(from) = IF p < Len(items) THEN Len(items) - p ELSE 0
        /\ \A i \in 1 .. Len(from) : from[i] = items[p + i] /\ p + i \in 1 .. Len(items)
    <2>1. p + 1 \in Int /\ p + 1 >= 1
      OBVIOUS
    <2> QED
      BY <1>1, <2>1
  <1> HIDE DEF from
  <1>3. Listed(t, d, p) = [i \in 1 .. Len(from) |-> Item(t, d, from[i])]
    BY DEF Listed, from, items
  <1>4. \A i \in 1 .. Len(from) : from[i] \in Names /\ Append(d, from[i]) \in DOMAIN t
    BY <1>1, <1>2
  <1>5. \A name \in Names : Item(t, d, name) \in Items
    BY DEF Item, Items, IsDir
  <1>6. Len(from) \in Nat
    BY <1>2, LenProperties
  <1>7. Listed(t, d, p) \in Seq(Items) /\ Len(Listed(t, d, p)) = Len(from)
    BY <1>3, <1>4, <1>5, <1>6
  <1>8. \A i \in 1 .. Len(Listed(t, d, p)) : \E name \in Names :
                /\ Append(d, name) \in DOMAIN t
                /\ Listed(t, d, p)[i] = Item(t, d, name)
    BY <1>3, <1>4, <1>7
  <1> QED
    BY <1>1, <1>2, <1>7, <1>8 DEF items

(* The page holds the first PAGE_LEN items, in order.                      *)
LEMMA FirstPageIs ==
    ASSUME NEW list \in Seq(Items)
    PROVE  /\ FirstPage(list) \in Seq(Items)
           /\ Len(FirstPage(list)) = IF Len(list) < PageLen THEN Len(list) ELSE PageLen
           /\ \A i \in 1 .. Len(FirstPage(list)) :
                i \in 1 .. Len(list) /\ FirstPage(list)[i] = list[i]
  <1>1. Len(list) \in Nat /\ PageLen \in Nat
    BY PageIs, LenProperties
  <1> DEFINE k == IF Len(list) < PageLen THEN Len(list) ELSE PageLen
  <1>2. k \in 0 .. Len(list)
    BY <1>1
  <1> HIDE DEF k
  <1>3. FirstPage(list) = SubSeq(list, 1, k)
    BY DEF FirstPage, k
  <1>4. /\ SubSeq(list, 1, k) \in Seq(Items) /\ Len(SubSeq(list, 1, k)) = k
        /\ \A i \in 1 .. k : SubSeq(list, 1, k)[i] = list[i]
    BY <1>1, <1>2
  <1> QED
    BY <1>1, <1>2, <1>3, <1>4 DEF k

(* reload leaves a list that is the directory, whatever page and selection it is given.*)
LEMMA ReloadList ==
    ASSUME IsTree(tree'), NEW d \in Seq(Names), NEW p \in Nat, p % PageLen = 0,
           NEW s \in Nat, NEW said, ReloadAt(tree', d, p, s, said)
    PROVE  ListOK' /\ Fresh'
  <1>1. PICK ok \in Reads :
        LET read == ok /\ Kind(tree', d) = "dir"
            list == IF read THEN Listed(tree', d, p) ELSE <<>>
            last == Len(FirstPage(list)) - 1
        IN  /\ cwd' = d /\ page' = p
            /\ entries' = FirstPage(list)
            /\ more' = (Len(list) > PageLen)
            /\ selected' = IF s <= last THEN s ELSE IF last < 0 THEN 0 ELSE last
            /\ report' = IF read THEN said ELSE "else"
            /\ lagging' = ~read
    BY DEF ReloadAt
  <1> DEFINE read == ok /\ Kind(tree', d) = "dir"
             list == IF read THEN Listed(tree', d, p) ELSE <<>>
             n == Len(FirstPage(list))
  <1>2. list \in Seq(Items)
    <2>1. CASE read
      BY <2>1, ListedIs
    <2>2. CASE ~read
      BY <2>2
    <2> QED
      BY <2>1, <2>2
  <1>3. /\ cwd' = d /\ page' = p
        /\ entries' = FirstPage(list)
        /\ more' = (Len(list) > PageLen)
        /\ selected' = IF s <= n - 1 THEN s ELSE IF n - 1 < 0 THEN 0 ELSE n - 1
        /\ lagging' = ~read
    BY <1>1
  <1>4. read => list = Listed(tree', d, p) /\ Kind(tree', d) = "dir"
    OBVIOUS
  <1> HIDE DEF read, list, n
  <1>5. /\ entries' \in Seq(Items) /\ Len(list) \in Nat /\ Len(entries') = n /\ n \in Nat
        /\ n <= PageLen
    BY <1>2, <1>3, FirstPageIs, LenProperties, PageIs DEF n
  <1>6. selected' \in Nat /\ (n # 0 => selected' < n)
    BY <1>3, <1>5
  <1>7. ListOK'
    <2>1. entries' # <<>> => n # 0
      BY <1>5, EmptySeq
    <2> QED
      BY <1>3, <1>5, <1>6, <2>1 DEF ListOK
  <1>8. ASSUME ~lagging' PROVE more' = (Len(tree'[cwd'].items) > page' + PageLen)
    <2>1. read
      BY <1>3, <1>8 DEF read
    <2>2. /\ Len(list) = IF p < Len(tree'[d].items) THEN Len(tree'[d].items) - p ELSE 0
          /\ Len(tree'[d].items) \in Nat
      BY <1>4, <2>1, ListedIs
    <2>3. PageLen \in Nat
      BY PageIs
    <2>4. (Len(list) > PageLen) = (Len(tree'[d].items) > p + PageLen)
      BY <2>2, <2>3
    <2> QED
      BY <1>3, <2>4
  <1>9. Fresh'
    <2>1. ASSUME ~lagging' PROVE read
      BY <1>3, <2>1 DEF read
    <2> QED
      BY <1>3, <1>4, <1>8, <2>1 DEF Fresh
  <1> QED
    BY <1>7, <1>9

(* The selected item names what the list shows.                            *)
LEMMA SelectedIs ==
    ASSUME IInv, NEW item \in SelectedItem
    PROVE  /\ item \in Items /\ item.name \in Names /\ item.directory \in BOOLEAN
           /\ ~lagging => /\ Append(cwd, item.name) \in Paths
                          /\ IsDir(tree, Append(cwd, item.name)) = item.directory
  <1>1. PICK i \in DOMAIN entries : item = entries[i]
    BY DEF SelectedItem
  <1>2. entries \in Seq(Items) /\ DOMAIN entries = 1 .. Len(entries) /\ page \in Nat
    BY LenProperties DEF IInv, ListOK
  <1>3. item \in Items
    BY <1>1, <1>2
  <1>4. ASSUME ~lagging
        PROVE  /\ Append(cwd, item.name) \in Paths
               /\ IsDir(tree, Append(cwd, item.name)) = item.directory
    <2> DEFINE list == Listed(tree, cwd, page)
    <2>1. IsTree(tree) /\ Kind(tree, cwd) = "dir" /\ entries = FirstPage(list)
      BY <1>4 DEF IInv, Fresh, IsVolume
    <2>2. /\ list \in Seq(Items)
          /\ \A k \in 1 .. Len(list) : \E name \in Names :
                Append(cwd, name) \in DOMAIN tree /\ list[k] = Item(tree, cwd, name)
      BY <1>2, <2>1, ListedIs
    <2> HIDE DEF list
    <2>3. i \in 1 .. Len(list) /\ entries[i] = list[i]
      BY <1>1, <1>2, <2>1, <2>2, FirstPageIs
    <2>4. PICK name \in Names : Append(cwd, name) \in DOMAIN tree /\ list[i] = Item(tree, cwd, name)
      BY <2>2, <2>3
    <2>5. item.name = name /\ item.directory = IsDir(tree, Append(cwd, name))
      BY <1>1, <2>3, <2>4 DEF Item
    <2> QED
      BY <2>4, <2>5 DEF Paths
  <1> QED
    BY <1>3, <1>4 DEF Items

(* A list that is not read again stays right as long as nothing changed, or says so.*)
LEMMA KeptList ==
    ASSUME ListOK, Fresh, UNCHANGED listing, ~lagging' => ~lagging /\ tree' = tree
    PROVE  ListOK' /\ Fresh'
  <1>1. ListOK'
    BY DEF ListOK, listing
  <1>2. ASSUME ~lagging'
        PROVE  /\ Kind(tree', cwd') = "dir"
               /\ entries' = FirstPage(Listed(tree', cwd', page'))
               /\ more' = (Len(tree'[cwd'].items) > page' + PageLen)
    BY <1>2 DEF Fresh, listing
  <1> QED
    BY <1>1, <1>2 DEF Fresh

LEMMA ReloadHere ==
    ASSUME IInv, IsVolume(tree'), NEW said, Reload(said)
    PROVE  ListOK' /\ Fresh'
  <1>1. /\ IsTree(tree') /\ cwd \in Seq(Names) /\ page \in Nat /\ page % PageLen = 0
        /\ selected \in Nat
    BY DEF IInv, ListOK, IsVolume
  <1>2. ReloadAt(tree', cwd, page, selected, said)
    BY DEF Reload
  <1> QED
    BY <1>1, <1>2, ReloadList

LEMMA ReloadThere ==
    ASSUME IInv, UNCHANGED tree, NEW d \in Seq(Names), NEW p \in Nat, p % PageLen = 0, NEW said,
           ReloadAt(tree, d, p, 0, said)
    PROVE  ListOK' /\ Fresh'
  <1>1. IsTree(tree') /\ ReloadAt(tree', d, p, 0, said)
    <2>1. tree' = tree
      OBVIOUS
    <2>2. IsTree(tree)
      BY DEF IInv, IsVolume
    <2> QED
      BY <2>1, <2>2
  <1> QED
    BY <1>1, ReloadList

(* Every step leaves the list right or says that it is not.                *)
LEMMA ListStep ==
    ASSUME IInv, IsVolume(tree'), [Next]_vars
    PROVE  ListOK' /\ Fresh'
  <1>1. ListOK /\ Fresh /\ cwd \in Seq(Names) /\ page \in Nat /\ page % PageLen = 0
    BY DEF IInv, ListOK
  <1>2. /\ 0 % PageLen = 0 /\ page + PageLen \in Nat /\ (page + PageLen) % PageLen = 0
        /\ page > 0 => page - PageLen \in Nat /\ (page - PageLen) % PageLen = 0
    <2>1. PageLen \in Nat \ {0}
      BY PageIs
    <2>2. page + PageLen \in Nat
      BY ONLY <1>1, <2>1
    <2> QED
      BY ONLY <1>1, <2>1, <2>2, PageSteps, Zenon
  <1>3. CASE Start
    <2>1. UNCHANGED tree /\ ReloadAt(tree, <<>>, 0, 0, "else")
      BY <1>3 DEF Start
    <2>2. <<>> \in Seq(Names) /\ 0 \in Nat
      BY EmptySeq
    <2> QED
      BY <1>2, <2>1, <2>2, ReloadThere
  <1>4. CASE Drop
    <2>1. /\ cwd' = <<>> /\ page' = 0 /\ selected' = 0 /\ entries' = <<>> /\ lagging' = TRUE
      BY <1>4 DEF Drop, Clear
    <2>2. PageLen \in Nat
      BY PageIs
    <2>3. <<>> \in Seq(Items) /\ Len(<<>>) = 0 /\ <<>> \in Seq(Names)
      BY EmptySeq
    <2>4. ListOK'
      BY <1>2, <2>1, <2>2, <2>3 DEF ListOK
    <2> QED
      BY <2>1, <2>4 DEF Fresh
  <1>5. CASE Return
    BY <1>1, <1>5, KeptList DEF Return, history
  <1>6. CASE Move
    <2>1. /\ selected' \in 0 .. Len(entries) - 1
          /\ UNCHANGED <<tree, cwd, page, entries, more, lagging>>
      BY <1>6 DEF Move
    <2>2. entries \in Seq(Items) /\ Len(entries) \in Nat
      BY LenProperties DEF IInv, ListOK
    <2>3. selected' \in Nat /\ selected' < Len(entries')
      BY <2>1, <2>2
    <2>4. ListOK'
      BY <1>1, <2>1, <2>3 DEF ListOK
    <2>5. Fresh'
      BY <1>1, <2>1 DEF Fresh
    <2> QED
      BY <2>4, <2>5
  <1>7. CASE Turn
    <2>1. UNCHANGED tree
      BY <1>7 DEF Turn
    <2>2. CASE page > 0 /\ ReloadAt(tree, cwd, page - PageLen, 0, report)
      BY <1>1, <1>2, <2>1, <2>2, ReloadThere
    <2>3. CASE more /\ ReloadAt(tree, cwd, page + PageLen, 0, report)
      BY <1>1, <1>2, <2>1, <2>3, ReloadThere
    <2> QED
      BY <1>7, <2>2, <2>3 DEF Turn
  <1>8. CASE Enter
    <2>1. UNCHANGED tree
      BY <1>8 DEF Enter
    <2>2. PICK item \in SelectedItem :
            \/ GoTo(Append(cwd, item.name))
            \/ UNCHANGED <<listing, lagging>>
      BY <1>8 DEF Enter
    <2>3. Append(cwd, item.name) \in Seq(Names)
      BY <1>1, SelectedIs, AppendProperties
    <2>4. CASE GoTo(Append(cwd, item.name))
      <3>1. 0 \in Nat /\ ReloadAt(tree, Append(cwd, item.name), 0, 0, "else")
        BY <2>4 DEF GoTo
      <3> QED
        BY <1>2, <2>1, <2>3, <3>1, ReloadThere
    <2>5. CASE UNCHANGED <<listing, lagging>>
      BY <1>1, <2>1, <2>5, KeptList
    <2> QED
      BY <2>2, <2>4, <2>5
  <1>9. CASE Back
    <2>1. UNCHANGED tree
      BY <1>9 DEF Back
    <2>2. CASE cwd # <<>> /\ GoTo(Front(cwd))
      BY <1>1, <1>2, <2>1, <2>2, AppendOfFront, ReloadThere DEF GoTo
    <2>3. CASE UNCHANGED <<listing, lagging>>
      BY <1>1, <2>1, <2>3, KeptList
    <2> QED
      BY <1>9, <2>2, <2>3 DEF Back
  <1>10. CASE Actions \/ Cancel \/ DeletePrompt \/ (\E action \in Naming : NameInput(action))
    BY <1>1, <1>10, KeptList DEF Actions, Cancel, DeletePrompt, NameInput, history
  <1>11. CASE \E moving \in BOOLEAN : Mark(moving)
    BY <1>1, <1>11, KeptList DEF Mark
  <1>12. CASE SubmitName
    <2>1. \/ UNCHANGED <<tree, listing, lagging>>
          \/ \E name \in Typed : SubmitNew(name) \/ SubmitRename(name)
      BY <1>12 DEF SubmitName
    <2>2. CASE UNCHANGED <<tree, listing, lagging>>
      BY <1>1, <2>2, KeptList
    <2>3. ASSUME NEW name \in Typed, SubmitNew(name) \/ SubmitRename(name)
          PROVE  Reload("else") \/ KeepList
      BY <2>3 DEF SubmitNew, SubmitRename
    <2> QED
      BY <1>1, <2>1, <2>2, <2>3, KeptList, ReloadHere DEF KeepList
  <1>13. CASE ConfirmDelete
    BY <1>13, ReloadHere DEF ConfirmDelete
  <1>14. CASE Paste
    <2>1. \/ UNCHANGED <<tree, listing, lagging>>
          \/ Reload("else")
          \/ KeepList
      BY <1>14 DEF Paste, PasteMove, PasteDirectory, PasteFile
    <2>2. CASE UNCHANGED <<tree, listing, lagging>>
      BY <1>1, <2>2, KeptList
    <2>3. CASE Reload("else")
      BY <2>3, ReloadHere
    <2>4. CASE KeepList
      BY <1>1, <2>4, KeptList DEF KeepList
    <2> QED
      BY <2>1, <2>2, <2>3, <2>4
  <1>15. CASE Poll \/ PollFails
    <2>1. \/ \E said : Reload(said)
          \/ KeepList
      BY <1>15 DEF Poll, PollFails, CopyFile, CopyItem, CopyDone, EnterDirectory, Fail, Finish, Continue
    <2> QED
      BY <1>1, <2>1, KeptList, ReloadHere DEF KeepList
  <1>16. CASE UNCHANGED vars
    BY <1>1, <1>16, KeptList DEF vars, history
  <1> QED
    BY <1>3, <1>4, <1>5, <1>6, <1>7, <1>8, <1>9, <1>10, <1>11, <1>12, <1>13, <1>14, <1>15,
       <1>16 DEF Next

(* A key that acts meets no running copy.                                  *)
LEMMA DialogStep ==
    ASSUME IInv, [Next]_vars
    PROVE  DialogOK'
  <1>1. /\ (view = "delete") = (confirm # {}) /\ confirm \subseteq Names
        /\ job # {} => open /\ view = "browse"
        /\ (job = {}) = (task = {})
    BY DEF IInv, DialogOK
  <1>2. CASE Start \/ Return
    BY <1>1, <1>2 DEF Start, Return, work, DialogOK
  <1>3. CASE Drop
    BY <1>1, <1>3 DEF Drop, Clear, work, DialogOK
  <1>4. CASE Move \/ Turn \/ Enter
    BY <1>1, <1>4 DEF Move, Turn, Enter, work, DialogOK
  <1>5. CASE Back
    <2>1. /\ view = "browse" /\ job = {} /\ UNCHANGED <<confirm, job, task>>
          /\ view' = view \/ view' = "menu"
      BY <1>5 DEF Back, At, work
    <2> QED
      BY <1>1, <2>1 DEF DialogOK
  <1>6. CASE Actions \/ Cancel
    <2>1. /\ job = {} /\ UNCHANGED <<job, task>>
          /\ \/ view = "browse" /\ view' = "actions" /\ confirm' = confirm
             \/ view' = "browse" /\ confirm' = {}
      BY <1>6 DEF Actions, Cancel, At, work
    <2> QED
      BY <1>1, <2>1 DEF DialogOK
  <1>7. CASE (\E moving \in BOOLEAN : Mark(moving)) \/ (\E action \in Naming : NameInput(action))
    <2>1. /\ view = "actions" /\ job = {} /\ UNCHANGED <<confirm, job, task>>
          /\ view' \in {"browse", "rename", "file", "dir"}
      BY <1>7 DEF Mark, NameInput, Naming, At, work
    <2> QED
      BY <1>1, <2>1 DEF DialogOK
  <1>8. CASE DeletePrompt
    <2>1. /\ job = {} /\ UNCHANGED <<job, task>>
          /\ confirm' = {item.name : item \in SelectedItem}
          /\ view' = IF SelectedItem = {} THEN "browse" ELSE "delete"
      BY <1>8 DEF DeletePrompt, At, work
    <2>2. confirm' \subseteq Names
      BY <2>1, SelectedIs
    <2>3. (view' = "delete") = (confirm' # {})
      BY <2>1
    <2> QED
      BY <1>1, <2>1, <2>2, <2>3 DEF DialogOK
  <1>9. CASE SubmitName
    <2>1. /\ view \in Naming /\ job = {} /\ UNCHANGED <<confirm, job, task>>
          /\ view' = view \/ view' = "browse"
      BY <1>9 DEF SubmitName, SubmitNew, SubmitRename, At, work
    <2> QED
      BY <1>1, <2>1 DEF DialogOK, Naming
  <1>10. CASE ConfirmDelete
    <2>1. job = {} /\ UNCHANGED <<job, task>> /\ view' = "browse" /\ confirm' = {}
      BY <1>10 DEF ConfirmDelete, At, work
    <2> QED
      BY <1>1, <2>1 DEF DialogOK
  <1>11. CASE Paste
    <2>1. /\ view = "actions" /\ open /\ job = {} /\ view' = "browse" /\ UNCHANGED <<open, confirm>>
      BY <1>11 DEF Paste, At
    <2>2. UNCHANGED work \/ \E c, dirs, file : Begin(c, dirs, file)
      BY <1>11 DEF Paste, PasteMove, PasteDirectory, PasteFile
    <2>3. (job' = {}) = (task' = {})
      BY <1>1, <2>2 DEF Begin, work
    <2> QED
      BY <1>1, <2>1, <2>3 DEF DialogOK
  <1>12. CASE Poll \/ PollFails
    <2>1. open /\ job # {} /\ UNCHANGED <<open, view, confirm>>
      BY <1>12 DEF Poll, PollFails
    <2>2. (job' = {} /\ task' = {}) \/ \E j : job' = {j} /\ UNCHANGED task
      BY <1>12 DEF Poll, PollFails, CopyFile, CopyItem, CopyDone, EnterDirectory, Fail, Finish,
                   Continue
    <2>3. (job' = {}) = (task' = {})
      BY <1>1, <2>1, <2>2
    <2> QED
      BY <1>1, <2>1, <2>3 DEF DialogOK
  <1>13. CASE UNCHANGED vars
    BY <1>1, <1>13 DEF DialogOK, vars, work
  <1> QED
    BY <1>2, <1>3, <1>4, <1>5, <1>6, <1>7, <1>8, <1>9, <1>10, <1>11, <1>12, <1>13 DEF Next

-----------------------------------------------------------------------------
(* The volume, the clipboard and the job.                                  *)

(* Every entry keeps its path and its kind.                                *)
Keeps(t, u) == \A p \in DOMAIN t : p \in DOMAIN u /\ Kind(u, p) = Kind(t, p)

(* All that is new lies in `to`, and so does all that changes, but for the *)
(* directory that lists `to`.                                              *)
GrowsIn(t, u, to) ==
    /\ Keeps(t, u)
    /\ \A p \in DOMAIN u \ DOMAIN t : IsPrefix(to, p)
    /\ \A p \in DOMAIN t : ~IsPrefix(to, p) =>
            IF p = Front(to) THEN Range(t[p].items) \subseteq Range(u[p].items)
            ELSE u[p] = t[p]

(* The steps of LossIsConfirmed and CopyOnlyAdds.                          *)
OnlyConfirmed ==
    \A p \in Paths \ DOMAIN tree' :
        \/ /\ \E name \in confirm : p = Append(cwd, name)
           /\ tree[p].items = <<>>
        \/ \E q \in Paths \ DOMAIN tree', r \in DOMAIN tree' \ Paths :
                IsPrefix(q, p) /\ Subtree(tree', r) = Subtree(tree, q)

OnlyAdds ==
    \A t \in task \cup task' :
        KeepsAllBut(t.to) /\ Subtree(tree', t.from) = Subtree(tree, t.from)

StepOK == IsVolume(tree') /\ ClipOK' /\ JobOK' /\ OnlyConfirmed /\ OnlyAdds

(* A step that does not touch the card keeps what is said about it.        *)
LEMMA Same ==
    ASSUME IInv, UNCHANGED tree
    PROVE  /\ IsVolume(tree') /\ OnlyConfirmed /\ OnlyAdds
           /\ \A c \in clipboard : c \in Marks /\ (~stray => Follows(c)')
           /\ \A t, j : JobFits(j, t) => JobFits(j, t)'
  <1>1. IsVolume(tree') /\ OnlyConfirmed
    BY DEF IInv, OnlyConfirmed, Paths
  <1>2. OnlyAdds
    <2>1. \A to : KeepsAllBut(to)
      BY DEF KeepsAllBut, Paths
    <2> QED
      BY <2>1 DEF OnlyAdds
  <1>3. \A c \in clipboard : c \in Marks /\ (~stray => Follows(c)')
    BY DEF IInv, ClipOK, Follows, Paths
  <1>4. \A t, j : JobFits(j, t) => JobFits(j, t)'
    BY DEF JobFits, Paths
  <1> QED
    BY <1>1, <1>2, <1>3, <1>4

(* Steps that neither change the card nor start or continue a copy.        *)
LEMMA QuietStep ==
    ASSUME IInv, UNCHANGED <<tree, work>>,
           \/ UNCHANGED <<clipboard, stray>>
           \/ clipboard' = {}
           \/ \E moving \in BOOLEAN : Mark(moving)
    PROVE  StepOK
  <1>1. /\ IsVolume(tree') /\ OnlyConfirmed /\ OnlyAdds
        /\ \A c \in clipboard : c \in Marks /\ (~stray => Follows(c)')
        /\ \A t, j : JobFits(j, t) => JobFits(j, t)'
    BY Same
  <1>2. JobOK'
    <2>1. JobOK /\ job' = job /\ task' = task
      BY DEF IInv, work
    <2> QED
      BY <1>1, <2>1 DEF JobOK, Apart
  <1>3. ClipOK'
    <2>1. CASE UNCHANGED <<clipboard, stray>>
      BY <1>1, <2>1 DEF ClipOK
    <2>2. CASE clipboard' = {}
      BY <2>2 DEF ClipOK
    <2>3. ASSUME NEW moving \in BOOLEAN, Mark(moving), ~ UNCHANGED <<clipboard, stray>> PROVE ClipOK'
      <3>1. PICK item \in SelectedItem :
                /\ clipboard' = {[parent |-> cwd, name |-> item.name,
                                  directory |-> item.directory, moving |-> moving]}
                /\ stray' = lagging
        BY <2>3 DEF Mark
      <3>2. PICK c : c = [parent |-> cwd, name |-> item.name,
                          directory |-> item.directory, moving |-> moving]
        OBVIOUS
      <3>3. c \in Marks
        BY <3>2, SelectedIs DEF Marks, IInv, ListOK
      <3>4. ~stray' => Source(c) \in Paths /\ IsDir(tree, Source(c)) = c.directory
        BY <3>1, <3>2, SelectedIs DEF Source
      <3>5. ~stray' => Follows(c)'
        BY <3>4 DEF Follows, Paths, Source
      <3> QED
        BY <3>1, <3>2, <3>3, <3>5 DEF ClipOK
    <2> QED
      BY <2>1, <2>2, <2>3
  <1> QED
    BY <1>1, <1>2, <1>3 DEF StepOK

LEMMA GrowsSelf == ASSUME NEW t, NEW to PROVE GrowsIn(t, t, to)
  BY DEF GrowsIn, Keeps

LEMMA GrowsTwice ==
    ASSUME NEW t, NEW u, NEW v, NEW to, GrowsIn(t, u, to), GrowsIn(u, v, to)
    PROVE  GrowsIn(t, v, to)
  <1>1. Keeps(t, v)
    BY DEF GrowsIn, Keeps
  <1>2. \A p \in DOMAIN v \ DOMAIN t : IsPrefix(to, p)
    BY DEF GrowsIn
  <1>3. ASSUME NEW p \in DOMAIN t, ~IsPrefix(to, p)
        PROVE  IF p = Front(to) THEN Range(t[p].items) \subseteq Range(v[p].items)
               ELSE v[p] = t[p]
    <2>1. p \in DOMAIN u
      BY DEF GrowsIn, Keeps
    <2>2. CASE p = Front(to)
      <3>1. Range(t[p].items) \subseteq Range(u[p].items)
        BY <1>3, <2>2 DEF GrowsIn
      <3>2. Range(u[p].items) \subseteq Range(v[p].items)
        BY <1>3, <2>1, <2>2 DEF GrowsIn
      <3> QED
        BY <2>2, <3>1, <3>2
    <2>3. CASE p # Front(to)
      <3>1. u[p] = t[p]
        BY <1>3, <2>3 DEF GrowsIn
      <3>2. v[p] = u[p]
        BY <1>3, <2>1, <2>3 DEF GrowsIn
      <3> QED
        BY <2>3, <3>1, <3>2
    <2> QED
      BY <2>2, <2>3
  <1> QED
    BY <1>1, <1>2, <1>3 DEF GrowsIn

(* Adding one entry in `to`, or `to` itself, grows it there.               *)
LEMMA AddedGrows ==
    ASSUME NEW t, IsVolume(t), NEW dir, Kind(t, dir) = "dir", NEW name \in Names,
           Append(dir, name) \notin DOMAIN t, NEW kind \in {"file", "dir", "broken"},
           NEW u \in Added(t, dir, name, Alone(kind)),
           NEW to \in Seq(Names), IsPrefix(to, Append(dir, name))
    PROVE  /\ IsVolume(u) /\ GrowsIn(t, u, to)
           /\ Append(dir, name) \in DOMAIN u /\ Kind(u, Append(dir, name)) = kind
  <1> DEFINE at == Append(dir, name)
             s  == Alone(kind)
  <1>1. IsTree(s) /\ DOMAIN s = {<<>>} /\ Kind(s, <<>>) = kind
    BY NodeTree
  <1>2. IsTree(t) /\ Kind(t, <<>>) = "dir" /\ <<>> \in DOMAIN t
    BY DEF IsVolume, IsTree
  <1>3. IsTree(u) /\ IsAdded(t, u, dir, name, at, s)
    BY <1>1, <1>2, AddedTree, AddedIs
  <1>4. /\ dir \in DOMAIN t /\ dir \in Seq(Names) /\ at \in Seq(Names)
        /\ DOMAIN u = DOMAIN t \cup {at \o r : r \in DOMAIN s}
        /\ \A q \in DOMAIN t : Kind(u, q) = Kind(t, q)
        /\ \A q \in DOMAIN t : q # dir => u[q] = t[q]
        /\ Range(u[dir].items) = Range(t[dir].items) \cup {name}
        /\ \A r \in DOMAIN s : Kind(u, at \o r) = Kind(s, r)
    BY <1>3 DEF IsAdded
  <1>5. IsPrefix(to, dir) \/ to = at
    BY <1>4, PrefixOfAppend
  <1>6. Front(at) = dir
    BY <1>4, FrontOfAppend
  <1> HIDE DEF at, s
  <1>7. at \o <<>> = at
    BY <1>4, ConcatEmptySeq
  <1>8. DOMAIN u = DOMAIN t \cup {at} /\ Kind(u, at) = kind
    BY <1>1, <1>4, <1>7
  <1>9. IsVolume(u)
    BY <1>2, <1>3, <1>4 DEF IsVolume
  <1>10. Keeps(t, u)
    BY <1>4 DEF Keeps
  <1>11. IsPrefix(to, at)
    BY DEF at
  <1>12. ASSUME NEW p \in DOMAIN t, ~IsPrefix(to, p)
         PROVE  IF p = Front(to) THEN Range(t[p].items) \subseteq Range(u[p].items)
                ELSE u[p] = t[p]
    <2>1. CASE p = dir
      <3>1. to = at
        BY <1>5, <1>12, <2>1
      <3> QED
        BY <1>4, <1>6, <2>1, <3>1
    <2>2. CASE p # dir
      BY <1>4, <2>2
    <2> QED
      BY <2>1, <2>2
  <1>13. GrowsIn(t, u, to)
    BY <1>8, <1>10, <1>11, <1>12 DEF GrowsIn
  <1> QED
    BY <1>8, <1>9, <1>13 DEF at

(* Writing a file in `to` grows it there.                                  *)
LEMMA WrittenGrows ==
    ASSUME NEW t, IsVolume(t), NEW p, NEW units \in Seq(Content), NEW to, IsPrefix(to, p)
    PROVE  IsVolume(Written(t, p, units)) /\ GrowsIn(t, Written(t, p, units), to)
  <1> DEFINE u == Written(t, p, units)
  <1>1. /\ IsTree(u) /\ DOMAIN u = DOMAIN t
        /\ \A q \in DOMAIN t : (q # p => u[q] = t[q]) /\ Kind(u, q) = Kind(t, q)
    BY WrittenTree DEF IsVolume
  <1>2. <<>> \in DOMAIN t /\ Kind(t, <<>>) = "dir"
    BY DEF IsVolume, IsTree
  <1> HIDE DEF u
  <1>3. IsVolume(u)
    BY <1>1, <1>2 DEF IsVolume
  <1>4. GrowsIn(t, u, to)
    BY <1>1 DEF GrowsIn, Keeps
  <1> QED
    BY <1>3, <1>4 DEF u

(* A step of a copy leaves its source as it is.                            *)
LEMMA GrowsStep ==
    ASSUME IsVolume(tree), IsVolume(tree'), NEW t, Apart(t), GrowsIn(tree, tree', t.to)
    PROVE  KeepsAllBut(t.to) /\ Subtree(tree', t.from) = Subtree(tree, t.from)
  <1>1. KeepsAllBut(t.to)
    BY DEF KeepsAllBut, GrowsIn, Keeps, Paths
  <1>2. /\ t.from \in Seq(Names) /\ t.to \in Seq(Names) /\ t.to # <<>>
        /\ ~IsPrefix(t.from, t.to) /\ ~IsPrefix(t.to, t.from)
    BY DEF Apart
  <1>3. Front(t.to) \in Seq(Names) /\ IsPrefix(Front(t.to), t.to)
    BY <1>2, AppendOfFront
  <1>4. ~IsPrefix(t.from, Front(t.to))
    BY <1>2, <1>3, PrefixTransitive
  <1>5. ASSUME NEW q \in Seq(Names), IsPrefix(t.from, q)
        PROVE  (q \in DOMAIN tree' <=> q \in DOMAIN tree) /\ (q \in DOMAIN tree => tree'[q] = tree[q])
    <2>1. ~IsPrefix(t.to, q)
      BY <1>2, <1>5, PrefixesComparable
    <2>2. q # Front(t.to)
      BY <1>4, <1>5
    <2> QED
      BY <2>1, <2>2 DEF GrowsIn, Keeps
  <1>6. Subtree(tree', t.from) = Subtree(tree, t.from)
    BY <1>2, <1>5, SubtreeSame DEF IsVolume
  <1> QED
    BY <1>1, <1>6

(* A step that keeps every entry loses nothing, and no mark or frame loses its entry.*)
LEMMA KeepsStep ==
    ASSUME IInv, Keeps(tree, tree')
    PROVE  /\ OnlyConfirmed
           /\ \A c \in clipboard : c \in Marks /\ (~stray => Follows(c)')
           /\ \A t, j : JobFits(j, t) => JobFits(j, t)'
  <1>1. OnlyConfirmed
    BY DEF OnlyConfirmed, Paths, Keeps
  <1>2. ASSUME NEW c \in clipboard PROVE c \in Marks /\ (~stray => Follows(c)')
    <2>1. c \in Marks /\ (~stray => Follows(c))
      BY DEF IInv, ClipOK
    <2>2. \A p \in DOMAIN tree : IsDir(tree', p) = IsDir(tree, p)
      BY DEF Keeps, IsDir
    <2>3. Follows(c) => Follows(c)'
      BY <2>2 DEF Follows, Keeps, Paths, Source
    <2> QED
      BY <2>1, <2>3
  <1>3. ASSUME NEW t, NEW j, JobFits(j, t) PROVE JobFits(j, t)'
    <2>1. \A p : Kind(tree, p) = "dir" => Kind(tree', p) = "dir"
      BY DEF Keeps, Kind
    <2>2. \A p \in DOMAIN tree : p \in DOMAIN tree'
      BY DEF Keeps
    <2> QED
      BY <1>3, <2>1, <2>2 DEF JobFits, Paths
  <1> QED
    BY <1>1, <1>2, <1>3

(* Without a copy there is nothing to say about one.                       *)
LEMMA Idle ==
    ASSUME IInv, job = {}, UNCHANGED work
    PROVE  OnlyAdds /\ JobOK'
  <1>1. task = {} /\ task' = {}
    BY DEF IInv, DialogOK, work
  <1> QED
    BY <1>1 DEF OnlyAdds, JobOK

(* Enter in the dialogs NEW FILE and NEW DIR.                              *)
LEMMA NewStep ==
    ASSUME IInv, Kind(tree, cwd) = "dir", NEW name \in Names, Append(cwd, name) \notin DOMAIN tree,
           view \in Naming, SubmitNew(name), job = {}, UNCHANGED work
    PROVE  StepOK
  <1>1. PICK r \in Create(cwd, name, view) : tree' = r.tree
    BY DEF SubmitNew
  <1>2. view \in {"file", "dir", "broken"} /\ UNCHANGED <<clipboard, stray>>
    BY DEF SubmitNew, Naming
  <1>3. tree' = tree \/ tree' \in Added(tree, cwd, name, Alone(view))
    BY <1>1, CreateIs
  <1>4. IsVolume(tree) /\ cwd \in Seq(Names)
    BY DEF IInv, ListOK
  <1>5. IsVolume(tree') /\ Keeps(tree, tree')
    <2>1. CASE tree' = tree
      BY <1>4, <2>1 DEF Keeps
    <2>2. CASE tree' \in Added(tree, cwd, name, Alone(view))
      <3>1. Append(cwd, name) \in Seq(Names) /\ IsPrefix(Append(cwd, name), Append(cwd, name))
        BY <1>4, FrontOfAppend, PrefixOfItself
      <3> QED
        BY <1>2, <1>4, <2>2, <3>1, AddedGrows DEF GrowsIn
    <2> QED
      BY <1>3, <2>1, <2>2
  <1>6. OnlyConfirmed /\ \A c \in clipboard : c \in Marks /\ (~stray => Follows(c)')
    BY <1>5, KeepsStep
  <1>7. ClipOK'
    BY <1>2, <1>6 DEF ClipOK
  <1>8. OnlyAdds /\ JobOK'
    BY Idle
  <1> QED
    BY <1>5, <1>6, <1>7, <1>8 DEF StepOK

(* An entry that moves is lost from its old path only.                     *)
LEMMA MovedStep ==
    ASSUME IInv, NEW from \in DOMAIN tree, from # <<>>, NEW dir, Kind(tree, dir) = "dir",
           ~IsPrefix(from, dir), NEW name \in Names, Append(dir, name) \notin DOMAIN tree,
           tree' \in Added(Removed(tree, from), dir, name, Subtree(tree, from))
    PROVE  /\ IsVolume(tree') /\ OnlyConfirmed
           /\ \A p \in DOMAIN tree : ~IsPrefix(from, p) =>
                    p \in DOMAIN tree' /\ Kind(tree', p) = Kind(tree, p)
  <1>1. /\ IsVolume(tree')
        /\ \A p \in DOMAIN tree : ~IsPrefix(from, p) =>
                p \in DOMAIN tree' /\ Kind(tree', p) = Kind(tree, p)
        /\ from \notin DOMAIN tree'
        /\ Append(dir, name) \in DOMAIN tree'
        /\ Subtree(tree', Append(dir, name)) = Subtree(tree, from)
    BY RenamedTree DEF IInv
  <1>2. OnlyConfirmed
    <2> SUFFICES ASSUME NEW p \in Paths \ DOMAIN tree'
                 PROVE  \E q \in Paths \ DOMAIN tree', r \in DOMAIN tree' \ Paths :
                            IsPrefix(q, p) /\ Subtree(tree', r) = Subtree(tree, q)
      BY DEF OnlyConfirmed
    <2>1. IsPrefix(from, p)
      BY <1>1 DEF Paths
    <2> QED
      BY <1>1, <2>1 DEF Paths
  <1> QED
    BY <1>1, <1>2

(* Enter in the dialog RENAME: the clipboard forgets the entry or strays with it.*)
LEMMA RenameStep ==
    ASSUME IInv, Kind(tree, cwd) = "dir", NEW name \in Names, Append(cwd, name) \notin DOMAIN tree,
           SubmitRename(name), job = {}, UNCHANGED work
    PROVE  StepOK
  <1>1. PICK item \in SelectedItem :
            /\ Append(cwd, item.name) \in DOMAIN tree
            /\ \E r \in Rename(Append(cwd, item.name), cwd, name) :
                /\ tree' = r.tree /\ Strays(r.ok, item.name)
                /\ r.ok => Forget(item.name)
                /\ ~r.ok => UNCHANGED clipboard
    BY DEF SubmitRename
  <1> DEFINE from == Append(cwd, item.name)
  <1>2. PICK r \in Rename(from, cwd, name) :
            /\ tree' = r.tree /\ Strays(r.ok, item.name)
            /\ r.ok => Forget(item.name)
            /\ ~r.ok => UNCHANGED clipboard
    BY <1>1
  <1>3. /\ IsVolume(tree) /\ cwd \in Seq(Names) /\ item.name \in Names
        /\ from \in DOMAIN tree /\ from # <<>> /\ from \in Seq(Names) /\ ~IsPrefix(from, cwd)
    BY <1>1, SelectedIs, FrontOfAppend DEF IInv, ListOK
  <1>4. /\ tree' = tree \/ tree' \in Added(Removed(tree, from), cwd, name, Subtree(tree, from))
        /\ r.ok => tree' \in Added(Removed(tree, from), cwd, name, Subtree(tree, from))
    BY <1>2, RenameIs
  <1>5. OnlyAdds /\ JobOK'
    BY Idle
  <1>6. CASE tree' = tree
    <2>1. IsVolume(tree') /\ OnlyConfirmed /\ \A c \in clipboard : c \in Marks /\ (~stray => Follows(c)')
      BY <1>6, Same
    <2>2. clipboard' \subseteq clipboard
      BY <1>2 DEF Forget
    <2>3. stray => stray'
      BY <1>2 DEF Strays
    <2>4. ClipOK'
      BY <2>1, <2>2, <2>3 DEF ClipOK
    <2> QED
      BY <1>5, <2>1, <2>4 DEF StepOK
  <1>7. CASE tree' # tree
    <2>1. tree' \in Added(Removed(tree, from), cwd, name, Subtree(tree, from))
      BY <1>4, <1>7
    <2>2. /\ IsVolume(tree') /\ OnlyConfirmed
          /\ \A p \in DOMAIN tree : ~IsPrefix(from, p) =>
                    p \in DOMAIN tree' /\ Kind(tree', p) = Kind(tree, p)
      BY <1>3, <2>1, MovedStep
    <2>3. ASSUME NEW c \in clipboard' PROVE c \in Marks /\ (~stray' => Follows(c)')
      <3>1. c \in clipboard /\ c \in Marks /\ (~stray => Follows(c))
        BY <1>2 DEF Forget, IInv, ClipOK
      <3>2. ASSUME ~stray' PROVE Follows(c)'
        <4>1. ~stray /\ r.ok /\ ~IsPrefix(from, c.parent)
          BY <1>2, <1>7, <3>1, <3>2 DEF Strays
        <4>2. ~InClipboard(item.name)
          BY <1>2, <4>1 DEF Forget
        <4>3. c.parent \in Seq(Names) /\ c.name \in Names
          BY <3>1 DEF Marks
        <4>4. Source(c) # from
          <5>1. Source(c) = from => c.parent = cwd /\ c.name = item.name
            BY <1>3, <4>3, FrontOfAppend, SMTT(30) DEF Source
          <5> QED
            BY <3>1, <4>2, <5>1 DEF InClipboard
        <4>5. ~IsPrefix(from, Source(c))
          BY <1>3, <4>1, <4>3, <4>4, PrefixOfAppend DEF Source
        <4>6. Source(c) \in DOMAIN tree /\ IsDir(tree, Source(c)) = c.directory
          BY <3>1, <4>1 DEF Follows, Paths
        <4>7. Source(c) \in DOMAIN tree' /\ IsDir(tree', Source(c)) = c.directory
          BY <2>2, <4>5, <4>6 DEF IsDir
        <4> QED
          BY <4>7 DEF Follows, Paths, Source
      <3> QED
        BY <3>1, <3>2
    <2> QED
      BY <1>5, <2>2, <2>3 DEF StepOK, ClipOK
  <1> QED
    BY <1>6, <1>7

(* A deleted entry holds nothing, so that only the entry itself is lost.   *)
LEMMA DeletedIs ==
    ASSUME NEW t, IsVolume(t), NEW p \in DOMAIN t, p # <<>>,
           Kind(t, p) # "broken" => t[p].items = <<>>
    PROVE  /\ IsVolume(Removed(t, p)) /\ t[p].items = <<>>
           /\ DOMAIN Removed(t, p) = DOMAIN t \ {p}
           /\ \A q \in DOMAIN t \ {p} : Kind(Removed(t, p), q) = Kind(t, q)
  <1>1. t[p].items = <<>> /\ Below(t, p) = {p}
    <2>1. CASE Kind(t, p) = "broken"
      BY <2>1, NoDirectory DEF IsVolume
    <2>2. CASE Kind(t, p) # "broken"
      <3>1. Range(t[p].items) = {}
        BY <2>2 DEF Range
      <3> QED
        BY <2>2, <3>1, Empty DEF IsVolume
    <2> QED
      BY <2>1, <2>2
  <1>2. IsTree(Removed(t, p)) /\ Kind(Removed(t, p), <<>>) = "dir"
    BY RemovedTree DEF IsVolume
  <1>3. /\ DOMAIN Removed(t, p) = {q \in DOMAIN t : ~IsPrefix(p, q)}
        /\ \A q \in DOMAIN Removed(t, p) : Kind(Removed(t, p), q) = Kind(t, q)
    <2>1. IsTree(t)
      BY DEF IsVolume
    <2> QED
      BY ONLY <2>1, p \in DOMAIN t, p # <<>>, RemovedIs
  <1>4. DOMAIN Removed(t, p) = DOMAIN t \ {p}
    BY <1>1, <1>3 DEF Below
  <1> QED
    BY <1>1, <1>2, <1>3, <1>4 DEF IsVolume

(* Enter in the dialog DELETE.                                             *)
LEMMA DeleteStep ==
    ASSUME IInv, ConfirmDelete
    PROVE  StepOK
  <1>1. job = {} /\ UNCHANGED work
    BY DEF ConfirmDelete, At
  <1>2. OnlyAdds /\ JobOK'
    BY <1>1, Idle
  <1>3. PICK name \in confirm :
            \/ UNCHANGED <<tree, clipboard, stray>>
            \/ /\ Append(cwd, name) \in DOMAIN tree
               /\ \E r \in Delete(Append(cwd, name)) :
                    /\ tree' = r.tree
                    /\ IF r.ok THEN Forget(name) ELSE UNCHANGED clipboard
                    /\ stray' = (stray \/ (~r.ok /\ tree' # tree))
    BY DEF ConfirmDelete
  <1>4. name \in Names /\ IsVolume(tree) /\ cwd \in Seq(Names)
    BY DEF IInv, DialogOK, ListOK
  <1>5. CASE UNCHANGED <<tree, clipboard, stray>>
    BY <1>1, <1>5, QuietStep
  <1>6. ASSUME Append(cwd, name) \in DOMAIN tree,
               NEW r \in Delete(Append(cwd, name)),
               tree' = r.tree,
               r.ok => Forget(name),
               ~r.ok => UNCHANGED clipboard,
               stray' = (stray \/ (~r.ok /\ tree' # tree))
        PROVE  StepOK
    <2> DEFINE p == Append(cwd, name)
    <2>1. p # <<>> /\ p \in DOMAIN tree /\ p \in Seq(Names)
      BY <1>4, <1>6, FrontOfAppend
    <2>2. clipboard' \subseteq clipboard /\ (stray => stray')
      BY <1>6 DEF Forget
    <2>3. /\ \/ tree' = tree
             \/ tree' = Removed(tree, p) /\ (Kind(tree, p) # "broken" => tree[p].items = <<>>)
             \/ /\ Kind(tree, p) = "broken" /\ tree' = [tree EXCEPT ![p] = Node("dir")] /\ ~r.ok
          /\ r.ok => tree' = Removed(tree, p)
      BY <1>6, DeleteIs
    <2>4. CASE tree' = tree
      <3>1. IsVolume(tree') /\ OnlyConfirmed /\ \A c \in clipboard : c \in Marks /\ (~stray => Follows(c)')
        BY <2>4, Same
      <3>2. ClipOK'
        BY <2>2, <3>1 DEF ClipOK
      <3> QED
        BY <1>2, <3>1, <3>2 DEF StepOK
    <2>5. CASE tree' = Removed(tree, p) /\ (Kind(tree, p) # "broken" => tree[p].items = <<>>)
      <3>1. /\ IsVolume(tree') /\ tree[p].items = <<>> /\ DOMAIN tree' = DOMAIN tree \ {p}
            /\ \A q \in DOMAIN tree \ {p} : Kind(tree', q) = Kind(tree, q)
        BY <1>4, <2>1, <2>5, DeletedIs
      <3>2. OnlyConfirmed
        BY <3>1 DEF OnlyConfirmed, Paths
      <3>3. ASSUME NEW c \in clipboard' PROVE c \in Marks /\ (~stray' => Follows(c)')
        <4>1. c \in clipboard /\ c \in Marks /\ (~stray => Follows(c))
          BY <2>2 DEF IInv, ClipOK
        <4>2. ASSUME ~stray' PROVE Follows(c)'
          <5>1. p \notin DOMAIN tree'
            BY <3>1
          <5>2. ~stray /\ r.ok
            BY <1>6, <2>1, <4>2, <5>1
          <5>3. ~InClipboard(name)
            BY <1>6, <4>1, <5>2 DEF Forget
          <5>4. c.parent \in Seq(Names) /\ c.name \in Names
            BY <4>1 DEF Marks
          <5>5. Source(c) # p
            <6>1. Source(c) = p => c.parent = cwd /\ c.name = name
              BY <1>4, <5>4, FrontOfAppend DEF Source
            <6> QED
              BY <4>1, <5>3, <6>1 DEF InClipboard
          <5>6. Source(c) \in DOMAIN tree /\ IsDir(tree, Source(c)) = c.directory
            BY <4>1, <5>2 DEF Follows, Paths
          <5>7. Source(c) \in DOMAIN tree' /\ IsDir(tree', Source(c)) = c.directory
            BY <3>1, <5>5, <5>6 DEF IsDir
          <5> QED
            BY <5>7 DEF Follows, Paths, Source
        <4> QED
          BY <4>1, <4>2
      <3> QED
        BY <1>2, <3>1, <3>2, <3>3 DEF StepOK, ClipOK
    <2>6. CASE Kind(tree, p) = "broken" /\ tree' = [tree EXCEPT ![p] = Node("dir")] /\ ~r.ok
      <3>1. /\ IsTree(tree') /\ DOMAIN tree' = DOMAIN tree
            /\ \A q \in DOMAIN tree : q # p => Kind(tree', q) = Kind(tree, q)
        BY <1>4, <2>1, <2>6, RepairedTree DEF IsVolume
      <3>2. IsVolume(tree')
        BY <1>4, <2>1, <3>1 DEF IsVolume, IsTree
      <3>3. OnlyConfirmed
        BY <3>1 DEF OnlyConfirmed, Paths
      <3>4. ClipOK'
        <4>1. tree' # tree => stray'
          BY <1>6, <2>6
        <4>2. tree' # tree
          <5>1. tree'[p].kind = "dir"
            BY <2>1, <2>6 DEF Node
          <5>2. tree[p].kind = "broken"
            BY <2>6, <2>1 DEF Kind
          <5> QED
            BY <5>1, <5>2
        <4> QED
          BY <2>2, <4>1, <4>2 DEF ClipOK, IInv
      <3> QED
        BY <1>2, <3>2, <3>3, <3>4 DEF StepOK
    <2> QED
      BY <2>3, <2>4, <2>5, <2>6
  <1> QED
    BY <1>3, <1>5, <1>6

LEMMA AddedDirectory ==
    ASSUME NEW t, IsVolume(t), NEW dir \in Seq(Names), Kind(t, dir) = "dir", NEW name \in Names,
           Append(dir, name) \notin DOMAIN t, NEW u \in Added(t, dir, name, Alone("dir"))
    PROVE  /\ IsVolume(u) /\ GrowsIn(t, u, Append(dir, name))
           /\ Kind(u, Append(dir, name)) = "dir"
  <1>1. PICK kind \in {"file", "dir", "broken"} : kind = "dir"
    OBVIOUS
  <1>2. Append(dir, name) \in Seq(Names) /\ IsPrefix(Append(dir, name), Append(dir, name))
    BY FrontOfAppend, PrefixOfItself
  <1>3. PICK to \in Seq(Names) : to = Append(dir, name)
    BY <1>2
  <1>4. IsPrefix(to, Append(dir, name)) /\ u \in Added(t, dir, name, Alone(kind))
    BY <1>1, <1>2, <1>3
  <1>5. IsVolume(u) /\ GrowsIn(t, u, to) /\ Kind(u, Append(dir, name)) = kind
    BY <1>4, AddedGrows
  <1> QED
    BY <1>1, <1>3, <1>5

(* What is pasted lies elsewhere than its copy.                            *)
LEMMA AcceptedIs ==
    ASSUME IInv, NEW c \in clipboard, Accepts(c)
    PROVE  /\ IsVolume(tree) /\ Kind(tree, cwd) = "dir" /\ cwd \in Seq(Names)
           /\ c.name \in Names /\ c.parent \in Seq(Names)
           /\ Source(c) \in DOMAIN tree /\ Source(c) \in Seq(Names) /\ Source(c) # <<>>
           /\ Append(cwd, c.name) \notin DOMAIN tree
           /\ Apart([from |-> Source(c), to |-> Append(cwd, c.name)])
  <1> DEFINE from == Source(c)
             to   == Append(cwd, c.name)
  <1>1. /\ IsVolume(tree) /\ Kind(tree, cwd) = "dir" /\ cwd \in Seq(Names)
        /\ c.name \in Names /\ c.parent \in Seq(Names) /\ c.directory \in BOOLEAN
    BY DEF IInv, ClipOK, Marks, Accepts, ListOK
  <1>2. /\ from \in DOMAIN tree /\ IsDir(tree, from) = c.directory /\ to \notin DOMAIN tree
        /\ ~(c.directory /\ IsPrefix(from, cwd))
    BY DEF Accepts
  <1>3. from \in Seq(Names) /\ from # <<>> /\ to \in Seq(Names) /\ to # <<>>
    BY <1>1, FrontOfAppend DEF Source
  <1>4. ~IsPrefix(to, from)
    BY <1>1, <1>2, <1>3, Above DEF IsVolume
  <1>5. ~IsPrefix(from, cwd)
    <2> SUFFICES ASSUME IsPrefix(from, cwd), ~c.directory PROVE FALSE
      BY <1>1, <1>2
    <2>1. cwd \in DOMAIN tree
      BY <1>1 DEF Kind
    <2>2. from = cwd \/ Kind(tree, from) = "dir"
      BY <1>1, <1>3, <2>1, Above DEF IsVolume
    <2>3. IsDir(tree, from)
      BY <1>1, <2>2 DEF IsDir
    <2> QED
      BY <1>2, <2>3
  <1>6. ~IsPrefix(from, to)
    BY <1>1, <1>2, <1>3, <1>5, PrefixOfAppend
  <1>7. Apart([from |-> from, to |-> to])
    BY <1>3, <1>4, <1>6 DEF Apart
  <1> QED
    BY <1>1, <1>2, <1>3, <1>7

(* Pasting what was marked with MOVE.                                      *)
LEMMA PasteMoveStep ==
    ASSUME IInv, NEW c \in clipboard, Accepts(c), PasteMove(c), job = {}
    PROVE  StepOK
  <1>1. PICK r \in Rename(Source(c), cwd, c.name) :
            /\ tree' = r.tree /\ UNCHANGED work
            /\ r.ok => clipboard' = {}
            /\ ~r.ok => UNCHANGED clipboard /\ stray' = (stray \/ tree' # tree)
    BY DEF PasteMove
  <1>2. /\ IsVolume(tree) /\ Kind(tree, cwd) = "dir" /\ cwd \in Seq(Names)
        /\ c.name \in Names /\ Append(cwd, c.name) \notin DOMAIN tree
        /\ Source(c) \in DOMAIN tree /\ Source(c) # <<>>
    BY AcceptedIs
  <1>3. OnlyAdds /\ JobOK'
    BY <1>1, Idle
  <1>4. CASE tree' = tree
    <2>1. IsVolume(tree') /\ OnlyConfirmed /\ \A m \in clipboard : m \in Marks /\ (~stray => Follows(m)')
      BY <1>4, Same
    <2>2. ClipOK'
      BY <1>1, <2>1 DEF ClipOK
    <2> QED
      BY <1>3, <2>1, <2>2 DEF StepOK
  <1>5. CASE tree' # tree
    <2>1. /\ ~IsPrefix(Source(c), cwd)
          /\ tree' \in Added(Removed(tree, Source(c)), cwd, c.name, Subtree(tree, Source(c)))
      BY <1>1, <1>5, RenameIs
    <2>2. IsVolume(tree') /\ OnlyConfirmed
      BY <1>2, <2>1, MovedStep
    <2>3. ClipOK'
      <3>1. clipboard' = {} \/ (clipboard' = clipboard /\ stray')
        BY <1>1, <1>5
      <3> QED
        BY <3>1 DEF ClipOK, IInv
    <2> QED
      BY <1>3, <2>2, <2>3 DEF StepOK
  <1> QED
    BY <1>4, <1>5

(* Pasting a directory creates its target and begins a copy.               *)
LEMMA PasteDirectoryStep ==
    ASSUME IInv, NEW c \in clipboard, Accepts(c), PasteDirectory(c), job = {}
    PROVE  StepOK
  <1> DEFINE to == Append(cwd, c.name)
  <1>1. PICK r \in Create(cwd, c.name, "dir") :
            /\ tree' = r.tree /\ UNCHANGED <<clipboard, stray>>
            /\ r.ok => Begin(c, <<[source |-> Source(c), target |-> to, next |-> 0]>>, {})
            /\ ~r.ok => UNCHANGED work
    BY DEF PasteDirectory
  <1>2. /\ IsVolume(tree) /\ Kind(tree, cwd) = "dir" /\ cwd \in Seq(Names) /\ c.name \in Names
        /\ Source(c) \in DOMAIN tree /\ Source(c) \in Seq(Names)
        /\ to \notin DOMAIN tree
        /\ Apart([from |-> Source(c), to |-> to])
    BY AcceptedIs
  <1>3. /\ tree' = tree \/ tree' \in Added(tree, cwd, c.name, Alone("dir"))
        /\ r.ok => tree' \in Added(tree, cwd, c.name, Alone("dir"))
    BY <1>1, CreateIs
  <1>4. to \in Seq(Names) /\ IsPrefix(to, to)
    BY <1>2, FrontOfAppend, PrefixOfItself
  <1> HIDE DEF to
  <1>5. ASSUME tree' \in Added(tree, cwd, c.name, Alone("dir"))
        PROVE  IsVolume(tree') /\ GrowsIn(tree, tree', to) /\ Kind(tree', to) = "dir"
    BY <1>2, <1>5, AddedDirectory DEF to
  <1>6. IsVolume(tree') /\ Keeps(tree, tree')
    BY <1>2, <1>3, <1>5 DEF GrowsIn, Keeps
  <1>7. OnlyConfirmed /\ \A m \in clipboard : m \in Marks /\ (~stray => Follows(m)')
    BY <1>6, KeepsStep
  <1>8. ClipOK'
    BY <1>1, <1>7 DEF ClipOK
  <1>9. CASE ~r.ok
    BY <1>1, <1>6, <1>7, <1>8, <1>9, Idle DEF StepOK
  <1>10. CASE r.ok
    <2> DEFINE frame == [source |-> Source(c), target |-> to, next |-> 0]
    <2>1. PICK t, j : /\ task' = {t} /\ t = [from |-> Source(c), to |-> to]
                      /\ job' = {j} /\ j = [dirs |-> <<frame>>, file |-> {}]
      BY <1>1, <1>10 DEF Begin, to
    <2>2. task = {}
      BY DEF IInv, DialogOK
    <2>3. Apart(t) /\ t.to = to /\ t.from = Source(c)
      BY <1>2, <2>1
    <2>4. GrowsIn(tree, tree', to) /\ Kind(tree', to) = "dir"
      BY <1>3, <1>5, <1>10
    <2>5. OnlyAdds
      BY <1>2, <1>6, <2>1, <2>2, <2>3, <2>4, GrowsStep DEF OnlyAdds
    <2>6. JobFits(j, t)'
      <3>1. frame \in Frames
        BY <1>2, <1>4 DEF Frames
      <3>2. /\ frame.source \in DOMAIN tree'
            /\ Kind(tree', frame.target) = "dir" /\ IsPrefix(to, frame.target)
        BY <1>2, <1>4, <1>6, <2>4 DEF Keeps
      <3>3. j.dirs = <<frame>> /\ j.file = {}
        BY <2>1
      <3> HIDE DEF frame
      <3>4. j \in Jobs
        BY <2>1, <3>1 DEF Jobs
      <3>5. ASSUME NEW i \in DOMAIN j.dirs PROVE j.dirs[i] = frame
        BY <3>3, <3>5
      <3> QED
        BY <2>3, <3>2, <3>3, <3>4, <3>5 DEF JobFits, Paths
    <2>7. JobOK'
      BY <2>1, <2>3, <2>6 DEF JobOK, Apart
    <2> QED
      BY <1>6, <1>7, <1>8, <2>5, <2>7 DEF StepOK
  <1> QED
    BY <1>9, <1>10

(* Pasting a file begins a copy; the file is created with its first chunk. *)
LEMMA PasteFileStep ==
    ASSUME IInv, NEW c \in clipboard, Accepts(c), PasteFile(c), job = {}
    PROVE  StepOK
  <1> DEFINE to == Append(cwd, c.name)
             f  == FileJob(c.parent, cwd, c.name)
  <1>1. /\ UNCHANGED <<tree, clipboard, stray>>
        /\ Begin(c, <<>>, {f})
    BY DEF PasteFile
  <1>2. /\ cwd \in Seq(Names) /\ c.name \in Names /\ c.parent \in Seq(Names)
        /\ Apart([from |-> Source(c), to |-> to])
    BY AcceptedIs
  <1>3. /\ IsVolume(tree') /\ OnlyConfirmed /\ OnlyAdds
        /\ \A m \in clipboard : m \in Marks /\ (~stray => Follows(m)')
    BY <1>1, Same
  <1>4. ClipOK'
    BY <1>1, <1>3 DEF ClipOK
  <1>5. PICK t, j : /\ task' = {t} /\ t = [from |-> Source(c), to |-> to]
                    /\ job' = {j} /\ j = [dirs |-> <<>>, file |-> {f}]
    BY <1>1 DEF Begin
  <1>6. Apart(t) /\ t.to = to
    BY <1>2, <1>5
  <1>7. f \in FileJobs /\ Append(f.target, f.name) = to
    BY <1>2 DEF FileJobs, FileJob
  <1>8. to \in Seq(Names) /\ IsPrefix(to, to)
    BY <1>2, FrontOfAppend, PrefixOfItself
  <1> HIDE DEF f, to
  <1>9. JobFits(j, t)'
    <2>1. j \in Jobs /\ j.dirs = <<>> /\ j.file = {f}
      <3>1. <<>> \in Seq(Frames)
        OBVIOUS
      <3> QED
        BY <1>5, <1>7, <3>1 DEF Jobs
    <2>2. DOMAIN j.dirs = {}
      BY <2>1
    <2>3. \A g \in j.file : IsPrefix(t.to, Append(g.target, g.name))
      BY <1>6, <1>7, <1>8, <2>1
    <2> QED
      BY <2>1, <2>2, <2>3 DEF JobFits
  <1>10. JobOK'
    BY <1>5, <1>6, <1>9 DEF JobOK, Apart
  <1> QED
    BY <1>3, <1>4, <1>10 DEF StepOK

LEMMA PasteStep ==
    ASSUME IInv, Paste
    PROVE  StepOK
  <1>1. job = {}
    BY DEF Paste, At
  <1>2. CASE UNCHANGED <<tree, clipboard, stray, work>>
    BY <1>2, QuietStep
  <1>3. ASSUME NEW c \in clipboard, Accepts(c), PasteMove(c) \/ PasteDirectory(c) \/ PasteFile(c)
        PROVE  StepOK
    BY <1>1, <1>3, PasteMoveStep, PasteDirectoryStep, PasteFileStep
  <1>4. \/ UNCHANGED <<tree, clipboard, stray, work>>
        \/ \E c \in clipboard : Accepts(c) /\ (PasteMove(c) \/ PasteDirectory(c) \/ PasteFile(c))
    BY DEF Paste
  <1> QED
    BY <1>2, <1>3, <1>4

-----------------------------------------------------------------------------
(* The steps of a copy.                                                    *)

(* A chunk is made of units of the source, and so is a part of it.         *)
LEMMA UnitsAre ==
    ASSUME IsTree(tree), NEW f \in FileJobs, Copyable(f)
    PROVE  /\ Units(f) \in Seq(Content) /\ Len(Units(f)) \in Nat
           /\ \A n \in 0 .. Len(Units(f)) : SubSeq(Units(f), 1, n) \in Seq(Content)
  <1> DEFINE from == Append(f.source, f.name)
             data == tree[from].data
  <1>1. from \in DOMAIN tree
    BY DEF Copyable, Kind
  <1>2. data \in Seq(Content) /\ Len(data) \in Nat
    <2>1. tree[from] \in Nodes
      BY <1>1, Children
    <2>2. data \in Seq(Content)
      BY <2>1 DEF Nodes
    <2> QED
      BY <2>2, LenProperties
  <1>3. f.at \in Nat /\ Chunk \in Nat
    BY PageIs DEF FileJobs
  <1>4. Units(f) = SubSeq(data, f.at + 1, IF f.at + Chunk < Len(data) THEN f.at + Chunk ELSE Len(data))
    BY DEF Units
  <1> HIDE DEF data
  <1>5. PICK a, b : /\ a = f.at + 1
                    /\ b = IF f.at + Chunk < Len(data) THEN f.at + Chunk ELSE Len(data)
    OBVIOUS
  <1>6. a \in Nat /\ a >= 1 /\ b \in Nat /\ b <= Len(data)
    BY ONLY <1>2, <1>3, <1>5
  <1>7. Units(f) \in Seq(Content)
    <2>1. SubSeq(data, a, b) \in Seq(Content)
      BY ONLY <1>2, <1>6
    <2> QED
      BY <1>4, <1>5, <2>1
  <1>8. Len(Units(f)) \in Nat
    BY <1>7, LenProperties
  <1>9. ASSUME NEW n \in 0 .. Len(Units(f)) PROVE SubSeq(Units(f), 1, n) \in Seq(Content)
    BY ONLY <1>7, <1>8, <1>9
  <1> QED
    BY <1>7, <1>8, <1>9

(* Writing a chunk, or a part of it, changes only what the copy was asked to write.*)
LEMMA WrittenStep ==
    ASSUME IsVolume(tree), NEW f \in FileJobs, Copyable(f), NEW v \in Targets(f),
           NEW units \in Seq(Content), NEW to \in Seq(Names), IsPrefix(to, Append(f.target, f.name))
    PROVE  LET u == Written(v, Append(f.target, f.name), units)
           IN  IsVolume(u) /\ GrowsIn(tree, u, to)
  <1> DEFINE p == Append(f.target, f.name)
  <1>1. f.target \in Seq(Names) /\ f.name \in Names /\ Kind(tree, f.target) = "dir"
    BY DEF FileJobs, Copyable
  <1>2. IsVolume(v) /\ GrowsIn(tree, v, to)
    <2>1. CASE f.started
      BY <2>1, GrowsSelf DEF Targets
    <2>2. CASE ~f.started
      <3>1. v \in Added(tree, f.target, f.name, Alone("file")) /\ p \notin DOMAIN tree
        BY <2>2 DEF Targets, Copyable
      <3>2. PICK kind \in {"file", "dir", "broken"} : kind = "file"
        OBVIOUS
      <3>3. v \in Added(tree, f.target, f.name, Alone(kind))
        BY <3>1, <3>2
      <3> QED
        BY <1>1, <3>1, <3>3, AddedGrows
    <2> QED
      BY <2>1, <2>2
  <1>3. IsVolume(Written(v, p, units)) /\ GrowsIn(v, Written(v, p, units), to)
    BY <1>2, WrittenGrows
  <1>4. GrowsIn(tree, Written(v, p, units), to)
    BY <1>2, <1>3, GrowsTwice
  <1> QED
    BY <1>3, <1>4

(* The stack of directories a copy is in.                                  *)
LEMMA FramesAre ==
    ASSUME NEW j \in Jobs
    PROVE  /\ j.dirs \in Seq(Frames) /\ j.file \subseteq FileJobs
           /\ Len(j.dirs) \in Nat /\ DOMAIN j.dirs = 1 .. Len(j.dirs)
           /\ j.dirs # <<>> => /\ Len(j.dirs) \in DOMAIN j.dirs
                               /\ Last(j.dirs) = j.dirs[Len(j.dirs)] /\ Last(j.dirs) \in Frames
                               /\ Front(j.dirs) \in Seq(Frames)
                               /\ DOMAIN Front(j.dirs) = 1 .. Len(j.dirs) - 1
                               /\ \A i \in 1 .. Len(j.dirs) - 1 : Front(j.dirs)[i] = j.dirs[i]
  <1>1. j.dirs \in Seq(Frames) /\ j.file \subseteq FileJobs
    BY DEF Jobs
  <1>2. Len(j.dirs) \in Nat /\ DOMAIN j.dirs = 1 .. Len(j.dirs)
    BY <1>1, LenProperties
  <1> DEFINE dirs == j.dirs
  <1> HIDE DEF dirs
  <1>3. ASSUME dirs # <<>>, dirs \in Seq(Frames), Len(dirs) \in Nat, DOMAIN dirs = 1 .. Len(dirs)
        PROVE  /\ Len(dirs) \in DOMAIN dirs
               /\ Last(dirs) = dirs[Len(dirs)] /\ Last(dirs) \in Frames
               /\ Front(dirs) \in Seq(Frames)
               /\ DOMAIN Front(dirs) = 1 .. Len(dirs) - 1
               /\ \A i \in 1 .. Len(dirs) - 1 : Front(dirs)[i] = dirs[i]
    <2>1. Len(dirs) >= 1
      BY <1>3, EmptySeq
    <2>2. PICK n : n = Len(dirs) - 1
      OBVIOUS
    <2>3. n \in 0 .. Len(dirs)
      BY <1>3, <2>1, <2>2
    <2>4. Front(dirs) = SubSeq(dirs, 1, n)
      BY <2>2 DEF Front
    <2>5. /\ SubSeq(dirs, 1, n) \in Seq(Frames) /\ DOMAIN SubSeq(dirs, 1, n) = 1 .. n
          /\ \A i \in 1 .. n : SubSeq(dirs, 1, n)[i] = dirs[i]
      BY ONLY <1>3, <2>3
    <2>6. Last(dirs) = dirs[Len(dirs)] /\ Len(dirs) \in DOMAIN dirs
      BY <1>3, <2>1 DEF Last
    <2>7. Last(dirs) \in Frames
      BY <1>3, <2>6
    <2> QED
      BY <2>2, <2>4, <2>5, <2>6, <2>7
  <1> QED
    BY <1>1, <1>2, <1>3 DEF dirs

(* Counting an item off changes no path of the job.                        *)
LEMMA PassedIs ==
    ASSUME NEW j \in Jobs, j.dirs # <<>>
    PROVE  /\ Passed(j) \in Jobs /\ Passed(j).file = j.file
           /\ Passed(j) = [dirs |-> Passed(j).dirs, file |-> j.file]
           /\ Passed(j).dirs \in Seq(Frames) /\ Len(Passed(j).dirs) = Len(j.dirs)
           /\ DOMAIN Passed(j).dirs = 1 .. Len(j.dirs)
           /\ \A i \in 1 .. Len(j.dirs) : /\ Passed(j).dirs[i].source = j.dirs[i].source
                                          /\ Passed(j).dirs[i].target = j.dirs[i].target
  <1> DEFINE n == Len(j.dirs)
             d == [j.dirs EXCEPT ![n].next = @ + 1]
  <1>1. /\ j.dirs \in Seq(Frames) /\ j.file \subseteq FileJobs /\ n \in Nat
        /\ DOMAIN j.dirs = 1 .. n /\ n \in 1 .. n
    BY FramesAre
  <1>2. j = [dirs |-> j.dirs, file |-> j.file]
    BY DEF Jobs
  <1>3. Passed(j) = [dirs |-> d, file |-> j.file]
    BY <1>2 DEF Passed
  <1>4. \A i \in 1 .. n : j.dirs[i] \in Frames
    BY <1>1
  <1>5. \A i \in 1 .. n : d[i] = IF i = n THEN [j.dirs[n] EXCEPT !.next = @ + 1] ELSE j.dirs[i]
    BY <1>1
  <1>6. DOMAIN d = 1 .. n
    BY <1>1
  <1>7. [j.dirs[n] EXCEPT !.next = @ + 1] \in Frames
    <2>1. PICK g \in Frames : g = j.dirs[n]
      BY <1>1, <1>4
    <2>2. [g EXCEPT !.next = @ + 1] \in Frames
      BY ONLY <2>1 DEF Frames
    <2> QED
      BY <2>1, <2>2
  <1>8. \A i \in 1 .. n : d[i] \in Frames
    BY <1>4, <1>5, <1>7
  <1>9. \A i \in 1 .. n : d[i].source = j.dirs[i].source /\ d[i].target = j.dirs[i].target
    BY <1>4, <1>5 DEF Frames
  <1>10. d = [i \in 1 .. n |-> d[i]]
    BY <1>6
  <1> HIDE DEF d
  <1>11. d \in Seq(Frames) /\ Len(d) = n
    <2>1. [i \in 1 .. n |-> d[i]] \in Seq(Frames)
      BY <1>1, <1>8
    <2>2. Len([i \in 1 .. n |-> d[i]]) = n
      BY <1>1
    <2> QED
      BY <1>10, <2>1, <2>2
  <1> QED
    BY <1>1, <1>3, <1>6, <1>9, <1>11 DEF Jobs

Progress ==
    /\ IsVolume(tree') /\ \A t \in task : GrowsIn(tree, tree', t.to)
    /\ \/ task' = {}
       \/ task' = task /\ \E k : job' = {k} /\ \A t \in task : JobFits(k, t)'

(* A step that makes progress of the copy does all a step should.          *)
LEMMA ProgressStep ==
    ASSUME IInv, job # {}, UNCHANGED <<clipboard, stray>>, Progress
    PROVE  StepOK
  <1>1. IsVolume(tree') /\ \A t \in task : Apart(t) /\ GrowsIn(tree, tree', t.to)
    BY DEF Progress, IInv, JobOK
  <1>2. Keeps(tree, tree')
    <2>1. task # {}
      BY DEF IInv, DialogOK
    <2> QED
      BY <1>1, <2>1 DEF GrowsIn
  <1>3. OnlyConfirmed /\ \A c \in clipboard : c \in Marks /\ (~stray => Follows(c)')
    BY <1>2, KeepsStep
  <1>4. ClipOK'
    BY <1>3 DEF ClipOK
  <1>5. OnlyAdds
    <2>1. task \cup task' = task
      BY DEF Progress
    <2>2. IsVolume(tree)
      BY DEF IInv
    <2> QED
      BY <1>1, <2>1, <2>2, GrowsStep DEF OnlyAdds
  <1>6. JobOK'
    <2>1. CASE task' = {}
      BY <2>1 DEF JobOK
    <2>2. ASSUME task' = task, NEW k, job' = {k}, \A t \in task : JobFits(k, t)' PROVE JobOK'
      BY <1>1, <2>2 DEF JobOK, Apart
    <2> QED
      BY <2>1, <2>2 DEF Progress
  <1> QED
    BY <1>1, <1>3, <1>4, <1>5, <1>6 DEF StepOK

LEMMA JobIs ==
    ASSUME IInv, NEW j \in job
    PROVE  /\ IsVolume(tree) /\ IsTree(tree) /\ j \in Jobs
           /\ \A t \in task : t.to \in Seq(Names) /\ JobFits(j, t)
  <1>1. task # {} /\ \A t \in task : t.to \in Seq(Names) /\ JobFits(j, t)
    BY DEF IInv, DialogOK, JobOK, Apart
  <1>2. j \in Jobs
    BY <1>1 DEF JobFits
  <1> QED
    BY <1>1, <1>2 DEF IInv, IsVolume

(* The copy ends, or fails, and leaves the card as it is.                  *)
LEMMA FinishStep ==
    ASSUME IInv, UNCHANGED tree, NEW outcome, Finish(outcome)
    PROVE  Progress
  <1>1. IsVolume(tree') /\ \A t \in task : GrowsIn(tree, tree', t.to)
    BY GrowsSelf DEF IInv
  <1> QED
    BY <1>1 DEF Progress, Finish

(* One chunk of a file.                                                    *)
LEMMA CopyFileStep ==
    ASSUME IInv, NEW j \in job, CopyFile(j)
    PROVE  Progress
  <1>1. PICK f \in j.file :
            IF Copyable(f)
            THEN /\ tree' \in {Written(t, Append(f.target, f.name), Units(f)) : t \in Targets(f)}
                 /\ Continue(AfterChunk(j, f, Units(f)))
            ELSE UNCHANGED tree /\ Fail
    BY DEF CopyFile
  <1>2. /\ IsVolume(tree) /\ IsTree(tree) /\ j \in Jobs
        /\ \A t \in task : t.to \in Seq(Names) /\ JobFits(j, t)
    BY JobIs
  <1>3. CASE ~Copyable(f)
    BY <1>1, <1>3, FinishStep DEF Fail
  <1>4. CASE Copyable(f)
    <2>1. f \in FileJobs
      BY <1>2, FramesAre
    <2>2. PICK v \in Targets(f) : tree' = Written(v, Append(f.target, f.name), Units(f))
      BY <1>1, <1>4
    <2>3. Units(f) \in Seq(Content) /\ Len(Units(f)) \in Nat
      BY <1>2, <1>4, <2>1, UnitsAre
    <2>4. \A t \in task : IsPrefix(t.to, Append(f.target, f.name))
      BY <1>2 DEF JobFits
    <2>5. \A t \in task : IsVolume(tree') /\ GrowsIn(tree, tree', t.to)
      BY <1>2, <1>4, <2>1, <2>2, <2>3, <2>4, WrittenStep
    <2>6. task # {}
      BY DEF IInv, DialogOK
    <2>7. \A t \in task : JobFits(j, t)'
      BY <1>2, <2>5, <2>6, KeepsStep DEF GrowsIn
    <2>8. PICK g \in FileJobs : /\ g = [f EXCEPT !.at = @ + Len(Units(f)), !.started = TRUE]
                                /\ g.target = f.target /\ g.name = f.name
      <3>1. PICK n \in Nat : n = Len(Units(f))
        BY <2>3
      <3>2. PICK g : g = [f EXCEPT !.at = @ + n, !.started = TRUE]
        OBVIOUS
      <3>3. g = [source |-> f.source, target |-> f.target, name |-> f.name, at |-> f.at + n,
                 started |-> TRUE]
        BY ONLY <2>1, <3>1, <3>2 DEF FileJobs
      <3>4. g \in FileJobs /\ g.target = f.target /\ g.name = f.name
        BY ONLY <2>1, <3>1, <3>3 DEF FileJobs
      <3> QED
        BY <3>1, <3>2, <3>4
    <2>k. PICK k : k = AfterChunk(j, f, Units(f))
      OBVIOUS
    <2>9. /\ k \in Jobs /\ k.dirs = j.dirs
          /\ \A h \in k.file : h.target = f.target /\ h.name = f.name
      <3>1. j = [dirs |-> j.dirs, file |-> j.file] /\ j.dirs \in Seq(Frames)
        BY <1>2 DEF Jobs
      <3>2. \/ k = [dirs |-> j.dirs, file |-> {}]
            \/ k = [dirs |-> j.dirs, file |-> {g}]
        BY <2>8, <2>k, <3>1 DEF AfterChunk
      <3>3. CASE k = [dirs |-> j.dirs, file |-> {}]
        BY <3>1, <3>3 DEF Jobs
      <3>4. CASE k = [dirs |-> j.dirs, file |-> {g}]
        <4>1. k.dirs = j.dirs /\ k.file = {g}
          BY <3>4
        <4>2. {g} \in SUBSET FileJobs
          BY <2>8
        <4>3. k \in Jobs
          BY <3>1, <3>4, <4>2 DEF Jobs
        <4> QED
          BY <2>8, <4>1, <4>3
      <3> QED
        BY <3>2, <3>3, <3>4
    <2>10. /\ job' = {k} /\ UNCHANGED task
      BY <1>1, <1>4, <2>k DEF Continue
    <2>11. \A t \in task : JobFits(k, t)'
      <3> SUFFICES ASSUME NEW t \in task PROVE JobFits(k, t)'
        OBVIOUS
      <3>1. \A h \in k.file : IsPrefix(t.to, Append(h.target, h.name))
        BY <2>4, <2>9
      <3>2. JobFits(j, t)'
        BY <2>7
      <3> QED
        BY <2>9, <3>1, <3>2 DEF JobFits
    <2> QED
      BY <2>5, <2>6, <2>10, <2>11 DEF Progress
  <1> QED
    BY <1>3, <1>4

(* Entering a directory adds one to the target.                            *)
LEMMA EnteredIs ==
    ASSUME IInv, NEW j \in job, j.dirs # <<>>, NEW name \in Names, Enterable(j, name),
           IsDir(tree, Append(Last(j.dirs).source, name)),
           tree' \in Added(tree, Last(j.dirs).target, name, Alone("dir"))
    PROVE  /\ IsVolume(tree') /\ \A t \in task : GrowsIn(tree, tree', t.to)
           /\ Append(Last(j.dirs).source, name) \in DOMAIN tree'
           /\ Kind(tree', Append(Last(j.dirs).target, name)) = "dir"
           /\ \A t \in task : IsPrefix(t.to, Append(Last(j.dirs).target, name))
  <1> DEFINE dir == Last(j.dirs).target
             at  == Append(dir, name)
  <1>1. /\ IsVolume(tree) /\ j \in Jobs /\ task # {}
        /\ \A t \in task : t.to \in Seq(Names) /\ JobFits(j, t)
    BY JobIs DEF IInv, DialogOK
  <1>2. /\ Last(j.dirs) = j.dirs[Len(j.dirs)] /\ Len(j.dirs) \in DOMAIN j.dirs
        /\ Last(j.dirs) \in Frames
    BY <1>1, FramesAre
  <1>3. dir \in Seq(Names)
    BY <1>2 DEF Frames
  <1>4. Kind(tree, dir) = "dir" /\ \A t \in task : IsPrefix(t.to, dir)
    BY <1>1, <1>2 DEF JobFits
  <1>5. at \in Seq(Names) /\ IsPrefix(dir, at)
    BY <1>3, FrontOfAppend
  <1>6. \A t \in task : IsPrefix(t.to, at)
    BY <1>1, <1>3, <1>4, <1>5, PrefixTransitive
  <1>7. at \notin DOMAIN tree
    BY DEF Enterable
  <1>8. ASSUME NEW t \in task
        PROVE  IsVolume(tree') /\ GrowsIn(tree, tree', t.to) /\ Kind(tree', at) = "dir"
    <2>1. PICK kind \in {"file", "dir", "broken"} : kind = "dir"
      OBVIOUS
    <2>2. tree' \in Added(tree, dir, name, Alone(kind)) /\ t.to \in Seq(Names)
      BY <1>1, <2>1
    <2> HIDE DEF dir
    <2> QED
      BY <1>1, <1>4, <1>6, <1>7, <2>1, <2>2, AddedGrows
  <1>9. Append(Last(j.dirs).source, name) \in DOMAIN tree
    BY DEF IsDir, Kind
  <1> QED
    BY <1>1, <1>6, <1>8, <1>9 DEF GrowsIn, Keeps

(* What is counted off in a directory is a name.                           *)
LEMMA ItemIs ==
    ASSUME IInv, NEW j \in job, j.dirs # <<>>, NEW name \in ItemAt(Last(j.dirs))
    PROVE  name \in Names
  <1>1. IsTree(tree) /\ j \in Jobs /\ task # {} /\ \A t \in task : JobFits(j, t)
    BY JobIs DEF IInv, DialogOK
  <1>2. Last(j.dirs) = j.dirs[Len(j.dirs)] /\ Len(j.dirs) \in DOMAIN j.dirs
    BY <1>1, FramesAre
  <1>3. Last(j.dirs).source \in DOMAIN tree
    BY <1>1, <1>2 DEF JobFits, Paths
  <1>4. /\ tree[Last(j.dirs).source].items \in Seq(Names)
        /\ Range(tree[Last(j.dirs).source].items) \subseteq Names
    BY <1>1, <1>3, Children
  <1> QED
    BY <1>4 DEF ItemAt, Range

(* A job whose frames were all frames of a job that fits does too.         *)
LEMMA FitsToo ==
    ASSUME NEW t, NEW j, JobFits(j, t)', NEW k \in Jobs,
           \A i \in DOMAIN k.dirs : \E h \in DOMAIN j.dirs :
                /\ k.dirs[i].source = j.dirs[h].source
                /\ k.dirs[i].target = j.dirs[h].target,
           \A f \in k.file : IsPrefix(t.to, Append(f.target, f.name))
    PROVE  JobFits(k, t)'
  BY DEF JobFits

(* A directory all of whose items have been counted is left.               *)
LEMMA LeaveDirectoryStep ==
    ASSUME IInv, NEW j \in job, j.file = {}, j.dirs # <<>>, UNCHANGED tree,
           Continue([j EXCEPT !.dirs = Front(@)])
    PROVE  Progress
  <1>1. /\ IsVolume(tree) /\ j \in Jobs
        /\ \A t \in task : JobFits(j, t)
    BY JobIs
  <1>2. PICK k : k = [j EXCEPT !.dirs = Front(@)]
    OBVIOUS
  <1>3. k = [dirs |-> Front(j.dirs), file |-> {}]
    BY <1>1, <1>2 DEF Jobs
  <1>4. /\ Front(j.dirs) \in Seq(Frames) /\ Len(j.dirs) \in Nat /\ DOMAIN j.dirs = 1 .. Len(j.dirs)
        /\ DOMAIN Front(j.dirs) = 1 .. Len(j.dirs) - 1
        /\ \A i \in 1 .. Len(j.dirs) - 1 : Front(j.dirs)[i] = j.dirs[i]
    BY <1>1, FramesAre
  <1>5. k \in Jobs /\ k.file = {} /\ k.dirs = Front(j.dirs)
    BY <1>3, <1>4 DEF Jobs
  <1>6. \A i \in DOMAIN k.dirs : i \in DOMAIN j.dirs /\ k.dirs[i] = j.dirs[i]
    BY <1>4, <1>5
  <1>7. \A t \in task : JobFits(j, t)'
    BY <1>1, Same
  <1>8. \A t \in task : JobFits(k, t)'
    BY <1>5, <1>6, <1>7, FitsToo
  <1>9. job' = {k} /\ task' = task
    BY <1>2 DEF Continue
  <1>10. IsVolume(tree') /\ \A t \in task : GrowsIn(tree, tree', t.to)
    BY <1>1, GrowsSelf
  <1> QED
    BY <1>8, <1>9, <1>10 DEF Progress

(* The next item is a file.                                                *)
LEMMA BeginFileStep ==
    ASSUME IInv, NEW j \in job, j.file = {}, j.dirs # <<>>, UNCHANGED tree,
           NEW name \in ItemAt(Last(j.dirs)),
           Continue([Passed(j) EXCEPT
                        !.file = {FileJob(Last(j.dirs).source, Last(j.dirs).target, name)}])
    PROVE  Progress
  <1>1. /\ IsVolume(tree) /\ j \in Jobs
        /\ \A t \in task : t.to \in Seq(Names) /\ JobFits(j, t)
    BY JobIs
  <1>2. name \in Names
    BY ItemIs
  <1>3. /\ Last(j.dirs) = j.dirs[Len(j.dirs)] /\ Len(j.dirs) \in DOMAIN j.dirs
        /\ Last(j.dirs) \in Frames /\ DOMAIN j.dirs = 1 .. Len(j.dirs)
    BY <1>1, FramesAre
  <1>4. PICK source, target, f : /\ source = Last(j.dirs).source /\ target = Last(j.dirs).target
                                 /\ f = FileJob(source, target, name)
    OBVIOUS
  <1>5. source \in Seq(Names) /\ target \in Seq(Names)
    BY <1>3, <1>4 DEF Frames
  <1>6. f \in FileJobs /\ f.target = target /\ f.name = name
    BY <1>2, <1>4, <1>5 DEF FileJobs, FileJob
  <1>7. PICK k : k = [Passed(j) EXCEPT !.file = {f}]
    OBVIOUS
  <1>8. /\ Passed(j) = [dirs |-> Passed(j).dirs, file |-> j.file]
        /\ Passed(j).dirs \in Seq(Frames) /\ DOMAIN Passed(j).dirs = 1 .. Len(j.dirs)
        /\ \A i \in 1 .. Len(j.dirs) : /\ Passed(j).dirs[i].source = j.dirs[i].source
                                       /\ Passed(j).dirs[i].target = j.dirs[i].target
    BY <1>1, PassedIs
  <1>9. k = [dirs |-> Passed(j).dirs, file |-> {f}]
    BY <1>7, <1>8
  <1>10. k \in Jobs /\ k.file = {f} /\ k.dirs = Passed(j).dirs
    <2>1. {f} \in SUBSET FileJobs
      BY <1>6
    <2> QED
      BY <1>8, <1>9, <2>1 DEF Jobs
  <1>11. \A i \in DOMAIN k.dirs : /\ i \in DOMAIN j.dirs
                                  /\ k.dirs[i].source = j.dirs[i].source
                                  /\ k.dirs[i].target = j.dirs[i].target
    BY <1>3, <1>8, <1>10
  <1>12. \A t \in task : IsPrefix(t.to, Append(f.target, f.name))
    <2> SUFFICES ASSUME NEW t \in task PROVE IsPrefix(t.to, Append(target, name))
      BY <1>6
    <2>1. t.to \in Seq(Names) /\ IsPrefix(t.to, target)
      BY <1>1, <1>3, <1>4 DEF JobFits
    <2> QED
      BY <1>2, <1>5, <2>1, PrefixOfAppend
  <1>13. \A t \in task : JobFits(j, t)'
    BY <1>1, Same
  <1>14. \A t \in task : JobFits(k, t)'
    <2> SUFFICES ASSUME NEW t \in task PROVE JobFits(k, t)'
      OBVIOUS
    <2>1. \A h \in k.file : IsPrefix(t.to, Append(h.target, h.name))
      BY <1>10, <1>12
    <2> QED
      BY <1>10, <1>11, <1>13, <2>1, FitsToo
  <1>15. job' = {k} /\ task' = task
    BY <1>4, <1>7 DEF Continue
  <1>16. IsVolume(tree') /\ \A t \in task : GrowsIn(tree, tree', t.to)
    BY <1>1, GrowsSelf
  <1> QED
    BY <1>14, <1>15, <1>16 DEF Progress

(* The next item is a directory.                                           *)
LEMMA EnterDirectoryStep ==
    ASSUME IInv, NEW j \in job, j.file = {}, j.dirs # <<>>, NEW name \in ItemAt(Last(j.dirs)),
           IsDir(tree, Append(Last(j.dirs).source, name)), EnterDirectory(j, name)
    PROVE  Progress
  <1>1. /\ IsVolume(tree) /\ j \in Jobs /\ task # {}
        /\ \A t \in task : t.to \in Seq(Names) /\ JobFits(j, t)
    BY JobIs DEF IInv, DialogOK
  <1>2. name \in Names
    BY ItemIs
  <1>3. /\ Last(j.dirs) = j.dirs[Len(j.dirs)] /\ Len(j.dirs) \in DOMAIN j.dirs
        /\ Last(j.dirs) \in Frames /\ DOMAIN j.dirs = 1 .. Len(j.dirs) /\ Len(j.dirs) \in Nat
    BY <1>1, FramesAre
  <1>4. CASE ~Enterable(j, name)
    BY <1>4, FinishStep DEF EnterDirectory, Fail
  <1>5. CASE Enterable(j, name)
    <2>1. PICK new : new = [source |-> Append(Last(j.dirs).source, name),
                            target |-> Append(Last(j.dirs).target, name), next |-> 0]
      OBVIOUS
    <2>2. PICK k : k = [Passed(j) EXCEPT !.dirs = Append(@, new)]
      OBVIOUS
    <2>3. /\ tree' \in Added(tree, Last(j.dirs).target, name, Alone("dir"))
          /\ job' = {k} /\ task' = task
      BY <1>5, <2>1, <2>2 DEF EnterDirectory, Continue
    <2>4. /\ IsVolume(tree') /\ \A t \in task : GrowsIn(tree, tree', t.to)
          /\ new.source \in DOMAIN tree' /\ Kind(tree', new.target) = "dir"
          /\ \A t \in task : IsPrefix(t.to, new.target)
      BY <1>2, <1>5, <2>1, <2>3, EnteredIs
    <2>5. new \in Frames
      BY <1>2, <1>3, <2>1, FrontOfAppend DEF Frames
    <2>6. /\ Passed(j) = [dirs |-> Passed(j).dirs, file |-> j.file]
          /\ Passed(j).dirs \in Seq(Frames) /\ Len(Passed(j).dirs) = Len(j.dirs)
          /\ \A i \in 1 .. Len(j.dirs) : /\ Passed(j).dirs[i].source = j.dirs[i].source
                                         /\ Passed(j).dirs[i].target = j.dirs[i].target
      BY <1>1, PassedIs
    <2>7. PICK d \in Seq(Frames) : d = Passed(j).dirs
      BY <2>6
    <2>8. k = [dirs |-> Append(d, new), file |-> {}]
      <3>1. PICK q : q = Passed(j)
        OBVIOUS
      <3>2. q = [dirs |-> d, file |-> {}] /\ k = [q EXCEPT !.dirs = Append(@, new)]
        BY <2>2, <2>6, <2>7, <3>1
      <3> QED
        BY ONLY <3>2
    <2>9. /\ Append(d, new) \in Seq(Frames)
          /\ DOMAIN Append(d, new) = 1 .. Len(j.dirs) + 1
          /\ \A i \in 1 .. Len(j.dirs) : Append(d, new)[i] = d[i]
          /\ Append(d, new)[Len(j.dirs) + 1] = new
      <3>1. Len(d) = Len(j.dirs)
        BY <2>6, <2>7
      <3> QED
        BY ONLY <1>3, <2>5, <2>7, <3>1, AppendProperties, LenProperties
    <2>10. k \in Jobs /\ k.file = {} /\ k.dirs = Append(d, new)
      BY <2>8, <2>9 DEF Jobs
    <2>11. \A t \in task : JobFits(j, t)'
      BY <1>1, <2>4, KeepsStep DEF GrowsIn
    <2>12. \A t \in task : JobFits(k, t)'
      <3> SUFFICES ASSUME NEW t \in task PROVE JobFits(k, t)'
        OBVIOUS
      <3>1. ASSUME NEW i \in DOMAIN k.dirs
            PROVE  /\ k.dirs[i].source \in DOMAIN tree'
                   /\ Kind(tree', k.dirs[i].target) = "dir" /\ IsPrefix(t.to, k.dirs[i].target)
        <4>1. i \in 1 .. Len(j.dirs) + 1
          BY <2>9, <2>10, <3>1
        <4>2. CASE i \in 1 .. Len(j.dirs)
          <5>1. /\ k.dirs[i].source = j.dirs[i].source /\ k.dirs[i].target = j.dirs[i].target
                /\ i \in DOMAIN j.dirs
            BY <1>3, <2>6, <2>7, <2>9, <2>10, <4>2
          <5> QED
            BY <2>11, <5>1 DEF JobFits, Paths
        <4>3. CASE i = Len(j.dirs) + 1
          BY <2>4, <2>9, <2>10, <4>3
        <4> QED
          BY ONLY <1>3, <4>1, <4>2, <4>3
      <3> QED
        BY <2>10, <3>1 DEF JobFits, Paths
    <2> QED
      BY <2>3, <2>4, <2>12 DEF Progress
  <1> QED
    BY <1>4, <1>5

(* A pass with a running copy.                                             *)
LEMMA PollStep ==
    ASSUME IInv, Poll
    PROVE  StepOK
  <1>1. UNCHANGED <<clipboard, stray>> /\ job # {}
    BY DEF Poll
  <1> SUFFICES Progress
    BY <1>1, ProgressStep
  <1>2. PICK j \in job : CopyFile(j) \/ CopyItem(j) \/ CopyDone(j)
    BY DEF Poll
  <1>3. CASE CopyItem(j)
    <2>1. j.file = {} /\ j.dirs # <<>>
      BY <1>3 DEF CopyItem
    <2>2. CASE UNCHANGED tree /\ Fail
      BY <2>2, FinishStep DEF Fail
    <2>3. CASE UNCHANGED tree /\ Continue([j EXCEPT !.dirs = Front(@)])
      BY <2>1, <2>3, LeaveDirectoryStep
    <2>4. ASSUME NEW name \in ItemAt(Last(j.dirs)),
                 IsDir(tree, Append(Last(j.dirs).source, name)), EnterDirectory(j, name)
          PROVE  Progress
      BY <2>1, <2>4, EnterDirectoryStep
    <2>5. ASSUME NEW name \in ItemAt(Last(j.dirs)), UNCHANGED tree,
                 Continue([Passed(j) EXCEPT
                    !.file = {FileJob(Last(j.dirs).source, Last(j.dirs).target, name)}])
          PROVE  Progress
      BY <2>1, <2>5, BeginFileStep
    <2> QED
      BY <1>3, <2>2, <2>3, <2>4, <2>5 DEF CopyItem
  <1>4. CASE CopyDone(j)
    BY <1>4, FinishStep DEF CopyDone
  <1> QED
    BY <1>2, <1>3, <1>4, CopyFileStep

(* A pass in which the card fails, with whatever the step leaves behind.   *)
LEMMA PollFailsStep ==
    ASSUME IInv, PollFails
    PROVE  StepOK
  <1>1. UNCHANGED <<clipboard, stray>> /\ job # {} /\ task' = {}
    BY DEF PollFails, Fail, Finish
  <1>2. PICK j \in job : (j.file # {} \/ j.dirs # <<>>) /\ LeavesBehind(j)
    BY DEF PollFails
  <1>3. /\ IsVolume(tree) /\ IsTree(tree) /\ j \in Jobs /\ task # {}
        /\ \A t \in task : t.to \in Seq(Names) /\ JobFits(j, t)
    BY JobIs DEF IInv, DialogOK
  <1>4. ASSUME UNCHANGED tree
        PROVE  IsVolume(tree') /\ \A t \in task : GrowsIn(tree, tree', t.to)
    BY <1>3, <1>4, GrowsSelf
  <1>5. ASSUME NEW f \in j.file, Copyable(f), NEW v \in Targets(f), NEW n \in 0 .. Len(Units(f)),
               tree' = Written(v, Append(f.target, f.name), SubSeq(Units(f), 1, n))
        PROVE  IsVolume(tree') /\ \A t \in task : GrowsIn(tree, tree', t.to)
    <2>1. f \in FileJobs
      BY <1>3, FramesAre
    <2>2. SubSeq(Units(f), 1, n) \in Seq(Content)
      BY <1>3, <1>5, <2>1, UnitsAre
    <2>3. \A t \in task : IsPrefix(t.to, Append(f.target, f.name))
      BY <1>3 DEF JobFits
    <2>4. PICK units \in Seq(Content) : units = SubSeq(Units(f), 1, n)
      BY <2>2
    <2>5. \A t \in task : IsVolume(tree') /\ GrowsIn(tree, tree', t.to)
      BY <1>3, <1>5, <2>1, <2>3, <2>4, WrittenStep
    <2> QED
      BY <1>3, <2>5
  <1>6. ASSUME j.file = {}, NEW name \in ItemAt(Last(j.dirs)), Enterable(j, name),
               IsDir(tree, Append(Last(j.dirs).source, name)),
               tree' \in Added(tree, Last(j.dirs).target, name, Alone("dir"))
        PROVE  IsVolume(tree') /\ \A t \in task : GrowsIn(tree, tree', t.to)
    <2>1. j.dirs # <<>>
      BY <1>2, <1>6
    <2>2. name \in Names
      BY <1>6, <2>1, ItemIs
    <2> QED
      BY <1>6, <2>1, <2>2, EnteredIs
  <1>7. IsVolume(tree') /\ \A t \in task : GrowsIn(tree, tree', t.to)
    BY <1>2, <1>3, <1>4, <1>5, <1>6, GrowsSelf DEF LeavesBehind
  <1>8. Progress
    BY <1>1, <1>7 DEF Progress
  <1> QED
    BY <1>1, <1>8, ProgressStep

-----------------------------------------------------------------------------
(* Every step.                                                             *)

LEMMA AnyStep ==
    ASSUME IInv, [Next]_vars
    PROVE  StepOK
  <1>1. CASE Start \/ Drop \/ Return \/ Move \/ Turn \/ Enter \/ Back
    <2>1. UNCHANGED <<tree, work>> /\ (UNCHANGED <<clipboard, stray>> \/ clipboard' = {})
      BY <1>1 DEF Start, Drop, Return, Move, Turn, Enter, Back, Clear, history
    <2> QED
      BY <2>1, QuietStep
  <1>2. CASE Actions \/ Cancel \/ DeletePrompt \/ (\E action \in Naming : NameInput(action))
    <2>1. UNCHANGED <<tree, work, clipboard, stray>>
      BY <1>2 DEF Actions, Cancel, DeletePrompt, NameInput, history
    <2> QED
      BY <2>1, QuietStep
  <1>3. CASE \E moving \in BOOLEAN : Mark(moving)
    <2>1. UNCHANGED <<tree, work>>
      BY <1>3 DEF Mark
    <2> QED
      BY <1>3, <2>1, QuietStep
  <1>4. CASE SubmitName
    <2>1. job = {} /\ view \in Naming /\ UNCHANGED work
      BY <1>4 DEF SubmitName, At
    <2>2. CASE UNCHANGED <<tree, clipboard, stray>>
      BY <2>1, <2>2, QuietStep
    <2>3. ASSUME Kind(tree, cwd) = "dir", NEW name \in Typed, Append(cwd, name) \notin DOMAIN tree,
                 SubmitNew(name) \/ SubmitRename(name)
          PROVE  StepOK
      BY <2>1, <2>3, PageIs, NewStep, RenameStep
    <2> QED
      BY <1>4, <2>2, <2>3 DEF SubmitName
  <1>5. CASE ConfirmDelete
    BY <1>5, DeleteStep
  <1>6. CASE Paste
    BY <1>6, PasteStep
  <1>7. CASE Poll
    BY <1>7, PollStep
  <1>8. CASE PollFails
    BY <1>8, PollFailsStep
  <1>9. CASE UNCHANGED vars
    <2>1. UNCHANGED <<tree, work, clipboard, stray>>
      BY <1>9 DEF vars, history
    <2> QED
      BY <2>1, QuietStep
  <1> QED
    BY <1>1, <1>2, <1>3, <1>4, <1>5, <1>6, <1>7, <1>8, <1>9 DEF Next

-----------------------------------------------------------------------------
(* The theorems.                                                           *)

LEMMA Starts == Init => IInv
  <1> SUFFICES ASSUME Init PROVE IInv
    OBVIOUS
  <1>1. IsVolume(tree)
    BY VolumesAssumption DEF Init
  <1>2. ListOK
    <2>1. /\ cwd = <<>> /\ page = 0 /\ selected = 0 /\ entries = <<>>
      BY DEF Init
    <2>2. PageLen \in Nat \ {0} /\ 0 % PageLen = 0
      BY PageIs, PageSteps
    <2>3. <<>> \in Seq(Items) /\ Len(<<>>) = 0 /\ <<>> \in Seq(Names)
      BY EmptySeq
    <2> QED
      BY <2>1, <2>2, <2>3 DEF ListOK
  <1>3. Fresh /\ DialogOK /\ ClipOK /\ JobOK
    BY DEF Init, Fresh, DialogOK, ClipOK, JobOK
  <1> QED
    BY <1>1, <1>2, <1>3 DEF IInv

(* The invariant is inductive, and no step that starts in it loses an entry
   unconfirmed or changes more than a copy should. *)
LEMMA Inductive == IInv /\ [Next]_vars => IInv' /\ OnlyConfirmed /\ OnlyAdds
  <1> SUFFICES ASSUME IInv, [Next]_vars PROVE IInv' /\ OnlyConfirmed /\ OnlyAdds
    OBVIOUS
  <1>1. IsVolume(tree') /\ ClipOK' /\ JobOK' /\ OnlyConfirmed /\ OnlyAdds
    BY AnyStep DEF StepOK
  <1>2. ListOK' /\ Fresh'
    BY <1>1, ListStep
  <1>3. DialogOK'
    BY DialogStep
  <1> QED
    BY <1>1, <1>2, <1>3 DEF IInv

LEMMA Invariant == Spec => []IInv
  BY Starts, Inductive, PTL DEF Spec

(* In every reachable state the volume is a tree whose directories list their
   entries once, the manager stands in a directory, the selection lies in the
   list, and dialogs and jobs fit together (FileManager in filemanager.rs). *)
THEOREM FilesTyped == Spec => []TypeOK
  <1>1. IInv => TypeOK
    <2> SUFFICES ASSUME IInv PROVE TypeOK
      OBVIOUS
    <2>1. lagging \/ IsDir(tree, cwd)
      BY DEF IInv, Fresh, IsDir
    <2> QED
      BY <2>1 DEF IInv, ListOK, DialogOK, TypeOK
  <1> QED
    BY <1>1, Invariant, PTL

(* The screen shows the directory as it is on the card, on whatever page, unless
   reading it failed or a call that failed changed it (FileManager::reload and
   its callers). *)
THEOREM ListShowsTheDirectory == Spec => []ListIsFresh
  <1>1. IInv => ListIsFresh
    BY DEF IInv, Fresh, ListIsFresh
  <1> QED
    BY <1>1, Invariant, PTL

(* The clipboard never names an entry that was renamed, moved or deleted by its
   own name, and never one that became another kind of entry (the places that
   clear FileManager.clipboard). *)
THEOREM ClipboardFollows == Spec => []ClipboardKeepsUp
  <1>1. IInv => ClipboardKeepsUp
    BY DEF IInv, ClipOK, Follows, ClipboardKeepsUp
  <1> QED
    BY <1>1, Invariant, PTL

(* Whatever names, trees and failures of the card: what disappears is the one
   entry that was confirmed, empty if it is a directory, or is found whole at
   another path (rename, paste of a move, delete). *)
THEOREM NothingElseIsLost == Spec => LossIsConfirmed
  <1>1. IInv /\ [Next]_vars =>
            [\A p \in Paths \ DOMAIN tree' :
                \/ /\ \E name \in confirm : p = Append(cwd, name)
                   /\ tree[p].items = <<>>
                \/ \E q \in Paths \ DOMAIN tree', r \in DOMAIN tree' \ Paths :
                        IsPrefix(q, p) /\ Subtree(tree', r) = Subtree(tree, q)]_vars
    BY Inductive DEF OnlyConfirmed
  <1> QED
    BY <1>1, Invariant, PTL DEF Spec, LossIsConfirmed

(* Every step of a copy, one in which the card fails included, leaves the source
   subtree as it is, whatever lies outside of the target too, but for the
   directory the target is listed in (CopyJob::step, paste). *)
THEOREM SourceStaysIntact == Spec => CopyOnlyAdds
  <1>1. IInv /\ [Next]_vars =>
            [\A t \in task \cup task' :
                /\ KeepsAllBut(t.to)
                /\ Subtree(tree', t.from) = Subtree(tree, t.from)]_vars
    BY Inductive DEF OnlyAdds
  <1> QED
    BY <1>1, Invariant, PTL DEF Spec, CopyOnlyAdds

=============================================================================
