--------------------------- MODULE JsonTreeProofs ---------------------------
(***************************************************************************)
(* What the operations on JSON trees do, path by path.                     *)
(***************************************************************************)
EXTENDS JsonTree, SequenceTheorems, WellFoundedInduction, TLAPS

-----------------------------------------------------------------------------
(* Paths *)

LEMMA ConcatPaths ==
  ASSUME NEW p \in Path, NEW q \in Path
  PROVE  /\ p \o q \in Path
         /\ Len(p \o q) = Len(p) + Len(q)
         /\ SubSeq(p \o q, 1, Len(p)) = p
         /\ SubSeq(p \o q, Len(p) + 1, Len(p \o q)) = q
<1>1. /\ p \o q \in Path
      /\ Len(p \o q) = Len(p) + Len(q)
  BY DEF Path
<1>2. SubSeq(p \o q, 1, Len(p)) = p
  BY <1>1 DEF Path
<1>3. SubSeq(p \o q, Len(p) + 1, Len(p \o q)) = q
  BY <1>1 DEF Path
<1>4. QED
  BY <1>1, <1>2, <1>3

LEMMA SplitPath ==
  ASSUME NEW d \in Path, NEW n \in 0..Len(d)
  PROVE  /\ SubSeq(d, 1, n) \in Path /\ Len(SubSeq(d, 1, n)) = n
         /\ SubSeq(d, n + 1, Len(d)) \in Path
         /\ d = SubSeq(d, 1, n) \o SubSeq(d, n + 1, Len(d))
<1>1. /\ SubSeq(d, 1, n) \in Path /\ Len(SubSeq(d, 1, n)) = n
      /\ SubSeq(d, n + 1, Len(d)) \in Path /\ Len(SubSeq(d, n + 1, Len(d))) = Len(d) - n
  BY DEF Path
<1>2. d = SubSeq(d, 1, n) \o SubSeq(d, n + 1, Len(d))
  <2> DEFINE a == SubSeq(d, 1, n)
             b == SubSeq(d, n + 1, Len(d))
  <2>1. /\ a \in Seq(Step) /\ b \in Seq(Step) /\ d \in Seq(Step)
        /\ Len(d) \in Nat /\ n \in 0..Len(d) /\ Len(a) = n /\ Len(b) = Len(d) - n
    BY <1>1 DEF Path
  <2>2. /\ \A i \in 1..n : a[i] = d[i]
        /\ \A i \in 1..Len(d) - n : b[i] = d[n + i]
    BY <2>1
  <2> HIDE DEF a, b
  <2>3. a \o b \in Seq(Step) /\ Len(a \o b) = Len(d)
    BY <2>1
  <2>4. ASSUME NEW i \in 1..Len(d) PROVE d[i] = (a \o b)[i]
    <3>1. (a \o b)[i] = IF i <= n THEN a[i] ELSE b[i - n]
      BY <2>1, ConcatProperties
    <3>2. CASE i <= n
      BY <2>2, <3>1, <3>2
    <3>3. CASE ~(i <= n)
      <4>1. i - n \in 1..Len(d) - n /\ n + (i - n) = i
        BY <2>1, <3>3
      <4>2. QED
        BY <2>2, <3>1, <3>3, <4>1
    <3>4. QED
      BY <3>2, <3>3
  <2>5. d = a \o b
    BY <2>1, <2>3, <2>4, SeqEqual
  <2>6. QED
    BY <2>5 DEF a, b
<1>3. QED
  BY <1>1, <1>2

(* A prefix is what something can be put behind. *)
LEMMA PrefixOfConcat ==
  ASSUME NEW p \in Path, NEW q \in Path
  PROVE  IsPrefix(p, p \o q)
<1>1. SubSeq(p, 1, Len(p)) = p
  BY DEF Path
<1>2. QED
  BY <1>1, ConcatPaths DEF IsPrefix, Path

LEMMA PrefixSplits ==
  ASSUME NEW p \in Path, NEW d \in Path, IsPrefix(p, d)
  PROVE  /\ SubSeq(d, Len(p) + 1, Len(d)) \in Path
         /\ d = p \o SubSeq(d, Len(p) + 1, Len(d))
<1>1. Len(p) \in 0..Len(d) /\ SubSeq(p, 1, Len(p)) = p
  BY DEF Path, IsPrefix
<1>2. QED
  BY <1>1, SplitPath DEF IsPrefix

LEMMA ConcatCancels ==
  ASSUME NEW p \in Path, NEW q \in Path, NEW r \in Path, p \o q = p \o r
  PROVE  q = r
<1>1. SubSeq(p \o q, Len(p) + 1, Len(p \o q)) = q
  BY ConcatPaths
<1>2. SubSeq(p \o r, Len(p) + 1, Len(p \o r)) = r
  BY ConcatPaths
<1>3. QED
  BY <1>1, <1>2

LEMMA PrefixTransitive ==
  ASSUME NEW p \in Path, NEW q \in Path, NEW d \in Path, IsPrefix(p, q), IsPrefix(q, d)
  PROVE  IsPrefix(p, d)
<1> DEFINE b == SubSeq(q, Len(p) + 1, Len(q))
           c == SubSeq(d, Len(q) + 1, Len(d))
<1>1. b \in Path /\ q = p \o b /\ c \in Path /\ d = q \o c
  BY PrefixSplits
<1> HIDE DEF b, c
<1>2. d = p \o (b \o c) /\ b \o c \in Path
  BY <1>1, ConcatAssociative, ConcatPaths DEF Path
<1>3. QED
  BY <1>2, PrefixOfConcat

LEMMA EmptyPath ==
  /\ <<>> \in Path /\ Len(<<>>) = 0
  /\ \A p : SubSeq(p, 1, 0) = <<>>
  /\ \A p \in Path : p \o <<>> = p /\ <<>> \o p = p
<1>1. <<>> \in Path /\ Len(<<>>) = 0
  BY EmptySeq DEF Path
<1>2. \A p : SubSeq(p, 1, 0) = <<>>
  BY SubSeqEmpty
<1>3. \A p \in Path : p \o <<>> = p /\ <<>> \o p = p
  BY ConcatEmptySeq DEF Path
<1>4. QED
  BY <1>1, <1>2, <1>3

(* What begins a path that is put together of two. *)
LEMMA ConcatBegins ==
  ASSUME NEW p \in Path, NEW q \in Path, NEW n \in 0..Len(p \o q)
  PROVE  /\ n <= Len(p) => SubSeq(p \o q, 1, n) = SubSeq(p, 1, n)
         /\ n >= Len(p) => /\ n - Len(p) \in 0..Len(q)
                           /\ SubSeq(p \o q, 1, n) = p \o SubSeq(q, 1, n - Len(p))
<1>1. /\ p \in Seq(Step) /\ q \in Seq(Step) /\ Len(p) \in Nat /\ Len(q) \in Nat
      /\ n \in 0..Len(p) + Len(q)
      /\ \A j \in 1..Len(p) + Len(q) : (p \o q)[j] = IF j <= Len(p) THEN p[j] ELSE q[j - Len(p)]
      /\ p \o q \in Seq(Step)
  BY ConcatProperties DEF Path
<1>2. /\ SubSeq(p \o q, 1, n) \in Seq(Step)
      /\ Len(SubSeq(p \o q, 1, n)) = n
      /\ \A j \in 1..n : SubSeq(p \o q, 1, n)[j] = (p \o q)[j]
  BY <1>1
<1>3. CASE n <= Len(p)
  <2>1. /\ SubSeq(p, 1, n) \in Seq(Step)
        /\ Len(SubSeq(p, 1, n)) = n
        /\ \A j \in 1..n : SubSeq(p, 1, n)[j] = p[j]
    BY <1>1, <1>3
  <2>2. \A j \in 1..n : SubSeq(p \o q, 1, n)[j] = SubSeq(p, 1, n)[j]
    BY <1>1, <1>2, <1>3, <2>1
  <2>3. SubSeq(p \o q, 1, n) = SubSeq(p, 1, n)
    BY <1>2, <2>1, <2>2, SeqEqual
  <2>4. n >= Len(p) => n = Len(p) /\ n - Len(p) = 0 /\ SubSeq(p, 1, n) = p
    BY <1>1, <1>3
  <2>5. p \o SubSeq(q, 1, 0) = p
    BY <1>1
  <2>6. n >= Len(p) => /\ n - Len(p) \in 0..Len(q)
                       /\ SubSeq(p, 1, n) = p \o SubSeq(q, 1, n - Len(p))
    <3>1. ASSUME n >= Len(p) PROVE n - Len(p) = 0 /\ SubSeq(p, 1, n) = p
      BY <2>4, <3>1
    <3>2. 0 \in 0..Len(q)
      BY <1>1
    <3>3. QED
      BY <2>5, <3>1, <3>2
  <2>7. QED
    BY <2>3, <2>6
<1>4. CASE n > Len(p)
  <2> DEFINE b == SubSeq(q, 1, n - Len(p))
  <2>1. /\ b \in Seq(Step)
        /\ Len(b) = n - Len(p) /\ n - Len(p) \in 0..Len(q)
        /\ \A j \in 1..n - Len(p) : b[j] = q[j]
    BY <1>1, <1>4
  <2> HIDE DEF b
  <2>2. /\ p \o b \in Seq(Step)
        /\ Len(p \o b) = n
        /\ \A j \in 1..n : (p \o b)[j] = IF j <= Len(p) THEN p[j] ELSE b[j - Len(p)]
    BY <1>1, <1>4, <2>1, ConcatProperties
  <2>3. ASSUME NEW j \in 1..n PROVE SubSeq(p \o q, 1, n)[j] = (p \o b)[j]
    <3>1. SubSeq(p \o q, 1, n)[j] = IF j <= Len(p) THEN p[j] ELSE q[j - Len(p)]
      BY <1>1, <1>2
    <3>2. ~(j <= Len(p)) => b[j - Len(p)] = q[j - Len(p)]
      BY <1>1, <1>4, <2>1
    <3>3. QED
      BY <2>2, <3>1, <3>2
  <2>4. SubSeq(p \o q, 1, n) = p \o b
    BY <1>2, <2>2, <2>3, SeqEqual
  <2>5. QED
    BY <1>1, <1>4, <2>1, <2>4 DEF b
<1>5. QED
  BY <1>1, <1>3, <1>4

(* A step more at the end, a step more in front. *)
LEMMA AppendPath ==
  ASSUME NEW p \in Path, NEW x \in Step
  PROVE  /\ Append(p, x) = p \o <<x>>
         /\ <<x>> \in Path /\ Len(<<x>>) = 1
         /\ Append(p, x) \in Path /\ Len(Append(p, x)) = Len(p) + 1
<1>1. p \in Seq(Step) /\ Len(p) \in Nat
  BY DEF Path
<1>2. Append(p, x) = p \o <<x>>
  BY <1>1, AppendIsConcat
<1>3. <<x>> \in Seq(Step) /\ Len(<<x>>) = 1
  BY <1>1
<1>4. Append(p, x) \in Seq(Step) /\ Len(Append(p, x)) = Len(p) + 1
  BY <1>1
<1>5. QED
  BY <1>2, <1>3, <1>4 DEF Path

LEMMA StepPath ==
  ASSUME NEW x \in Step, NEW q \in Path
  PROVE  /\ <<x>> \in Path /\ <<x>> \o q \in Path
         /\ <<x>> \o q # <<>>
         /\ Head(<<x>> \o q) = x /\ Tail(<<x>> \o q) = q
         /\ \A n \in 1..Len(<<x>> \o q) :
              n - 1 \in 0..Len(q) /\ SubSeq(<<x>> \o q, 1, n) = <<x>> \o SubSeq(q, 1, n - 1)
<1>1. /\ <<x>> \in Path /\ Len(<<x>>) = 1
      /\ <<x>> \o q \in Path /\ Len(<<x>> \o q) = Len(q) + 1 /\ Len(q) \in Nat
  <2>1. <<x>> \in Path /\ Len(<<x>>) = 1 /\ Len(q) \in Nat
    <3>1. <<x>> \in Path /\ Len(<<x>>) = 1
      BY AppendPath
    <3>2. Len(q) \in Nat
      BY DEF Path
    <3>3. QED
      BY <3>1, <3>2
  <2>2. <<x>> \o q \in Path /\ Len(<<x>> \o q) = Len(<<x>>) + Len(q)
    BY <2>1, ConcatPaths
  <2>3. QED
    BY <2>1, <2>2
<1>2. <<x>> \o q # <<>> /\ Head(<<x>> \o q) = x
  BY DEF Path
<1>3. Tail(<<x>> \o q) = q
  <2>1. Tail(<<x>> \o q) = SubSeq(<<x>> \o q, 2, Len(<<x>> \o q))
    BY <1>1, <1>2, TailIsSubSeq DEF Path
  <2>2. SubSeq(<<x>> \o q, Len(<<x>>) + 1, Len(<<x>> \o q)) = q
    BY <1>1, ConcatPaths
  <2>3. Len(<<x>>) + 1 = 2
    BY <1>1
  <2>4. QED
    BY <2>1, <2>2, <2>3
<1>4. ASSUME NEW n \in 1..Len(<<x>> \o q)
      PROVE  n - 1 \in 0..Len(q) /\ SubSeq(<<x>> \o q, 1, n) = <<x>> \o SubSeq(q, 1, n - 1)
  <2>1. n \in 0..Len(<<x>> \o q) /\ n >= Len(<<x>>)
    BY <1>1
  <2>2. QED
    BY <1>1, <2>1, ConcatBegins
<1>5. QED
  BY <1>1, <1>2, <1>3, <1>4

(* A walk along a path, step by step. *)
LEMMA WalkPath ==
  ASSUME NEW d \in Path, NEW n \in 0..Len(d) - 1
  PROVE  /\ SubSeq(d, 1, n) \in Path /\ IsPrefix(SubSeq(d, 1, n), d)
         /\ d[n + 1] \in Step
         /\ Append(SubSeq(d, 1, n), d[n + 1]) = SubSeq(d, 1, n + 1)
         /\ n = Len(d) - 1 => SubSeq(d, 1, n + 1) = d
<1>1. d \in Seq(Step) /\ Len(d) \in Nat /\ n \in 0..Len(d) /\ n + 1 \in 1..Len(d)
  BY DEF Path
<1>2. SubSeq(d, 1, n) \in Path /\ IsPrefix(SubSeq(d, 1, n), d)
  BY <1>1, SplitPath, PrefixOfConcat
<1>3. d[n + 1] \in Step
  BY <1>1
<1>4. Append(SubSeq(d, 1, n), d[n + 1]) = SubSeq(d, 1, n + 1)
  <2>1. SubSeq(d, 1, n + 1) = SubSeq(d, 1, n) \o <<d[n + 1]>>
    <3>1. 1 \in 1..Len(d) /\ n + 1 \in 1..Len(d) /\ (n + 1) - 1 = n
      BY <1>1
    <3>2. QED
      BY <1>1, <3>1, SubSeqRecursiveSecond
  <2>2. QED
    BY <1>2, <1>3, <2>1, AppendPath
<1>5. n = Len(d) - 1 => SubSeq(d, 1, n + 1) = d
  BY <1>1, SubSeqFull
<1>6. QED
  BY <1>2, <1>3, <1>4, <1>5

-----------------------------------------------------------------------------
(* Trees *)

LEMMA TreePaths ==
  ASSUME NEW t, IsTree(t)
  PROVE  /\ <<>> \in DOMAIN t
         /\ DOMAIN t \subseteq Path
         /\ \A p, q \in Path : p \o q \in DOMAIN t => p \in DOMAIN t
<1>1. <<>> \in DOMAIN t /\ DOMAIN t \subseteq Path
  BY DEF IsTree
<1>2. ASSUME NEW p \in Path, NEW q \in Path, p \o q \in DOMAIN t PROVE p \in DOMAIN t
  <2>1. Len(p) \in 0..Len(p \o q) /\ SubSeq(p \o q, 1, Len(p)) = p
    BY ConcatPaths DEF Path
  <2>2. QED
    BY <1>2, <2>1 DEF IsTree
<1>3. QED
  BY <1>1, <1>2

(* Closure under prefixes, as it is used. *)
LEMMA TreeFromPaths ==
  ASSUME NEW D \in SUBSET Path, <<>> \in D,
         \A p, q \in Path : p \o q \in D => p \in D,
         NEW t, t = [d \in D |-> t[d]]
  PROVE  IsTree(t)
<1>1. DOMAIN t = D
  OBVIOUS
<1>2. ASSUME NEW d \in D, NEW n \in 0..Len(d) PROVE SubSeq(d, 1, n) \in D
  <2>1. d \in Path
    OBVIOUS
  <2>2. /\ SubSeq(d, 1, n) \in Path /\ SubSeq(d, n + 1, Len(d)) \in Path
        /\ d = SubSeq(d, 1, n) \o SubSeq(d, n + 1, Len(d))
    BY <2>1, SplitPath
  <2>3. QED
    BY <2>2
<1>3. QED
  BY <1>1, <1>2 DEF IsTree

LEMMA TreesEqual ==
  ASSUME NEW s, NEW t, IsTree(s), IsTree(t),
         \A q \in Path : q \in DOMAIN s <=> q \in DOMAIN t,
         \A q \in DOMAIN s : s[q] = t[q]
  PROVE  s = t
<1>1. DOMAIN s = DOMAIN t
  BY TreePaths
<1>2. s = [d \in DOMAIN s |-> s[d]] /\ t = [d \in DOMAIN t |-> t[d]]
  BY DEF IsTree
<1>3. QED
  BY <1>1, <1>2

LEMMA ScalarTree ==
  ASSUME NEW v
  PROVE  /\ IsTree(Scalar(v))
         /\ DOMAIN Scalar(v) = {<<>>}
         /\ Scalar(v)[<<>>] = v
<1>1. Scalar(v) = [x \in {<<>>} |-> v]
  BY DEF Scalar
<1>2. <<>> \in Path /\ Len(<<>>) = 0 /\ SubSeq(<<>>, 1, 0) = <<>>
  BY DEF Path
<1>3. QED
  BY <1>1, <1>2 DEF IsTree

LEMMA BelowIs ==
  ASSUME NEW t, IsTree(t), NEW p \in Path
  PROVE  Below(t, p) = {q \in Path : p \o q \in DOMAIN t}
<1>1. ASSUME NEW q \in Below(t, p) PROVE q \in Path /\ p \o q \in DOMAIN t
  <2>1. PICK d \in DOMAIN t : IsPrefix(p, d) /\ q = SubSeq(d, Len(p) + 1, Len(d))
    BY <1>1 DEF Below
  <2>2. QED
    BY <2>1, TreePaths, PrefixSplits
<1>2. ASSUME NEW q \in Path, p \o q \in DOMAIN t PROVE q \in Below(t, p)
  <2>1. IsPrefix(p, p \o q)
    BY PrefixOfConcat
  <2>2. q = SubSeq(p \o q, Len(p) + 1, Len(p \o q))
    BY ConcatPaths
  <2>3. QED
    BY <1>2, <2>1, <2>2 DEF Below
<1>3. QED
  BY <1>1, <1>2

LEMMA SubtreeTree ==
  ASSUME NEW t, IsTree(t), NEW p \in DOMAIN t
  PROVE  /\ IsTree(Subtree(t, p))
         /\ \A q \in Path : q \in DOMAIN Subtree(t, p) <=> p \o q \in DOMAIN t
         /\ \A q \in DOMAIN Subtree(t, p) : Subtree(t, p)[q] = t[p \o q]
<1> DEFINE D == {q \in Path : p \o q \in DOMAIN t}
<1>1. p \in Path
  BY TreePaths
<1>2. Subtree(t, p) = [q \in D |-> t[p \o q]]
  BY <1>1, BelowIs DEF Subtree
<1>3. <<>> \in D
  <2>1. p \o <<>> = p /\ <<>> \in Path
    BY <1>1 DEF Path
  <2>2. QED
    BY <2>1
<1>4. ASSUME NEW q \in Path, NEW r \in Path, q \o r \in D PROVE q \in D
  <2>1. (p \o q) \o r = p \o (q \o r) /\ p \o q \in Path
    BY <1>1, ConcatAssociative DEF Path
  <2>2. QED
    BY <1>4, <2>1, TreePaths
<1> HIDE DEF D
<1>5. DOMAIN Subtree(t, p) = D /\ Subtree(t, p) = [q \in D |-> Subtree(t, p)[q]]
  BY <1>2
<1>6. D \subseteq Path
  BY DEF D
<1>7. IsTree(Subtree(t, p))
  BY <1>3, <1>4, <1>5, <1>6, TreeFromPaths
<1>8. QED
  BY <1>2, <1>5, <1>7 DEF D

-----------------------------------------------------------------------------
(* Objects and arrays *)

(* A node and the trees below it. *)
LEMMA NodeBelow ==
  ASSUME NEW f, \A k \in DOMAIN f : k \in Step /\ IsTree(f[k]), NEW node,
         NEW k \in Step, NEW q \in Path
  PROVE  /\ <<k>> \o q \in DOMAIN Node(node, f) <=> k \in DOMAIN f /\ q \in DOMAIN f[k]
         /\ <<k>> \o q \in DOMAIN Node(node, f) => Node(node, f)[<<k>> \o q] = f[k][q]
<1> DEFINE D == {<<>>} \cup UNION {{<<l>> \o r : r \in DOMAIN f[l]} : l \in DOMAIN f}
<1>1. <<k>> \o q \in D <=> k \in DOMAIN f /\ q \in DOMAIN f[k]
  <2>1. ASSUME <<k>> \o q \in D PROVE k \in DOMAIN f /\ q \in DOMAIN f[k]
    <3>1. <<k>> \o q # <<>>
      BY StepPath
    <3>2. PICK l \in DOMAIN f : \E r \in DOMAIN f[l] : <<k>> \o q = <<l>> \o r
      BY <2>1, <3>1
    <3>3. PICK r \in DOMAIN f[l] : <<k>> \o q = <<l>> \o r
      BY <3>2
    <3>4. r \in Path /\ l \in Step
      BY <3>3, TreePaths
    <3>5. Head(<<k>> \o q) = k /\ Tail(<<k>> \o q) = q
      BY StepPath
    <3>6. Head(<<l>> \o r) = l /\ Tail(<<l>> \o r) = r
      BY <3>4, StepPath
    <3>7. QED
      BY <3>3, <3>5, <3>6
  <2>2. ASSUME k \in DOMAIN f, q \in DOMAIN f[k] PROVE <<k>> \o q \in D
    <3>1. <<k>> \o q \in {<<k>> \o r : r \in DOMAIN f[k]}
      BY <2>2
    <3>2. QED
      BY <2>2, <3>1
  <2>3. QED
    BY <2>1, <2>2
<1>2. Node(node, f) = [d \in D |-> IF d = <<>> THEN node ELSE f[Head(d)][Tail(d)]]
  BY DEF Node
<1>3. <<k>> \o q # <<>> /\ Head(<<k>> \o q) = k /\ Tail(<<k>> \o q) = q
  BY StepPath
<1> HIDE DEF D
<1>4. QED
  BY <1>1, <1>2, <1>3

LEMMA NodeTree ==
  ASSUME NEW f, \A k \in DOMAIN f : k \in Step /\ IsTree(f[k]), NEW node
  PROVE  IsTree(Node(node, f)) /\ Node(node, f)[<<>>] = node
<1> DEFINE D == {<<>>} \cup UNION {{<<k>> \o q : q \in DOMAIN f[k]} : k \in DOMAIN f}
           t == Node(node, f)
<1>2. ASSUME NEW d \in D, d # <<>>
      PROVE  \E k \in DOMAIN f : \E q \in DOMAIN f[k] : q \in Path /\ k \in Step /\ d = <<k>> \o q
  <2>1. PICK k \in DOMAIN f : \E q \in DOMAIN f[k] : d = <<k>> \o q
    BY <1>2
  <2>2. QED
    BY <2>1, TreePaths
<1>3. t = [d \in D |-> IF d = <<>> THEN node ELSE f[Head(d)][Tail(d)]] /\ <<>> \in D
  BY DEF Node
<1> HIDE DEF D, t
<1>4. DOMAIN t = D /\ t = [d \in D |-> t[d]] /\ t[<<>>] = node
  BY <1>3
<1>5. \A k \in Step : \A q \in Path :
        k \in DOMAIN f /\ q \in DOMAIN f[k] => <<k>> \o q \in D
  BY <1>4, NodeBelow DEF t
<1>6. ASSUME NEW d \in D
      PROVE  d \in Path /\ \A n \in 0..Len(d) : SubSeq(d, 1, n) \in D
  <2>1. CASE d = <<>>
    <3>1. d \in Path /\ Len(d) = 0 /\ SubSeq(d, 1, 0) = <<>>
      BY <2>1, EmptyPath
    <3>2. \A n \in 0..Len(d) : n = 0
      BY <3>1
    <3>3. QED
      BY <1>3, <3>1, <3>2
  <2>2. CASE d # <<>>
    <3>1. PICK k \in DOMAIN f : \E q \in DOMAIN f[k] : q \in Path /\ k \in Step /\ d = <<k>> \o q
      BY <1>2, <2>2
    <3>2. PICK q \in DOMAIN f[k] : q \in Path /\ k \in Step /\ d = <<k>> \o q
      BY <3>1
    <3>3. d \in Path /\ Len(d) \in Nat
      BY <3>2, StepPath, LenProperties DEF Path
    <3>4. ASSUME NEW n \in 0..Len(d) PROVE SubSeq(d, 1, n) \in D
      <4>1. CASE n = 0
        BY <1>3, <4>1, EmptyPath
      <4>2. CASE n # 0
        <5>1. n \in 1..Len(d)
          BY <3>3, <4>2
        <5>2. n - 1 \in 0..Len(q) /\ SubSeq(d, 1, n) = <<k>> \o SubSeq(q, 1, n - 1)
          BY <3>2, <5>1, StepPath
        <5>3. SubSeq(q, 1, n - 1) \in DOMAIN f[k] /\ SubSeq(q, 1, n - 1) \in Path
          BY <3>2, <5>2, SplitPath DEF IsTree
        <5>4. QED
          BY <1>5, <3>2, <5>2, <5>3
      <4>3. QED
        BY <4>1, <4>2
    <3>5. QED
      BY <3>3, <3>4
  <2>3. QED
    BY <2>1, <2>2
<1>7. IsTree(t)
  BY <1>3, <1>4, <1>6 DEF IsTree
<1>8. QED
  BY <1>4, <1>7 DEF t

(* Value::get of what is below a node. *)
LEMMA NodeValueAt ==
  ASSUME NEW f, \A k \in DOMAIN f : k \in Step /\ IsTree(f[k]), NEW node, NEW k \in Step
  PROVE  /\ <<k>> \in DOMAIN Node(node, f) <=> k \in DOMAIN f
         /\ k \in DOMAIN f => ValueAt(Node(node, f), <<k>>) = f[k]
<1> DEFINE t == Node(node, f)
<1>1. /\ IsTree(t)
      /\ \A q \in Path :
           /\ <<k>> \o q \in DOMAIN t <=> k \in DOMAIN f /\ q \in DOMAIN f[k]
           /\ <<k>> \o q \in DOMAIN t => t[<<k>> \o q] = f[k][q]
  BY NodeTree, NodeBelow
<1> HIDE DEF t
<1>2. <<>> \in Path /\ <<k>> \in Path /\ <<k>> \o <<>> = <<k>>
  BY AppendPath, EmptyPath
<1>3. k \in DOMAIN f => IsTree(f[k]) /\ <<>> \in DOMAIN f[k]
  BY TreePaths
<1>4. <<k>> \in DOMAIN t <=> k \in DOMAIN f
  BY <1>1, <1>2, <1>3
<1>5. ASSUME k \in DOMAIN f PROVE Subtree(t, <<k>>) = f[k]
  <2>1. /\ IsTree(Subtree(t, <<k>>))
        /\ \A q \in Path : q \in DOMAIN Subtree(t, <<k>>) <=> <<k>> \o q \in DOMAIN t
        /\ \A q \in DOMAIN Subtree(t, <<k>>) : Subtree(t, <<k>>)[q] = t[<<k>> \o q]
    BY <1>1, <1>4, <1>5, SubtreeTree
  <2>2. DOMAIN Subtree(t, <<k>>) \subseteq Path
    BY <2>1, TreePaths
  <2>3. QED
    BY <1>1, <1>3, <1>5, <2>1, <2>2, TreesEqual
<1>6. QED
  BY <1>4, <1>5 DEF ValueAt, t

(* An object holds the members that are there. *)
LEMMA ObjectMember ==
  ASSUME NEW f, \A k \in DOMAIN f : k \in Step /\ IsTree(f[k])
  PROVE  /\ IsTree(Object(f)) /\ Object(f)[<<>>] = "object"
         /\ \A k \in Step :
              /\ <<k>> \in DOMAIN Object(f) <=> k \in DOMAIN f /\ f[k] # Absent
              /\ k \in DOMAIN f => ValueAt(Object(f), <<k>>) = f[k]
              /\ k \notin DOMAIN f => ValueAt(Object(f), <<k>>) = Absent
<1> DEFINE K == {k \in DOMAIN f : f[k] # Absent}
           g == Restrict(f, K)
<1>1. DOMAIN g = K /\ \A k \in K : g[k] = f[k]
  BY DEF Restrict
<1>2. Object(f) = Node("object", g)
  BY DEF Object
<1>3. \A k : k \in K <=> k \in DOMAIN f /\ f[k] # Absent
  OBVIOUS
<1> HIDE DEF K, g
<1>4. \A k \in DOMAIN g : k \in Step /\ IsTree(g[k])
  BY <1>1, <1>3
<1>5. IsTree(Object(f)) /\ Object(f)[<<>>] = "object"
  BY <1>2, <1>4, NodeTree
<1>6. ASSUME NEW k \in Step
      PROVE  /\ <<k>> \in DOMAIN Object(f) <=> k \in K
             /\ k \in K => ValueAt(Object(f), <<k>>) = f[k]
             /\ k \notin K => ValueAt(Object(f), <<k>>) = Absent
  <2>1. /\ <<k>> \in DOMAIN Object(f) <=> k \in K
        /\ k \in K => ValueAt(Object(f), <<k>>) = f[k]
    BY <1>1, <1>2, <1>4, NodeValueAt
  <2>2. QED
    BY <2>1 DEF ValueAt
<1>7. QED
  BY <1>3, <1>5, <1>6

LEMMA SingletonMember ==
  ASSUME NEW t, IsTree(t)
  PROVE  /\ IsTree(Singleton(t)) /\ <<"[0]">> \in DOMAIN Singleton(t)
         /\ ValueAt(Singleton(t), <<"[0]">>) = t
<1> DEFINE f == [k \in {"[0]"} |-> t]
<1>1. DOMAIN f = {"[0]"} /\ f["[0]"] = t
  OBVIOUS
<1>2. Singleton(t) = Node("array", f)
  BY DEF Singleton
<1> HIDE DEF f
<1>3. \A k \in DOMAIN f : k \in Step /\ IsTree(f[k])
  BY <1>1, StepAssumption
<1>4. QED
  BY <1>1, <1>2, <1>3, StepAssumption, NodeTree, NodeValueAt

-----------------------------------------------------------------------------
(* Insertion *)

(* A value put where nothing was, under nodes that are all there. *)
LEMMA GraftExtends ==
  ASSUME NEW t, IsTree(t), NEW v, IsTree(v), NEW p \in Path, p \notin DOMAIN t,
         \A n \in 0..Len(p) - 1 : SubSeq(p, 1, n) \in DOMAIN t
  PROVE  /\ IsTree(Graft(t, p, v))
         /\ DOMAIN t \subseteq DOMAIN Graft(t, p, v)
         /\ \A d \in DOMAIN t : Graft(t, p, v)[d] = t[d]
         /\ \A d \in DOMAIN Graft(t, p, v) : d \in DOMAIN t \/ IsPrefix(p, d)
         /\ \A q \in Path : /\ p \o q \in DOMAIN Graft(t, p, v) <=> q \in DOMAIN v
                            /\ q \in DOMAIN v => Graft(t, p, v)[p \o q] = v[q]
<1> DEFINE new == {p \o q : q \in DOMAIN v}
           D == DOMAIN t \cup new
           g == Graft(t, p, v)
<1>1. \A q \in Path : p \o q \notin DOMAIN t
  BY TreePaths
<1>2. {d \in DOMAIN t : ~IsPrefix(p, d)} = DOMAIN t
  <2>1. ASSUME NEW d \in DOMAIN t, IsPrefix(p, d) PROVE FALSE
    <3>1. d \in Path
      BY TreePaths
    <3>2. SubSeq(d, Len(p) + 1, Len(d)) \in Path /\ d = p \o SubSeq(d, Len(p) + 1, Len(d))
      BY <2>1, <3>1, PrefixSplits
    <3>3. QED
      BY <1>1, <3>2
  <2>2. QED
    BY <2>1
<1>3. g = [d \in D |-> IF d \in DOMAIN t THEN t[d] ELSE v[SubSeq(d, Len(p) + 1, Len(d))]]
  BY <1>2, Zenon DEF Graft
<1>4. ASSUME NEW q \in DOMAIN v
      PROVE  /\ q \in Path /\ p \o q \in D /\ p \o q \notin DOMAIN t
             /\ SubSeq(p \o q, Len(p) + 1, Len(p \o q)) = q
  <2>1. q \in Path
    BY TreePaths
  <2>2. QED
    BY <1>1, <2>1, ConcatPaths
<1>5. ASSUME NEW q \in Path, p \o q \in D PROVE q \in DOMAIN v
  <2>1. PICK r \in DOMAIN v : p \o q = p \o r
    BY <1>1, <1>5
  <2>2. q = r
    BY <1>4, <2>1, ConcatCancels
  <2>3. QED
    BY <2>2
<1>6. /\ DOMAIN g = D /\ g = [d \in D |-> g[d]]
      /\ \A d \in DOMAIN t : g[d] = t[d]
      /\ \A q \in DOMAIN v : g[p \o q] = v[q]
  <2> HIDE DEF g
  <2>1. DOMAIN g = D /\ \A d \in DOMAIN t : d \in D /\ g[d] = t[d]
    BY <1>3
  <2>2. ASSUME NEW q \in DOMAIN v PROVE g[p \o q] = v[q]
    BY <1>3, <1>4
  <2>3. g = [d \in D |-> g[d]]
    BY <1>3
  <2>4. QED
    BY <2>1, <2>2, <2>3
<1>7. ASSUME NEW d \in D
      PROVE  d \in Path /\ \A n \in 0..Len(d) : SubSeq(d, 1, n) \in D
  <2>1. CASE d \in DOMAIN t
    BY <2>1 DEF IsTree
  <2>2. CASE d \in new
    <3>1. PICK q \in DOMAIN v : d = p \o q
      BY <2>2
    <3>2. q \in Path /\ d \in Path
      BY <1>4, <3>1, ConcatPaths
    <3>3. ASSUME NEW n \in 0..Len(d) PROVE SubSeq(d, 1, n) \in D
      <4>1. Len(p) \in Nat /\ n \in 0..Len(p \o q)
        BY <3>1, LenProperties DEF Path
      <4>2. CASE n < Len(p)
        <5>1. n \in 0..Len(p) - 1 /\ n <= Len(p)
          BY <4>1, <4>2
        <5>2. SubSeq(p \o q, 1, n) = SubSeq(p, 1, n)
          BY <3>2, <4>1, <5>1, ConcatBegins
        <5>3. QED
          BY <3>1, <5>1, <5>2
      <4>3. CASE n >= Len(p)
        <5>1. n - Len(p) \in 0..Len(q) /\ SubSeq(p \o q, 1, n) = p \o SubSeq(q, 1, n - Len(p))
          BY <3>2, <4>1, <4>3, ConcatBegins
        <5>2. SubSeq(q, 1, n - Len(p)) \in DOMAIN v
          BY <5>1 DEF IsTree
        <5>3. QED
          BY <3>1, <5>1, <5>2
      <4> HIDE DEF D
      <4>4. QED
        BY <4>1, <4>2, <4>3
    <3>4. QED
      BY <3>2, <3>3
  <2>3. QED
    BY <2>1, <2>2
<1>8. IsTree(g)
  <2>1. <<>> \in D
    BY TreePaths
  <2> HIDE DEF D, g
  <2>2. QED
    BY <1>6, <1>7, <2>1 DEF IsTree
<1>9. \A d \in D : d \in DOMAIN t \/ IsPrefix(p, d)
  BY <1>4, PrefixOfConcat
<1>10. DOMAIN t \subseteq D /\ \A q \in Path : p \o q \in D <=> q \in DOMAIN v
  BY <1>4, <1>5
<1> HIDE DEF D, g
<1>11. QED
  BY <1>6, <1>8, <1>9, <1>10 DEF g

(* An empty object put there is a node more. *)
LEMMA GraftEmpty ==
  ASSUME NEW t, IsTree(t), NEW p \in Path, p \notin DOMAIN t,
         \A n \in 0..Len(p) - 1 : SubSeq(p, 1, n) \in DOMAIN t
  PROVE  /\ IsTree(Graft(t, p, EmptyObject))
         /\ DOMAIN Graft(t, p, EmptyObject) = DOMAIN t \cup {p}
         /\ \A d \in DOMAIN t : Graft(t, p, EmptyObject)[d] = t[d]
         /\ Graft(t, p, EmptyObject)[p] = "object"
         /\ \A d \in DOMAIN t \cup {p} : IsPrefix(p, d) => d = p
<1> DEFINE g == Graft(t, p, EmptyObject)
<1>1. /\ IsTree(EmptyObject) /\ DOMAIN EmptyObject = {<<>>} /\ EmptyObject[<<>>] = "object"
  BY ScalarTree DEF EmptyObject
<1>2. p \o <<>> = p /\ <<>> \in Path
  BY EmptyPath
<1>3. /\ IsTree(g)
      /\ DOMAIN t \subseteq DOMAIN g
      /\ \A d \in DOMAIN t : g[d] = t[d]
      /\ \A d \in DOMAIN g : d \in DOMAIN t \/ IsPrefix(p, d)
      /\ \A q \in Path : /\ p \o q \in DOMAIN g <=> q \in DOMAIN EmptyObject
                         /\ q \in DOMAIN EmptyObject => g[p \o q] = EmptyObject[q]
  BY <1>1, GraftExtends
<1> HIDE DEF g
<1>4. p \in DOMAIN g /\ g[p] = "object"
  BY <1>1, <1>2, <1>3
<1>5. ASSUME NEW d \in DOMAIN g, IsPrefix(p, d) PROVE d = p /\ d \notin DOMAIN t
  <2>1. d \in Path
    BY <1>3, TreePaths
  <2> DEFINE q == SubSeq(d, Len(p) + 1, Len(d))
  <2>2. q \in Path /\ d = p \o q
    BY <1>5, <2>1, PrefixSplits
  <2> HIDE DEF q
  <2>3. q = <<>>
    BY <1>1, <1>3, <2>2
  <2>4. QED
    BY <1>2, <2>2, <2>3
<1>6. DOMAIN g = DOMAIN t \cup {p}
  BY <1>3, <1>4, <1>5
<1>7. QED
  BY <1>3, <1>4, <1>5, <1>6 DEF g

(* The nodes above a step more are the node it is made from and those above. *)
LEMMA StepsAbove ==
  ASSUME NEW t, IsTree(t), NEW c \in DOMAIN t, NEW x \in Step
  PROVE  /\ Append(c, x) \in Path
         /\ \A n \in 0..Len(Append(c, x)) - 1 : SubSeq(Append(c, x), 1, n) \in DOMAIN t
<1>1. /\ c \in Path /\ Append(c, x) = c \o <<x>> /\ <<x>> \in Path
      /\ Append(c, x) \in Path /\ Len(Append(c, x)) = Len(c) + 1
  BY TreePaths, AppendPath
<1>2. ASSUME NEW n \in 0..Len(Append(c, x)) - 1 PROVE SubSeq(Append(c, x), 1, n) \in DOMAIN t
  <2>1. Len(c) \in Nat /\ n \in 0..Len(c) /\ n \in 0..Len(c \o <<x>>)
    BY <1>1, LenProperties DEF Path
  <2>2. SubSeq(c \o <<x>>, 1, n) = SubSeq(c, 1, n)
    BY <1>1, <2>1, ConcatBegins
  <2>3. SubSeq(c, 1, n) \in DOMAIN t
    BY <2>1 DEF IsTree
  <2>4. QED
    BY <1>1, <2>2, <2>3
<1>3. QED
  BY <1>1, <1>2

-----------------------------------------------------------------------------
(* Recursion on sequences.  The library states its induction theorems for  *)
(* a predicate; these state it for a set.                                  *)

(* Induction on the length of a sequence. *)
LEMMA SequencesAll ==
  ASSUME NEW S, NEW T, <<>> \in T,
         \A s \in Seq(S), e \in S : s \in T => Append(s, e) \in T
  PROVE  Seq(S) \subseteq T
<1> DEFINE Bad == {n \in Nat : \E s \in Seq(S) : Len(s) = n /\ s \notin T}
<1> SUFFICES ASSUME Bad # {} PROVE FALSE
  BY DEF Bad
<1>1. PICK n \in Bad : \A m \in Bad : ~(<<m, n>> \in OpToRel(<, Nat))
  <2>1. Bad \subseteq Nat
    OBVIOUS
  <2>2. QED
    BY <2>1, NatLessThanWellFounded, WFMin
<1>2. PICK s \in Seq(S) : Len(s) = n /\ s \notin T
  BY <1>1
<1>3. PICK t \in Seq(S), e \in S : s = Append(t, e)
  BY <1>2, SequenceEmptyOrAppend
<1>4. Len(t) \in Nat /\ Len(t) < n /\ t \notin T
  BY <1>2, <1>3, AppendProperties
<1>5. Len(t) \in Bad
  BY <1>4
<1>6. <<Len(t), n>> \in OpToRel(<, Nat)
  BY <1>4 DEF OpToRel
<1>7. QED
  BY <1>1, <1>5, <1>6

(* f is the function of sequences that starts with start and takes a step *)
(* with each element.                                                      *)
IsFold(f, X, start, step) ==
  /\ f[<<>>] = start
  /\ \A t \in Seq(X), x \in X : f[Append(t, x)] = step[<<f[t], x>>]

(* A function of sequences defined from its value on the front and the     *)
(* last element exists.                                                    *)
LEMMA FoldExists ==
  ASSUME NEW X, NEW S, NEW start \in S, NEW step \in [S \X X -> S]
  PROVE  \E f \in [Seq(X) -> S] : IsFold(f, X, start, step)
<1> DEFINE Pairs == Seq(X) \X S
           Closed(R) == /\ <<<<>>, start>> \in R
                        /\ \A t \in Seq(X), x \in X, s \in S :
                             <<t, s>> \in R => <<Append(t, x), step[<<s, x>>]>> \in R
           G == {r \in Pairs : \A R \in SUBSET Pairs : Closed(R) => r \in R}
           Once == {t \in Seq(X) : \E s \in S : \A v \in S : <<t, v>> \in G <=> v = s}
<1>1. <<>> \in Seq(X) /\ \A t \in Seq(X), x \in X : Append(t, x) \in Seq(X) /\ Append(t, x) # <<>>
  BY AppendProperties, EmptySeq
<1>2. \A s \in S, x \in X : step[<<s, x>>] \in S
  OBVIOUS
<1>3. Closed(G)
  BY <1>1, <1>2
<1>4. G \in SUBSET Pairs /\ \A R \in SUBSET Pairs : Closed(R) => G \subseteq R
  OBVIOUS
<1>5. <<>> \in Once
  <2>1. ASSUME NEW v \in S, v # start, <<<<>>, v>> \in G PROVE FALSE
    <3> DEFINE R == G \ {<<<<>>, v>>}
    <3>1. R \in SUBSET Pairs
      BY <1>4
    <3>2. Closed(R)
      BY <1>1, <1>3, <2>1
    <3>3. QED
      BY <1>4, <2>1, <3>1, <3>2
  <2>2. QED
    BY <1>1, <1>3, <2>1
<1>6. ASSUME NEW t \in Seq(X), NEW x \in X, t \in Once PROVE Append(t, x) \in Once
  <2>1. PICK s \in S : \A v \in S : <<t, v>> \in G <=> v = s
    BY <1>6
  <2>2. <<Append(t, x), step[<<s, x>>]>> \in G
    BY <1>3, <2>1
  <2>3. ASSUME NEW v \in S, v # step[<<s, x>>], <<Append(t, x), v>> \in G PROVE FALSE
    <3> DEFINE R == G \ {<<Append(t, x), v>>}
    <3>1. R \in SUBSET Pairs
      BY <1>4
    <3>2. <<<<>>, start>> \in R
      BY <1>1, <1>3
    <3>3. ASSUME NEW u \in Seq(X), NEW y \in X, NEW w \in S, <<u, w>> \in R
          PROVE  <<Append(u, y), step[<<w, y>>]>> \in R
      <4>1. <<Append(u, y), step[<<w, y>>]>> \in G
        BY <1>3, <3>3
      <4>2. CASE Append(u, y) = Append(t, x)
        <5>1. u = t /\ y = x
          BY <4>2, AppendInjective
        <5>2. w = s
          BY <2>1, <3>3, <5>1
        <5>3. QED
          BY <2>3, <4>1, <5>1, <5>2
      <4>3. CASE Append(u, y) # Append(t, x)
        BY <4>1, <4>3
      <4>4. QED
        BY <4>2, <4>3
    <3>4. Closed(R)
      BY <3>2, <3>3
    <3>5. QED
      BY <1>4, <2>3, <3>1, <3>4
  <2>4. QED
    BY <1>1, <1>2, <2>2, <2>3
<1>7. Seq(X) \subseteq Once
  <2> HIDE DEF Once
  <2>1. QED
    BY <1>5, <1>6, SequencesAll
<1> DEFINE f == [t \in Seq(X) |-> CHOOSE s \in S : <<t, s>> \in G]
<1> HIDE DEF G
<1>8. ASSUME NEW t \in Seq(X)
      PROVE  f[t] \in S /\ \A v \in S : <<t, v>> \in G <=> v = f[t]
  BY <1>7
<1>9. f[<<>>] = start
  BY <1>1, <1>3, <1>8
<1>10. ASSUME NEW t \in Seq(X), NEW x \in X PROVE f[Append(t, x)] = step[<<f[t], x>>]
  <2>1. <<t, f[t]>> \in G /\ f[t] \in S
    BY <1>8
  <2>2. <<Append(t, x), step[<<f[t], x>>]>> \in G
    BY <1>3, <2>1
  <2>3. QED
    BY <1>1, <1>2, <1>8, <2>1, <2>2
<1>11. f \in [Seq(X) -> S]
  BY <1>8
<1>12. QED
  BY <1>9, <1>10, <1>11 DEF IsFold

(* The smallest element of a set of numbers. *)
LEMMA MinOf ==
  ASSUME NEW B, B \subseteq Nat, B # {}
  PROVE  Min(B) \in B /\ \A y \in B : Min(B) <= y
<1>1. PICK n \in B : \A m \in B : ~(<<m, n>> \in OpToRel(<, Nat))
  BY NatLessThanWellFounded, WFMin
<1>2. \A m \in B : n <= m
  <2>1. ASSUME NEW m \in B, m < n PROVE FALSE
    <3>1. m \in Nat /\ n \in Nat
      OBVIOUS
    <3>2. <<m, n>> \in OpToRel(<, Nat)
      BY <2>1, <3>1 DEF OpToRel
    <3>3. QED
      BY <1>1, <3>2
  <2>2. QED
    BY <2>1
<1>3. QED
  BY <1>2 DEF Min

(* The front of a sequence, its last element, its beginning. *)
LEMMA FrontLast ==
  ASSUME NEW S, NEW s \in Seq(S), NEW e \in S
  PROVE  /\ Append(s, e) \in Seq(S) /\ Append(s, e) # <<>>
         /\ Front(Append(s, e)) = s
         /\ Last(Append(s, e)) = e
<1>1. /\ Append(s, e) \in Seq(S) /\ Append(s, e) # <<>> /\ Len(Append(s, e)) = Len(s) + 1
      /\ Append(s, e)[Len(s) + 1] = e /\ Append(s, e) = s \o <<e>> /\ Len(s) \in Nat
  BY AppendProperties, AppendIsConcat, LenProperties
<1>2. SubSeq(Append(s, e), 1, Len(s)) = s
  BY <1>1
<1>3. QED
  BY <1>1, <1>2 DEF Front, Last

LEMMA FrontLastSplit ==
  ASSUME NEW S, NEW s \in Seq(S), s # <<>>
  PROVE  Front(s) \in Seq(S) /\ Last(s) \in S /\ s = Append(Front(s), Last(s))
<1>1. PICK t \in Seq(S), e \in S : s = Append(t, e)
  BY SequenceEmptyOrAppend
<1>2. QED
  BY <1>1, FrontLast

LEMMA FirstTwo ==
  ASSUME NEW S, NEW s \in Seq(S), Len(s) >= 2
  PROVE  SubSeq(s, 1, 2) = <<s[1], s[2]>>
<1> DEFINE a == SubSeq(s, 1, 2)
           b == <<s[1], s[2]>>
<1>1. Len(s) \in Nat /\ s[1] \in S /\ s[2] \in S
  BY LenProperties, ElementOfSeq
<1>2. a \in Seq(S) /\ Len(a) = 2 /\ a[1] = s[1] /\ a[2] = s[2]
  BY <1>1
<1>3. b \in Seq(S) /\ Len(b) = 2 /\ b[1] = s[1] /\ b[2] = s[2]
  BY <1>1
<1> HIDE DEF a, b
<1>4. \A i \in 1..Len(a) : a[i] = b[i]
  BY <1>2, <1>3
<1>5. a = b
  BY <1>2, <1>3, <1>4, SeqEqual
<1>6. QED
  BY <1>5 DEF a, b

LEMMA FirstOne ==
  ASSUME NEW S, NEW s \in Seq(S), s # <<>>
  PROVE  SubSeq(s, 1, 1) = <<s[1]>>
<1> DEFINE a == SubSeq(s, 1, 1)
           b == <<s[1]>>
<1>1. Len(s) \in Nat \ {0} /\ s[1] \in S
  BY EmptySeq, ElementOfSeq
<1>2. a \in Seq(S) /\ Len(a) = 1 /\ a[1] = s[1]
  BY <1>1
<1>3. b \in Seq(S) /\ Len(b) = 1 /\ b[1] = s[1]
  BY <1>1
<1> HIDE DEF a, b
<1>4. a = b
  BY <1>2, <1>3, SeqEqual
<1>5. QED
  BY <1>4 DEF a, b

=============================================================================
