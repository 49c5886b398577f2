------------------------- MODULE ProjectSetupProofs -------------------------
(* Theorems about ProjectSetup, for every value of its constants.           *)
EXTENDS ProjectSetup, FiniteSetTheorems, SequenceTheorems, WellFoundedInduction, TLAPS

----------------------------------------------------------------------------
(* Induction and folds.  The induction theorems of the library take an      *)
(* operator; these take a set and a function.                               *)

\* A nonempty set of naturals has a smallest element.
LEMMA Smallest ==
  ASSUME NEW S \in SUBSET Nat, S # {}
  PROVE  \E i \in S : \A j \in S : i <= j
  <1>1. IsWellFoundedOn(OpToRel(<, Nat), Nat) BY NatLessThanWellFounded
  <1>2. PICK i \in S : \A j \in S : ~(<<j, i>> \in OpToRel(<, Nat)) BY <1>1, WFMin
  <1>3. \A j \in S : ~(j < i) BY <1>2 DEF OpToRel
  <1> QED BY <1>3

\* What holds of 0 and, up to n, of the next number, holds up to n.
LEMMA Climb ==
  ASSUME NEW n \in Nat, NEW S, 0 \in S, \A k \in 0 .. n - 1 : k \in S => k + 1 \in S
  PROVE  \A k \in 0..n : k \in S
  <1> DEFINE Out == {k \in 0..n : k \notin S}
  <1> SUFFICES ASSUME Out # {} PROVE FALSE OBVIOUS
  <1>0. Out \in SUBSET Nat OBVIOUS
  <1>1. PICK i \in Out : \A j \in Out : i <= j BY <1>0, Smallest
  <1>2. i \in 0..n /\ i \notin S /\ i # 0 OBVIOUS
  <1>3. i - 1 \in 0 .. n - 1 /\ i - 1 \in 0..n BY <1>2
  <1>4. i - 1 \notin Out BY <1>1, <1>2
  <1>5. (i - 1) + 1 \in S BY <1>3, <1>4
  <1> QED BY <1>2, <1>5

LEMMA MaxIs ==
  ASSUME NEW S \in SUBSET Int, NEW m \in S, \A x \in S : x <= m
  PROVE  Max(S) = m
  <1>1. m \in S /\ \A y \in S : m >= y OBVIOUS
  <1>2. Max(S) \in S /\ \A y \in S : Max(S) >= y BY <1>1 DEF Max
  <1>3. Max(S) \in Int /\ m \in Int /\ Max(S) >= m /\ m >= Max(S) BY <1>1, <1>2
  <1> QED BY <1>3

LEMMA MaxIsIn ==
  ASSUME NEW n \in Nat, NEW S \in SUBSET (0..n), S # {}
  PROVE  Max(S) \in S /\ \A x \in S : x <= Max(S)
  <1> DEFINE M == {n - x : x \in S}
  <1>1. M \in SUBSET Nat /\ M # {}
    <2>1. \A x \in S : x \in 0..n /\ n - x \in Nat OBVIOUS
    <2> QED BY <2>1
  <1>2. PICK m \in M : \A k \in M : m <= k BY <1>1, Smallest
  <1>3. PICK x \in S : m = n - x OBVIOUS
  <1>4. \A y \in S : n - x <= n - y BY <1>2, <1>3
  <1>5. \A y \in S : y <= x BY <1>4
  <1>6. S \in SUBSET Int OBVIOUS
  <1> QED BY <1>5, <1>6, MaxIs

LEMMA UpTo ==
  ASSUME NEW k \in Nat, k > 0
  PROVE  Max(1..k) = k /\ (1..k) \ {k} = 1 .. k - 1 /\ 1..k # {}
  <1>1. 1..k \in SUBSET Int /\ k \in 1..k /\ \A x \in 1..k : x <= k OBVIOUS
  <1>2. Max(1..k) = k BY <1>1, MaxIs
  <1> QED BY <1>2

\* f folds the first n elements of seq, for every subset of their places.
IsFold(f, base, step, seq, n) ==
  f = [s \in SUBSET (1..n) |->
         IF s = {} THEN base ELSE step[<<f[s \ {Max(s)}], seq[Max(s)]>>]]

\* step goes from a value and an element to a value.
Folds(E, V, base, step, seq, n) ==
  base \in V /\ step \in [V \X E -> V] /\ n \in Nat /\ \A i \in 1..n : seq[i] \in E

\* A fold over a sequence of a step from values and elements to values is well defined.
LEMMA FoldExists ==
  ASSUME NEW E, NEW V, NEW base, NEW step, NEW seq, NEW n, Folds(E, V, base, step, seq, n)
  PROVE  \E f \in [SUBSET (1..n) -> V] : IsFold(f, base, step, seq, n)
  <1> DEFINE P(k, f) == \A s \in SUBSET (1..k) :
                f[s] = IF s = {} THEN base ELSE step[<<f[s \ {Max(s)}], seq[Max(s)]>>]
             S == {k \in 0..n : \E f \in [SUBSET (1..k) -> V] : P(k, f)}
  <1>0. base \in V /\ step \in [V \X E -> V] /\ n \in Nat /\ \A i \in 1..n : seq[i] \in E
    BY DEF Folds
  <1> USE <1>0
  <1>1. 0 \in S
    <2>1. SUBSET (1..0) = {{}} OBVIOUS
    <2> DEFINE g == [s \in SUBSET (1..0) |-> base]
    <2>2. g \in [SUBSET (1..0) -> V] /\ P(0, g) BY <2>1
    <2> HIDE DEF g
    <2>3. \E f \in [SUBSET (1..0) -> V] : P(0, f) BY <2>2
    <2>4. 0 \in 0..n OBVIOUS
    <2> HIDE DEF P
    <2> QED BY <2>3, <2>4
  <1>2. ASSUME NEW k \in 0 .. n - 1, k \in S PROVE k + 1 \in S
    <2>1. PICK f \in [SUBSET (1..k) -> V] : P(k, f) BY <1>2
    <2> DEFINE g == [s \in SUBSET (1 .. k + 1) |->
                       IF k + 1 \in s THEN step[<<f[s \ {k + 1}], seq[k + 1]>>] ELSE f[s]]
    <2>2. \A s \in SUBSET (1 .. k + 1) : k + 1 \notin s => s \in SUBSET (1..k) OBVIOUS
    <2>3. \A s \in SUBSET (1 .. k + 1) : s \ {k + 1} \in SUBSET (1..k) OBVIOUS
    <2>4. seq[k + 1] \in E OBVIOUS
    <2>5. g \in [SUBSET (1 .. k + 1) -> V]
      <3>1. ASSUME NEW s \in SUBSET (1 .. k + 1) PROVE g[s] \in V
        <4>1. CASE k + 1 \in s
          <5>1. f[s \ {k + 1}] \in V BY <2>3
          <5>2. <<f[s \ {k + 1}], seq[k + 1]>> \in V \X E BY <2>4, <5>1
          <5> QED BY <4>1, <5>2
        <4>2. CASE k + 1 \notin s BY <4>2, <2>2
        <4> QED BY <4>1, <4>2
      <3> QED BY <3>1
    <2>6. ASSUME NEW s \in SUBSET (1 .. k + 1)
          PROVE  g[s] = IF s = {} THEN base ELSE step[<<g[s \ {Max(s)}], seq[Max(s)]>>]
      <3>1. CASE k + 1 \in s
        <4>1. Max(s) = k + 1
          <5>1. s \in SUBSET Int /\ \A x \in s : x <= k + 1 OBVIOUS
          <5> QED BY <3>1, <5>1, MaxIs
        <4>2. g[s \ {k + 1}] = f[s \ {k + 1}]
          <5>1. s \ {k + 1} \in SUBSET (1 .. k + 1) /\ k + 1 \notin s \ {k + 1} OBVIOUS
          <5> QED BY <5>1
        <4>3. g[s] = step[<<f[s \ {k + 1}], seq[k + 1]>>] BY <3>1
        <4>4. s # {} BY <3>1
        <4> HIDE DEF g
        <4> QED BY <4>1, <4>2, <4>3, <4>4
      <3>2. CASE k + 1 \notin s
        <4>1. s \in SUBSET (1..k) /\ s \ {Max(s)} \in SUBSET (1..k) BY <3>2, <2>2
        <4>2. s \ {Max(s)} \in SUBSET (1 .. k + 1) /\ k + 1 \notin s \ {Max(s)} BY <3>2
        <4>3. g[s \ {Max(s)}] = f[s \ {Max(s)}] BY <4>2
        <4>4. g[s] = f[s] BY <3>2
        <4> HIDE DEF g
        <4> QED BY <2>1, <4>1, <4>3, <4>4
      <3> QED BY <3>1, <3>2
    <2>7. P(k + 1, g) BY <2>6
    <2> HIDE DEF g
    <2>8. \E h \in [SUBSET (1 .. k + 1) -> V] : P(k + 1, h) BY <2>5, <2>7
    <2>9. k + 1 \in 0..n OBVIOUS
    <2> HIDE DEF P
    <2> QED BY <2>8, <2>9
  <1> HIDE DEF S
  <1>3. n \in S BY <1>1, <1>2, Climb
  <1>4. PICK f \in [SUBSET (1..n) -> V] : P(n, f) BY <1>3 DEF S
  <1> QED BY <1>4 DEF IsFold

----------------------------------------------------------------------------
(* Paths: what init writes down resolves to the file that was picked.       *)

LEMMA WalkStaysInPaths ==
  ASSUME NEW N, NEW dir \in Seq(N), NEW name \in N
  PROVE  Walk(dir, name) \in Seq(N)
  <1>1. CASE name = ".."
    <2>1. CASE dir = <<>> BY <1>1, <2>1 DEF Walk
    <2>2. CASE dir # <<>>
      <3>1. Len(dir) \in Nat /\ Len(dir) > 0 BY <2>2, EmptySeq, LenProperties
      <3>2. 1 \in 1 .. Len(dir) + 1 /\ Len(dir) - 1 \in Int BY <3>1
      <3>3. SubSeq(dir, 1, Len(dir) - 1) \in Seq(N) BY <3>1, SubSeqProperties
      <3> QED BY <1>1, <2>2, <3>3 DEF Walk, Front
    <2> QED BY <2>1, <2>2
  <1>2. CASE name # ".."
    <2>1. Append(dir, name) \in Seq(N) BY AppendProperties
    <2> QED BY <1>2, <2>1 DEF Walk
  <1> QED BY <1>1, <1>2

\* Resolve walks the names one after the other.
LEMMA ResolveSteps ==
  ASSUME NEW N, NEW root \in Seq(N), NEW names \in Seq(N)
  PROVE  \E h : /\ h[0] = root
                /\ \A k \in 1 .. Len(names) : h[k] = Walk(h[k - 1], names[k])
                /\ Resolve(root, names) = h[Len(names)]
  <1> DEFINE n == Len(names)
             Walked(f) == f = [s \in SUBSET (1..n) |->
                           IF s = {} THEN root ELSE Walk(f[s \ {Max(s)}], names[Max(s)])]
             step == [p \in Seq(N) \X N |-> Walk(p[1], p[2])]
             g == CHOOSE f : Walked(f)
  <1>1. n \in Nat /\ DOMAIN names = 1..n /\ \A i \in 1..n : names[i] \in N
    BY LenProperties, ElementOfSeq
  <1>2. step \in [Seq(N) \X N -> Seq(N)] BY WalkStaysInPaths
  <1>3. \A v \in Seq(N), e \in N : step[<<v, e>>] = Walk(v, e) OBVIOUS
  <1> HIDE DEF step
  <1> HIDE DEF n
  <1>4. PICK f \in [SUBSET (1..n) -> Seq(N)] : IsFold(f, root, step, names, n)
    <2>1. Folds(N, Seq(N), root, step, names, n) BY <1>1, <1>2 DEF Folds
    <2> QED BY <2>1, FoldExists
  <1>5. Walked(f)
    <2>1. ASSUME NEW s \in SUBSET (1..n), s # {}
          PROVE  step[<<f[s \ {Max(s)}], names[Max(s)]>>] = Walk(f[s \ {Max(s)}], names[Max(s)])
      <3>1. s \in SUBSET (0..n) /\ s \ {Max(s)} \in SUBSET (1..n)
        <4>1. \A x \in s : x \in 1..n /\ x \in 0..n BY <1>1
        <4> QED BY <4>1
      <3>3. Max(s) \in s BY <1>1, <2>1, <3>1, MaxIsIn
      <3>2. f[s \ {Max(s)}] \in Seq(N) /\ names[Max(s)] \in N BY <1>1, <3>1, <3>3
      <3> QED BY <1>3, <3>2
    <2> QED BY <1>4, <2>1 DEF IsFold
  <1>6. Walked(g) BY <1>5
  <1>7. Resolve(root, names) = g[1..n] BY <1>1 DEF Resolve, FoldLeft, MapThenFoldSet
  <1> HIDE DEF g
  <1> DEFINE h == [k \in 0..n |-> g[1..k]]
  <1>8. h[0] = root
    <2>1. 1..0 = {} /\ 0 \in 0..n BY <1>1
    <2> QED BY <1>6, <2>1
  <1>9. ASSUME NEW k \in 1..n PROVE h[k] = Walk(h[k - 1], names[k])
    <2>1. k \in Nat /\ k > 0 /\ k - 1 \in 0..n /\ k \in 0..n BY <1>1
    <2>2. Max(1..k) = k /\ (1..k) \ {k} = 1 .. k - 1 /\ 1..k # {} BY <2>1, UpTo
    <2>3. 1..k \in SUBSET (1..n) BY <1>1
    <2>4. g[1..k] = Walk(g[1 .. k - 1], names[k]) BY <1>6, <2>2, <2>3
    <2> QED BY <2>1, <2>4
  <1>10. h[n] = g[1..n] BY <1>1
  <1> HIDE DEF h
  <1> QED BY <1>7, <1>8, <1>9, <1>10 DEF n
\* Out of a directory that is not the root, and into a name.
LEMMA WalkUp ==
  ASSUME NEW N, NEW dir \in Seq(N), NEW n \in 1 .. Len(dir)
  PROVE  Walk(SubSeq(dir, 1, n), "..") = SubSeq(dir, 1, n - 1)
  <1>1. Len(dir) \in Nat /\ n \in Nat /\ n > 0 /\ n <= Len(dir) BY LenProperties
  <1>2. /\ SubSeq(dir, 1, n) \in Seq(N) /\ Len(SubSeq(dir, 1, n)) = n
        /\ \A i \in 1..n : SubSeq(dir, 1, n)[i] = dir[i]
    BY <1>1, SubSeqProperties
  <1>3. SubSeq(dir, 1, n) # <<>> BY <1>1, <1>2, EmptySeq
  <1>4. SubSeq(SubSeq(dir, 1, n), 1, n - 1) = SubSeq(dir, 1, n - 1)
    <2> DEFINE d == SubSeq(dir, 1, n)
    <2>1. d \in Seq(N) /\ Len(d) = n /\ \A i \in 1..n : d[i] = dir[i] BY <1>2
    <2> HIDE DEF d
    <2>2. /\ SubSeq(d, 1, n - 1) \in Seq(N) /\ Len(SubSeq(d, 1, n - 1)) = n - 1
          /\ \A i \in 1 .. n - 1 : SubSeq(d, 1, n - 1)[i] = d[i]
      BY <1>1, <2>1, SubSeqProperties
    <2>3. /\ SubSeq(dir, 1, n - 1) \in Seq(N) /\ Len(SubSeq(dir, 1, n - 1)) = n - 1
          /\ \A i \in 1 .. n - 1 : SubSeq(dir, 1, n - 1)[i] = dir[i]
      BY <1>1, SubSeqProperties
    <2>4. \A i \in 1 .. n - 1 : SubSeq(d, 1, n - 1)[i] = SubSeq(dir, 1, n - 1)[i]
      BY <1>1, <2>1, <2>2, <2>3
    <2>5. SubSeq(d, 1, n - 1) = SubSeq(dir, 1, n - 1) BY <2>2, <2>3, <2>4, SeqEqual
    <2> QED BY <2>5 DEF d
  <1> QED BY <1>2, <1>3, <1>4 DEF Walk, Front

LEMMA WalkInto ==
  ASSUME NEW N, NEW dir \in Seq(N), NEW n \in 0 .. Len(dir) - 1, dir[n + 1] \notin {".", ".."}
  PROVE  Walk(SubSeq(dir, 1, n), dir[n + 1]) = SubSeq(dir, 1, n + 1)
  <1>1. Len(dir) \in Nat BY LenProperties
  <1>2. SubSeq(dir, 1, n + 1) = Append(SubSeq(dir, 1, n), dir[n + 1])
    BY <1>1, SubSeqRecursiveSecond
  <1> QED BY <1>2 DEF Walk

\* The common part of two paths is the beginning of both.
LEMMA CommonIsPrefix ==
  ASSUME NEW N, NEW base \in Seq(N), NEW target \in Seq(N)
  PROVE  /\ Common(base, target) \in 0 .. Len(base)
         /\ Common(base, target) <= Len(target)
         /\ SubSeq(base, 1, Common(base, target)) = SubSeq(target, 1, Common(base, target))
  <1> DEFINE S == {n \in 0..Len(base) : n <= Len(target) /\ SubSeq(base, 1, n) = SubSeq(target, 1, n)}
  <1>1. Len(base) \in Nat /\ Len(target) \in Nat BY LenProperties
  <1>2. SubSeq(base, 1, 0) = <<>> /\ SubSeq(target, 1, 0) = <<>> BY SubSeqEmpty
  <1>3. 0 \in S BY <1>1, <1>2
  <1>4. Max(S) \in S
    <2>1. S \in SUBSET (0..Len(base)) /\ S # {} BY <1>3
    <2> HIDE DEF S
    <2> QED BY <1>1, <2>1, MaxIsIn
  <1>5. Common(base, target) = Max(S) BY DEF Common
  <1> QED BY <1>4, <1>5
\* A file written down relative to a directory is found from there.
LEMMA ResolveRelativize ==
  ASSUME NEW M, NEW base \in Seq(M), NEW target, IsPath(target)
  PROVE  Resolve(base, Relativize(base, target)) = target
  <1> DEFINE N == STRING \cup M \cup {".", ".."}
             c == Common(base, target)
             u == Len(base) - c
             ups == [i \in 1..u |-> ".."]
             tail == SubSeq(target, c + 1, Len(target))
             parts == ups \o tail
  <1>1. base \in Seq(N) /\ target \in Seq(N)
    <2>1. base \in Seq(M) /\ target \in Seq(STRING) BY DEF IsPath
    <2>2. STRING \subseteq N /\ M \subseteq N OBVIOUS
    <2> QED BY <2>1, <2>2, SeqMonotonic
  <1>2. /\ \A i \in 1..Len(target) : target[i] \in N /\ target[i] \notin {".", ".."}
        /\ ".." \in N /\ "." \in N /\ Len(base) \in Nat /\ Len(target) \in Nat
        /\ \A i \in 1..Len(target) : target[i] \in N
    BY <1>1, LenProperties, ElementOfSeq DEF IsPath
  <1> HIDE DEF N
  <1>3. c \in 0..Len(base) /\ c <= Len(target) /\ SubSeq(base, 1, c) = SubSeq(target, 1, c)
    BY <1>1, CommonIsPrefix
  <1> HIDE DEF c
  <1>4. u \in Nat /\ c \in Nat /\ u + c = Len(base) BY <1>2, <1>3
  <1>5. ups \in Seq(N) /\ Len(ups) = u /\ \A i \in 1..u : ups[i] = ".."
    <2> HIDE DEF u
    <2>1. ups \in [1..u -> N] BY <1>2
    <2>2. ups \in Seq(N) BY <1>4, <2>1, SeqDef
    <2>3. Len(ups) = u /\ \A i \in 1..u : ups[i] = ".." BY <1>4
    <2> QED BY <2>2, <2>3
  <1>6. /\ tail \in Seq(N) /\ Len(tail) = Len(target) - c
        /\ \A i \in 1 .. Len(target) - c : tail[i] = target[c + i]
    <2>1. \A i \in c + 1 .. Len(target) : target[i] \in N BY <1>2, <1>4
    <2>2. /\ tail \in Seq(N)
          /\ Len(tail) = IF c + 1 <= Len(target) THEN Len(target) - (c + 1) + 1 ELSE 0
          /\ \A i \in 1 .. Len(target) - (c + 1) + 1 : tail[i] = target[(c + 1) + i - 1]
      BY <1>2, <1>4, <2>1, SubSeqProperties
    <2> HIDE DEF tail
    <2>3. Len(tail) = Len(target) - c BY <1>2, <1>3, <1>4, <2>2
    <2>4. \A i \in 1 .. Len(target) - c : tail[i] = target[c + i] BY <1>2, <1>3, <1>4, <2>2
    <2> QED BY <2>2, <2>3, <2>4
  <1> HIDE DEF ups, tail
  <1>7. /\ parts \in Seq(N) /\ Len(parts) = u + (Len(target) - c)
        /\ \A i \in 1 .. u + (Len(target) - c) : parts[i] = IF i <= u THEN ups[i] ELSE tail[i - u]
    <2>1. /\ ups \o tail \in Seq(N) /\ Len(ups \o tail) = Len(ups) + Len(tail)
          /\ \A i \in 1 .. Len(ups) + Len(tail) :
               (ups \o tail)[i] = IF i <= Len(ups) THEN ups[i] ELSE tail[i - Len(ups)]
      BY <1>5, <1>6, ConcatProperties
    <2> HIDE DEF u
    <2> QED BY <1>5, <1>6, <2>1
  <1> HIDE DEF parts
  <1> DEFINE n == u + (Len(target) - c)
             Reached(k) == IF k <= u THEN SubSeq(base, 1, Len(base) - k)
                                     ELSE SubSeq(target, 1, c + (k - u))
  <1>8. n \in Nat /\ Len(parts) = n /\ Len(target) - c \in Nat BY <1>2, <1>3, <1>4, <1>7
  <1>9. Relativize(base, target) = IF parts = <<>> THEN <<".">> ELSE parts
    BY DEF Relativize, parts, tail, ups, u, c
  <1>10. CASE parts = <<>>
    <2>1. u = 0 /\ Len(target) = c /\ Len(base) = c
      <3>1. n = 0 BY <1>8, <1>10, EmptySeq
      <3>2. u + (Len(target) - c) = 0 /\ Len(target) \in Nat /\ Len(base) \in Nat BY <1>2, <3>1
      <3> HIDE DEF u, n
      <3> QED BY <1>4, <1>8, <3>2
    <2>2. base = target BY <1>1, <1>3, <2>1, SubSeqFull
    <2>3. <<".">> \in Seq(N) /\ Len(<<".">>) = 1 /\ <<".">>[1] = "." BY <1>2
    <2> DEFINE dot == <<".">>
    <2> HIDE DEF dot
    <2>4. dot \in Seq(N) /\ Len(dot) = 1 /\ dot[1] = "." BY <2>3 DEF dot
    <2>5. PICK h : /\ h[0] = base /\ \A k \in 1 .. Len(dot) : h[k] = Walk(h[k - 1], dot[k])
                   /\ Resolve(base, dot) = h[Len(dot)]
      <3> HIDE DEF n, u, Reached
      <3>1. base \in Seq(N) /\ dot \in Seq(N) BY <1>1, <2>4
      <3> QED BY <3>1, ResolveSteps
    <2>6. h[1] = Walk(h[0], ".") /\ Resolve(base, dot) = h[1] BY <2>4, <2>5
    <2>7. Walk(base, ".") = base BY DEF Walk
    <2> QED BY <1>9, <1>10, <2>2, <2>5, <2>6, <2>7 DEF dot
  <1>11. CASE parts # <<>>
    <2>0. base \in Seq(N) /\ parts \in Seq(N) BY <1>1, <1>7
    <2>1. PICK h : /\ h[0] = base /\ \A k \in 1 .. Len(parts) : h[k] = Walk(h[k - 1], parts[k])
                   /\ Resolve(base, parts) = h[Len(parts)]
      <3> HIDE DEF n, u, Reached
      <3> QED BY <2>0, ResolveSteps
    <2> DEFINE S == {k \in 0..n : h[k] = Reached(k)}
    <2>2. 0 \in S BY <1>1, <1>2, <1>4, <1>8, <2>1, SubSeqFull
    <2>3. ASSUME NEW k \in 0 .. n - 1, k \in S PROVE k + 1 \in S
      <3>1. k \in Nat /\ k + 1 \in 1..n /\ k + 1 \in 0..n BY <1>8
      <3>2. h[k + 1] = Walk(Reached(k), parts[k + 1]) BY <1>8, <2>1, <2>3, <3>1
      <3>3. CASE k + 1 <= u
        <4>1. parts[k + 1] = ".." BY <1>4, <1>5, <1>7, <3>1, <3>3
        <4>2. Reached(k) = SubSeq(base, 1, Len(base) - k) BY <1>4, <3>1, <3>3
        <4>3. Len(base) - k \in 1..Len(base) BY <1>2, <1>4, <3>1, <3>3
        <4>4. Walk(SubSeq(base, 1, Len(base) - k), "..") = SubSeq(base, 1, (Len(base) - k) - 1)
          BY <1>1, <4>3, WalkUp
        <4>5. (Len(base) - k) - 1 = Len(base) - (k + 1) BY <1>2, <3>1
        <4> QED BY <3>1, <3>2, <3>3, <4>1, <4>2, <4>4, <4>5
      <3>4. CASE k >= u
        <4> DEFINE m == c + (k - u)
        <4>1. m \in 0 .. Len(target) - 1 /\ m + 1 = c + ((k + 1) - u) /\ m + 1 \in 1..Len(target)
          BY <1>2, <1>3, <1>4, <1>8, <3>1, <3>4
        <4>2. Reached(k) = SubSeq(target, 1, m)
          <5>1. CASE k = u
            <6>1. Len(base) - k = c /\ m = c BY <1>2, <1>4, <3>1, <5>1
            <6> QED BY <1>3, <1>4, <5>1, <6>1
          <5>2. CASE ~(k <= u) BY <5>2
          <5>3. k = u \/ ~(k <= u)
            <6> HIDE DEF u
            <6> QED BY <1>4, <3>1, <3>4
          <5> QED BY <5>1, <5>2, <5>3
        <4>3. parts[k + 1] = target[m + 1]
          <5>1. ~(k + 1 <= u) /\ (k + 1) - u \in 1 .. Len(target) - c
            BY <1>2, <1>3, <1>4, <1>8, <3>1, <3>4
          <5>2. parts[k + 1] = tail[(k + 1) - u] BY <1>7, <3>1, <5>1
          <5> QED BY <1>6, <4>1, <5>1, <5>2
        <4>4. Reached(k + 1) = SubSeq(target, 1, m + 1) BY <1>4, <3>1, <3>4, <4>1
        <4> HIDE DEF m, Reached
        <4>5. target[m + 1] \notin {".", ".."} BY <1>2, <4>1
        <4>6. Walk(SubSeq(target, 1, m), target[m + 1]) = SubSeq(target, 1, m + 1)
          BY <1>1, <4>1, <4>5, WalkInto
        <4> QED BY <3>1, <3>2, <4>2, <4>3, <4>4, <4>6
      <3> QED BY <1>4, <3>1, <3>3, <3>4
    <2> HIDE DEF S, n
    <2>4. n \in S
      <3>1. \A k \in 0..n : k \in S BY <1>8, <2>2, <2>3, Climb
      <3> QED BY <1>8, <3>1
    <2> USE DEF n
    <2>5. h[n] = Reached(n) BY <2>4 DEF S
    <2>6. Reached(n) = target
      <3>1. SubSeq(target, 1, Len(target)) = target BY <1>1, SubSeqFull
      <3>2. CASE n <= u
        <4>1. Len(base) - n = c /\ Len(target) = c BY <1>2, <1>3, <1>4, <3>2
        <4> QED BY <1>3, <3>1, <3>2, <4>1
      <3>3. CASE ~(n <= u)
        <4>1. c + (n - u) = Len(target) BY <1>2, <1>4
        <4> QED BY <3>1, <3>3, <4>1
      <3> QED BY <3>2, <3>3
    <2> QED BY <1>8, <1>9, <1>11, <2>1, <2>5, <2>6
  <1> QED BY <1>10, <1>11
\* The default: the .env next to the project.
LEMMA ResolveDefault ==
  ASSUME NEW home, IsPath(home)
  PROVE  Resolve(Append(home, "puffgres"), <<"..", ".env">>) = Append(home, ".env")
  <1> DEFINE N == STRING \cup {"..", "puffgres", ".env"}
             root == Append(home, "puffgres")
             names == <<"..", ".env">>
  <1>1. home \in Seq(N)
    <2>1. home \in Seq(STRING) /\ STRING \subseteq N BY DEF IsPath
    <2> QED BY <2>1, SeqMonotonic
  <1>2. "puffgres" \in N /\ names \in Seq(N) /\ Len(names) = 2 /\ names[1] = ".." /\ names[2] = ".env"
    OBVIOUS
  <1> HIDE DEF N, names
  <1>3. /\ root \in Seq(N) /\ root # <<>> /\ Len(root) = Len(home) + 1 /\ Len(home) \in Nat
        /\ \A i \in 1..Len(home) : root[i] = home[i]
    BY <1>1, <1>2, AppendProperties, LenProperties
  <1> HIDE DEF root
  <1>4. Walk(root, "..") = home
    <2>1. Walk(root, "..") = SubSeq(root, 1, Len(home)) BY <1>3 DEF Walk, Front
    <2>2. \A i \in 1..Len(home) : root[i] \in N BY <1>1, <1>3, ElementOfSeq
    <2>3. /\ SubSeq(root, 1, Len(home)) \in Seq(N) /\ Len(SubSeq(root, 1, Len(home))) = Len(home)
          /\ \A i \in 1..Len(home) : SubSeq(root, 1, Len(home))[i] = root[i]
      BY <1>3, <2>2, SubSeqProperties
    <2>4. SubSeq(root, 1, Len(home)) = home BY <1>1, <1>3, <2>3, SeqEqual
    <2> QED BY <2>1, <2>4
  <1>5. PICK h : /\ h[0] = root /\ \A k \in 1 .. Len(names) : h[k] = Walk(h[k - 1], names[k])
                 /\ Resolve(root, names) = h[Len(names)]
    <2>1. root \in Seq(N) /\ names \in Seq(N) BY <1>2, <1>3
    <2> QED BY <2>1, ResolveSteps
  <1>6. h[1] = Walk(root, "..") /\ h[2] = Walk(h[1], ".env") /\ Resolve(root, names) = h[2]
    BY <1>2, <1>5
  <1>7. Walk(home, ".env") = Append(home, ".env") BY DEF Walk
  <1> QED BY <1>4, <1>6, <1>7 DEF root, names

----------------------------------------------------------------------------
(* Environments.                                                            *)

LEMMA LatestIs ==
  ASSUME NEW S \in SUBSET Int, NEW m \in S, \A x \in S : x <= m
  PROVE  Latest(S) = m
  <1>1. m \in S /\ \A y \in S : m >= y OBVIOUS
  <1>2. Latest(S) \in S /\ \A y \in S : Latest(S) >= y BY <1>1 DEF Latest
  <1>3. Latest(S) \in Int /\ m \in Int /\ Latest(S) >= m /\ m >= Latest(S) BY <1>1, <1>2
  <1> QED BY <1>3

LEMMA LatestIsIn ==
  ASSUME NEW n \in Nat, NEW S \in SUBSET (0..n), S # {}
  PROVE  Latest(S) \in S /\ \A x \in S : x <= Latest(S)
  <1>1. Max(S) \in S /\ \A x \in S : x <= Max(S) BY MaxIsIn
  <1>2. S \in SUBSET Int OBVIOUS
  <1>3. Latest(S) = Max(S) BY <1>1, <1>2, LatestIs
  <1> QED BY <1>1, <1>3

LEMMA FirstIs ==
  ASSUME NEW S \in SUBSET Int, NEW m \in S, \A x \in S : m <= x
  PROVE  First(S) = m
  <1>1. m \in S /\ \A y \in S : m <= y OBVIOUS
  <1>2. First(S) \in S /\ \A y \in S : First(S) <= y BY <1>1 DEF First
  <1>3. First(S) \in Int /\ m \in Int /\ First(S) <= m /\ m <= First(S) BY <1>1, <1>2
  <1> QED BY <1>3

LEMMA FirstIsIn ==
  ASSUME NEW S \in SUBSET Nat, S # {}
  PROVE  First(S) \in S /\ \A x \in S : First(S) <= x
  <1>1. PICK i \in S : \A j \in S : i <= j BY Smallest
  <1>2. S \in SUBSET Int OBVIOUS
  <1> QED BY <1>1, <1>2, FirstIs

\* FileVars goes through the lines.
LEMMA FileVarsSteps ==
  ASSUME NEW lines, IsEnvFile(lines)
  PROVE  \E h : /\ h[0] = Empty
                /\ \A k \in 1 .. Len(lines) : h[k] = [h[k - 1] EXCEPT ![lines[k][1]] = lines[k][2]]
                /\ FileVars(lines) = h[Len(lines)]
  <1> DEFINE Put(v, e) == [v EXCEPT ![e[1]] = e[2]]
             E == Keys \X STRING
             V == [Keys -> STRING \cup {None}]
             n == Len(lines)
             Read1(f) == f = [s \in SUBSET (1..n) |->
                           IF s = {} THEN Empty
                           ELSE Put(f[s \ {Max(s)}], lines[Max(s)])]
             step == [p \in V \X E |-> Put(p[1], p[2])]
             g == CHOOSE f : Read1(f)
  <1>1. n \in Nat /\ DOMAIN lines = 1..n /\ \A i \in 1..n : lines[i] \in E
    BY LenProperties, ElementOfSeq DEF IsEnvFile
  <1>2. step \in [V \X E -> V]
    <2>1. ASSUME NEW v \in V, NEW e \in E PROVE Put(v, e) \in V OBVIOUS
    <2> HIDE DEF V, E
    <2> QED BY <2>1
  <1>3. \A v \in V, e \in E : step[<<v, e>>] = Put(v, e) OBVIOUS
  <1>4. Empty \in V BY DEF Empty
  <1> HIDE DEF step, n, V, E
  <1>5. PICK f \in [SUBSET (1..n) -> V] : IsFold(f, Empty, step, lines, n)
    <2>1. Folds(E, V, Empty, step, lines, n) BY <1>1, <1>2, <1>4 DEF Folds
    <2> QED BY <2>1, FoldExists
  <1>6. Read1(f)
    <2>1. ASSUME NEW s \in SUBSET (1..n), s # {}
          PROVE  step[<<f[s \ {Max(s)}], lines[Max(s)]>>]
                   = Put(f[s \ {Max(s)}], lines[Max(s)])
      <3>1. s \in SUBSET (0..n) /\ s \ {Max(s)} \in SUBSET (1..n)
        <4>1. \A x \in s : x \in 1..n /\ x \in 0..n BY <1>1
        <4> QED BY <4>1
      <3>2. Max(s) \in s BY <1>1, <2>1, <3>1, MaxIsIn
      <3>3. f[s \ {Max(s)}] \in V /\ lines[Max(s)] \in E BY <1>1, <3>1, <3>2
      <3> QED BY <1>3, <3>3
    <2> QED BY <1>5, <2>1 DEF IsFold
  <1>7. Read1(g) BY <1>6
  <1>8. FileVars(lines) = g[1..n] BY <1>1 DEF FileVars, FoldLeft, MapThenFoldSet
  <1> HIDE DEF g
  <1> DEFINE h == [k \in 0..n |-> g[1..k]]
  <1>9. h[0] = Empty
    <2>1. 1..0 = {} /\ 0 \in 0..n BY <1>1
    <2> QED BY <1>7, <2>1
  <1>10. ASSUME NEW k \in 1..n PROVE h[k] = [h[k - 1] EXCEPT ![lines[k][1]] = lines[k][2]]
    <2>1. k \in Nat /\ k > 0 /\ k - 1 \in 0..n /\ k \in 0..n BY <1>1
    <2>2. Max(1..k) = k /\ (1..k) \ {k} = 1 .. k - 1 /\ 1..k # {} BY <2>1, UpTo
    <2>3. 1..k \in SUBSET (1..n) BY <1>1
    <2>4. \A t \in SUBSET (1..n) : t # {} => g[t] = Put(g[t \ {Max(t)}], lines[Max(t)]) BY <1>7
    <2> HIDE DEF Put
    <2>5. g[1..k] = Put(g[1 .. k - 1], lines[k]) BY <2>2, <2>3, <2>4
    <2> USE DEF Put
    <2> QED BY <2>1, <2>5
  <1>11. h[n] = g[1..n] BY <1>1
  <1> HIDE DEF h
  <1> QED BY <1>8, <1>9, <1>10, <1>11 DEF n
\* The lines up to k that set a key, and the value they leave.
SetBy(lines, k, key) == {i \in 1..k : lines[i][1] = key}
ValueUpTo(lines, k, key) ==
  IF SetBy(lines, k, key) = {} THEN None ELSE lines[Latest(SetBy(lines, k, key))][2]

LEMMA ValueAfterLine ==
  ASSUME NEW lines, NEW k \in Nat, NEW key
  PROVE  ValueUpTo(lines, k + 1, key) =
           IF lines[k + 1][1] = key THEN lines[k + 1][2] ELSE ValueUpTo(lines, k, key)
  <1>1. CASE lines[k + 1][1] = key
    <2> DEFINE S == SetBy(lines, k + 1, key)
    <2>1. k + 1 \in S /\ S \in SUBSET Int /\ \A x \in S : x <= k + 1 BY <1>1 DEF SetBy
    <2> HIDE DEF S
    <2>2. Latest(S) = k + 1 BY <2>1, LatestIs
    <2> QED BY <1>1, <2>1, <2>2 DEF ValueUpTo, S
  <1>2. CASE lines[k + 1][1] # key
    <2>1. SetBy(lines, k + 1, key) = SetBy(lines, k, key) BY <1>2 DEF SetBy
    <2> QED BY <1>2, <2>1 DEF ValueUpTo
  <1> QED BY <1>1, <1>2

\* A file gives a key the value of the last line that sets it.
LEMMA FileVarsAre ==
  ASSUME NEW lines, IsEnvFile(lines)
  PROVE  /\ FileVars(lines) \in [Keys -> STRING \cup {None}]
         /\ \A key \in Keys : FileVars(lines)[key] = ValueUpTo(lines, Len(lines), key)
  <1> DEFINE n == Len(lines)
             V == [Keys -> STRING \cup {None}]
  <1>1. n \in Nat /\ \A i \in 1..n : lines[i][1] \in Keys /\ lines[i][2] \in STRING
    <2>1. \A i \in 1..n : lines[i] \in Keys \X STRING BY ElementOfSeq DEF IsEnvFile
    <2> QED BY <2>1, LenProperties DEF IsEnvFile
  <1>2. PICK h : /\ h[0] = Empty
                 /\ \A k \in 1..n : h[k] = [h[k - 1] EXCEPT ![lines[k][1]] = lines[k][2]]
                 /\ FileVars(lines) = h[n]
    BY FileVarsSteps
  <1> HIDE DEF n
  <1> DEFINE Right(k) == h[k] \in V /\ \A key \in Keys : h[k][key] = ValueUpTo(lines, k, key)
             S == {k \in 0..n : Right(k)}
  <1>3. 0 \in S
    <2>1. Empty \in V BY DEF Empty
    <2>2. \A key \in Keys : Empty[key] = None BY DEF Empty
    <2>3. \A key \in Keys : SetBy(lines, 0, key) = {} BY DEF SetBy
    <2>4. \A key \in Keys : ValueUpTo(lines, 0, key) = None BY <2>3 DEF ValueUpTo
    <2> QED BY <1>1, <1>2, <2>1, <2>2, <2>4
  <1>4. ASSUME NEW k \in 0 .. n - 1, k \in S PROVE k + 1 \in S
    <2>1. k \in Nat /\ k + 1 \in 1..n /\ k + 1 \in 0..n /\ (k + 1) - 1 = k BY <1>1
    <2>2. h[k + 1] = [h[k] EXCEPT ![lines[k + 1][1]] = lines[k + 1][2]] BY <1>2, <2>1
    <2>3. Right(k) BY <1>4
    <2>4. h[k + 1] \in V BY <1>1, <2>1, <2>2, <2>3
    <2>5. ASSUME NEW key \in Keys PROVE h[k + 1][key] = ValueUpTo(lines, k + 1, key)
      <3>1. h[k + 1][key] = IF lines[k + 1][1] = key THEN lines[k + 1][2] ELSE h[k][key]
        BY <2>2, <2>3
      <3> QED BY <2>1, <2>3, <3>1, ValueAfterLine
    <2> QED BY <2>1, <2>4, <2>5
  <1> HIDE DEF S
  <1>5. n \in S
    <2>1. \A k \in 0..n : k \in S BY <1>1, <1>3, <1>4, Climb
    <2> QED BY <1>1, <2>1
  <1> QED BY <1>2, <1>5 DEF S, n

----------------------------------------------------------------------------
(* Several files: the first that sets a key decides.                        *)

\* What load_env_files and the script's loop have in common.
Loaded(envs0, start, paths) ==
  FoldLeft(LAMBDA vars0, p : Under(vars0, Read(envs0, p)), start, paths)

\* The files of P give keys values in W, as the start does.
Loads(W, P, envs0, start, paths) ==
  /\ start \in [Keys -> W] /\ paths \in Seq(P)
  /\ \A p \in P : Read(envs0, p) \in [Keys -> W]

LEMMA LoadedSteps ==
  ASSUME NEW W, NEW P, NEW envs0, NEW start, NEW paths, Loads(W, P, envs0, start, paths)
  PROVE  \E h : /\ h[0] = start
                /\ \A k \in 1 .. Len(paths) : h[k] = Under(h[k - 1], Read(envs0, paths[k]))
                /\ Loaded(envs0, start, paths) = h[Len(paths)]
  <1> DEFINE Put(v, p) == Under(v, Read(envs0, p))
             V == [Keys -> W]
             n == Len(paths)
             Load(f) == f = [s \in SUBSET (1..n) |->
                          IF s = {} THEN start ELSE Put(f[s \ {Max(s)}], paths[Max(s)])]
             step == [q \in V \X P |-> Put(q[1], q[2])]
             g == CHOOSE f : Load(f)
  <1>0. /\ start \in [Keys -> W] /\ paths \in Seq(P)
        /\ \A p \in P : Read(envs0, p) \in [Keys -> W]
    BY DEF Loads
  <1> USE <1>0
  <1>1. n \in Nat /\ DOMAIN paths = 1..n /\ \A i \in 1..n : paths[i] \in P
    BY LenProperties, ElementOfSeq
  <1>2. step \in [V \X P -> V]
    <2>1. ASSUME NEW v \in V, NEW p \in P PROVE Put(v, p) \in V BY DEF Under
    <2> HIDE DEF V, Put
    <2> QED BY <2>1
  <1>3. \A v \in V, p \in P : step[<<v, p>>] = Put(v, p) OBVIOUS
  <1> HIDE DEF step, n
  <1>4. PICK f \in [SUBSET (1..n) -> V] : IsFold(f, start, step, paths, n)
    <2> HIDE DEF V
    <2>1. start \in V BY DEF V
    <2>2. Folds(P, V, start, step, paths, n) BY <1>1, <1>2, <2>1 DEF Folds
    <2> QED BY <2>2, FoldExists
  <1> HIDE DEF V
  <1>5. Load(f)
    <2>1. ASSUME NEW s \in SUBSET (1..n), s # {}
          PROVE  step[<<f[s \ {Max(s)}], paths[Max(s)]>>] = Put(f[s \ {Max(s)}], paths[Max(s)])
      <3>1. s \in SUBSET (0..n) /\ s \ {Max(s)} \in SUBSET (1..n)
        <4>1. \A x \in s : x \in 1..n /\ x \in 0..n BY <1>1
        <4> QED BY <4>1
      <3>2. Max(s) \in s BY <1>1, <2>1, <3>1, MaxIsIn
      <3>3. f[s \ {Max(s)}] \in V /\ paths[Max(s)] \in P BY <1>1, <3>1, <3>2
      <3> QED BY <1>3, <3>3
    <2> HIDE DEF Put
    <2> QED BY <1>4, <2>1 DEF IsFold
  <1>6. Load(g) BY <1>5
  <1>7. Loaded(envs0, start, paths) = g[1..n] BY <1>1 DEF Loaded, FoldLeft, MapThenFoldSet
  <1> HIDE DEF g, Put
  <1> DEFINE h == [k \in 0..n |-> g[1..k]]
  <1>8. h[0] = start
    <2>1. 1..0 = {} /\ 0 \in 0..n BY <1>1
    <2> QED BY <1>6, <2>1
  <1>9. ASSUME NEW k \in 1..n PROVE h[k] = Put(h[k - 1], paths[k])
    <2>1. k \in Nat /\ k > 0 /\ k - 1 \in 0..n /\ k \in 0..n BY <1>1
    <2>2. Max(1..k) = k /\ (1..k) \ {k} = 1 .. k - 1 /\ 1..k # {} BY <2>1, UpTo
    <2>3. 1..k \in SUBSET (1..n) BY <1>1
    <2>4. \A t \in SUBSET (1..n) : t # {} => g[t] = Put(g[t \ {Max(t)}], paths[Max(t)]) BY <1>6
    <2>5. g[1..k] = Put(g[1 .. k - 1], paths[k]) BY <2>2, <2>3, <2>4
    <2> QED BY <2>1, <2>5
  <1>10. h[n] = g[1..n] BY <1>1
  <1> HIDE DEF h
  <1> QED BY <1>7, <1>8, <1>9, <1>10 DEF n, Put
\* The files up to the k-th that give a key a value, and the value of the first.
Giving(envs0, paths, k, key) == {i \in 1..k : Read(envs0, paths[i])[key] # None}
FirstValue(envs0, paths, k, key) ==
  IF Giving(envs0, paths, k, key) = {} THEN None
  ELSE Read(envs0, paths[First(Giving(envs0, paths, k, key))])[key]

LEMMA FirstValueIsSet ==
  ASSUME NEW envs0, NEW paths, NEW k \in Nat, NEW key, Giving(envs0, paths, k, key) # {}
  PROVE  FirstValue(envs0, paths, k, key) # None
  <1> DEFINE S == Giving(envs0, paths, k, key)
  <1>1. S \in SUBSET Nat /\ \A i \in S : Read(envs0, paths[i])[key] # None BY DEF Giving
  <1> HIDE DEF S
  <1>2. S # {} BY DEF S
  <1>3. First(S) \in S BY <1>1, <1>2, FirstIsIn
  <1>4. FirstValue(envs0, paths, k, key) = Read(envs0, paths[First(S)])[key] BY <1>2 DEF FirstValue, S
  <1> QED BY <1>1, <1>3, <1>4

LEMMA FirstValueAfterFile ==
  ASSUME NEW envs0, NEW paths, NEW k \in Nat, NEW key
  PROVE  FirstValue(envs0, paths, k + 1, key) =
           IF FirstValue(envs0, paths, k, key) # None THEN FirstValue(envs0, paths, k, key)
           ELSE Read(envs0, paths[k + 1])[key]
  <1> DEFINE S == Giving(envs0, paths, k, key)
             T == Giving(envs0, paths, k + 1, key)
             R(i) == Read(envs0, paths[i])[key]
  <1>1. /\ S \in SUBSET (1..k) /\ \A i \in S : R(i) # None
        /\ T = IF R(k + 1) # None THEN S \cup {k + 1} ELSE S
    BY DEF Giving
  <1>2. /\ FirstValue(envs0, paths, k, key) = IF S = {} THEN None ELSE R(First(S))
        /\ FirstValue(envs0, paths, k + 1, key) = IF T = {} THEN None ELSE R(First(T))
    BY DEF FirstValue
  <1>3. S # {} => FirstValue(envs0, paths, k, key) # None BY FirstValueIsSet
  <1> HIDE DEF S, T, R
  <1>4. CASE S # {}
    <2>1. S \in SUBSET Nat /\ S \in SUBSET Int BY <1>1
    <2>2. First(S) \in S /\ \A x \in S : First(S) <= x BY <1>4, <2>1, FirstIsIn
    <2>3. T \in SUBSET Int /\ First(S) \in T /\ \A x \in T : First(S) <= x
      <3>1. T = S \/ T = S \cup {k + 1} BY <1>1
      <3> DEFINE f == First(S)
      <3> HIDE DEF f
      <3>2. f \in S /\ \A x \in S : f <= x BY <2>2 DEF f
      <3>3. f \in 1..k /\ f <= k + 1 BY <1>1, <3>2
      <3>4. CASE T = S BY <2>1, <3>2, <3>4 DEF f
      <3>5. CASE T = S \cup {k + 1} BY <2>1, <3>2, <3>3, <3>5 DEF f
      <3> QED BY <3>1, <3>4, <3>5
    <2>4. First(T) = First(S) BY <2>3, FirstIs
    <2> QED BY <1>2, <1>3, <1>4, <2>3, <2>4
  <1>5. CASE S = {} /\ R(k + 1) # None
    <2>1. T = {k + 1} BY <1>1, <1>5
    <2>2. T \in SUBSET Int /\ k + 1 \in T /\ \A x \in T : k + 1 <= x BY <2>1
    <2>3. First(T) = k + 1 BY <2>2, FirstIs
    <2> QED BY <1>2, <1>5, <2>1, <2>3 DEF R
  <1>6. CASE S = {} /\ R(k + 1) = None
    BY <1>1, <1>2, <1>6 DEF R
  <1> QED BY <1>4, <1>5, <1>6

\* The start wins over the files, and a file over those after it.
LEMMA LoadedIs ==
  ASSUME NEW W, NEW P, NEW envs0, NEW start, NEW paths, Loads(W, P, envs0, start, paths),
         NEW key \in Keys
  PROVE  Loaded(envs0, start, paths)[key] =
           IF start[key] # None THEN start[key] ELSE FirstValue(envs0, paths, Len(paths), key)
  <1> DEFINE n == Len(paths)
             Value(k) == IF start[key] # None THEN start[key] ELSE FirstValue(envs0, paths, k, key)
  <1>1. n \in Nat BY LenProperties DEF Loads
  <1>2. PICK h : /\ h[0] = start
                 /\ \A k \in 1..n : h[k] = Under(h[k - 1], Read(envs0, paths[k]))
                 /\ Loaded(envs0, start, paths) = h[n]
    BY LoadedSteps
  <1> HIDE DEF n
  <1> DEFINE S == {k \in 0..n : h[k][key] = Value(k)}
  <1>3. 0 \in S
    <2>1. Giving(envs0, paths, 0, key) = {} BY DEF Giving
    <2>2. FirstValue(envs0, paths, 0, key) = None BY <2>1 DEF FirstValue
    <2>3. h[0][key] = Value(0) BY <1>2, <2>2
    <2> HIDE DEF Value
    <2> QED BY <1>1, <2>3
  <1>4. ASSUME NEW k \in 0 .. n - 1, k \in S PROVE k + 1 \in S
    <2>1. k \in Nat /\ k + 1 \in 1..n /\ k + 1 \in 0..n /\ (k + 1) - 1 = k BY <1>1
    <2>2. h[k + 1] = Under(h[k], Read(envs0, paths[k + 1])) BY <1>2, <2>1
    <2>3. h[k + 1][key] = IF h[k][key] # None THEN h[k][key] ELSE Read(envs0, paths[k + 1])[key]
      BY <2>2 DEF Under
    <2>4. h[k][key] = Value(k) BY <1>4
    <2>5. Value(k + 1) = IF Value(k) # None THEN Value(k) ELSE Read(envs0, paths[k + 1])[key]
      BY <2>1, FirstValueAfterFile
    <2> HIDE DEF Value
    <2> QED BY <2>1, <2>3, <2>4, <2>5
  <1> HIDE DEF S
  <1>5. n \in S
    <2>1. \A k \in 0..n : k \in S BY <1>1, <1>3, <1>4, Climb
    <2> QED BY <1>1, <2>1
  <1> QED BY <1>2, <1>5 DEF S, n

\* What Chosen picks is what the files leave.
LEMMA FirstValueIsChosen ==
  ASSUME NEW key \in Keys, NEW P, picked \in Seq(P),
         \A i \in DOMAIN picked : picked[i] \in DOMAIN envs => IsEnvFile(envs[picked[i]])
  PROVE  Chosen(key) = IF shell[key] # None THEN shell[key]
                       ELSE FirstValue(envs, picked, Len(picked), key)
  <1> DEFINE sets(p) == {i \in DOMAIN envs[p] : envs[p][i][1] = key}
             with == {i \in DOMAIN picked : picked[i] \in DOMAIN envs /\ sets(picked[i]) # {}}
             G == Giving(envs, picked, Len(picked), key)
  <1>1. DOMAIN picked = 1..Len(picked) /\ Len(picked) \in Nat BY LenProperties
  <1>2. ASSUME NEW i \in DOMAIN picked, picked[i] \in DOMAIN envs
        PROVE  /\ sets(picked[i]) = {} => Read(envs, picked[i])[key] = None
               /\ sets(picked[i]) # {} =>
                    /\ Read(envs, picked[i])[key] = envs[picked[i]][Latest(sets(picked[i]))][2]
                    /\ Read(envs, picked[i])[key] # None
    <2> DEFINE lines == envs[picked[i]]
    <2>1. IsEnvFile(lines) BY <1>2
    <2> HIDE DEF lines
    <2>2. Len(lines) \in Nat /\ DOMAIN lines = 1..Len(lines) /\ \A j \in DOMAIN lines : lines[j][2] # None
      BY <2>1, LenProperties DEF IsEnvFile
    <2>3. FileVars(lines)[key] = ValueUpTo(lines, Len(lines), key) BY <2>1, FileVarsAre
    <2>4. SetBy(lines, Len(lines), key) = {j \in DOMAIN lines : lines[j][1] = key} BY <2>2 DEF SetBy
    <2> DEFINE L == {j \in DOMAIN lines : lines[j][1] = key}
    <2>5. FileVars(lines)[key] = IF L = {} THEN None ELSE lines[Latest(L)][2]
      BY <2>3, <2>4 DEF ValueUpTo
    <2>6. L # {} => Latest(L) \in DOMAIN lines
      <3>1. L \in SUBSET (0..Len(lines)) /\ L \subseteq DOMAIN lines BY <2>2
      <3> HIDE DEF L
      <3> QED BY <2>2, <3>1, LatestIsIn
    <2>7. sets(picked[i]) = L BY DEF lines
    <2>8. Read(envs, picked[i]) = FileVars(lines) BY <1>2 DEF Read, lines
    <2> HIDE DEF L, sets
    <2>9. L # {} => lines[Latest(L)][2] # None BY <2>2, <2>6
    <2> QED BY <2>5, <2>7, <2>8, <2>9 DEF lines
  <1>3. ASSUME NEW i \in DOMAIN picked, picked[i] \notin DOMAIN envs
        PROVE  Read(envs, picked[i])[key] = None
    BY <1>3 DEF Read, Empty
  <1>4. G = with BY <1>1, <1>2, <1>3 DEF Giving
  <1>5. CASE with = {}
    <2>1. FirstValue(envs, picked, Len(picked), key) = None BY <1>4, <1>5 DEF FirstValue
    <2> QED BY <1>5, <2>1 DEF Chosen
  <1>6. CASE with # {}
    <2>1. with \in SUBSET Nat BY <1>1
    <2>2. First(with) \in with BY <1>6, <2>1, FirstIsIn
    <2> DEFINE p == picked[First(with)]
    <2>3. FirstValue(envs, picked, Len(picked), key) = Read(envs, p)[key] BY <1>4, <1>6 DEF FirstValue
    <2>4. Read(envs, p)[key] = envs[p][Latest(sets(p))][2] BY <1>2, <2>2
    <2>5. Chosen(key) = IF shell[key] # None THEN shell[key] ELSE envs[p][Latest(sets(p))][2]
      BY <1>6 DEF Chosen
    <2> QED BY <2>3, <2>4, <2>5
  <1> QED BY <1>5, <1>6

----------------------------------------------------------------------------
(* The manifest: what an insertion keeps.                                   *)

\* An insertion keeps the lines K, all but blank ones, in their order, line i at at[i];
\* besides there are the item at m and perhaps, behind the kept lines, its key.
Keeps(lines, edited, K, at, m) ==
  /\ Len(lines) \in Nat /\ DOMAIN lines = 1..Len(lines)
  /\ Len(edited) \in Nat /\ DOMAIN edited = 1..Len(edited)
  /\ K \subseteq DOMAIN lines /\ \A i \in DOMAIN lines : i \in K \/ lines[i].kind = "blank"
  /\ \A i \in K : at[i] \in DOMAIN edited /\ edited[at[i]] = lines[i] /\ at[i] # m
  /\ \A i, j \in K : i < j => at[i] < at[j]
  /\ m \in DOMAIN edited /\ edited[m].kind = "item"
  /\ \A x \in DOMAIN edited :
       \/ \E i \in K : x = at[i]
       \/ x = m
       \/ edited[x].kind = "packages" /\ \A i \in K : at[i] < x

LEMMA KeepsOrder ==
  ASSUME NEW lines, NEW edited, NEW K, NEW at, NEW m, Keeps(lines, edited, K, at, m),
         NEW i \in K, NEW j \in K
  PROVE  /\ i \in Nat /\ j \in Nat /\ at[i] \in Nat /\ at[j] \in Nat
         /\ i <= j <=> at[i] <= at[j]
         /\ i = j <=> at[i] = at[j]
  <1>1. i \in Nat /\ j \in Nat /\ at[i] \in Nat /\ at[j] \in Nat BY DEF Keeps
  <1>2. (i < j => at[i] < at[j]) /\ (j < i => at[j] < at[i]) BY DEF Keeps
  <1> QED BY <1>1, <1>2

\* Every item keeps its key.
LEMMA KeepsKey ==
  ASSUME NEW lines, NEW edited, NEW K, NEW at, NEW m, Keeps(lines, edited, K, at, m),
         NEW i \in K, \E k \in 1..i : IsKey(lines[k])
  PROVE  KeyOf(lines, i) \in K /\ IsKey(lines[KeyOf(lines, i)])
         /\ KeyOf(edited, at[i]) = at[KeyOf(lines, i)]
  <1> DEFINE A == {k \in 1..i : IsKey(lines[k])}
             B == {k \in 1..at[i] : IsKey(edited[k])}
             q == Latest(A)
  <1>1. i \in Nat /\ at[i] \in Nat /\ i <= Len(lines) /\ at[i] <= Len(edited) /\ Len(edited) \in Nat
    BY DEF Keeps
  <1>2. \A k \in A : k \in K
    <2>1. ASSUME NEW k \in A PROVE k \in K
      <3>1. k \in DOMAIN lines /\ IsKey(lines[k]) BY <1>1 DEF Keeps
      <3>2. lines[k].kind # "blank" BY <3>1 DEF IsKey
      <3> QED BY <3>1, <3>2 DEF Keeps
    <2> QED BY <2>1
  <1>3. A \in SUBSET (0..i) /\ A # {} BY <1>1
  <1>4. q \in A /\ \A k \in A : k <= q
    <2> HIDE DEF A
    <2> QED BY <1>1, <1>3, LatestIsIn
  <1>5. q \in K /\ IsKey(lines[q]) /\ q <= i BY <1>2, <1>4
  <1>6. KeyOf(lines, i) = q BY DEF KeyOf
  <1>7. KeyOf(edited, at[i]) = Latest(B) BY DEF KeyOf
  <1> HIDE DEF q
  <1>8. at[q] \in B
    <2>1. at[q] <= at[i] /\ at[q] \in Nat BY <1>5, KeepsOrder
    <2>2. at[q] \in DOMAIN edited /\ edited[at[q]] = lines[q] BY <1>5 DEF Keeps
    <2> QED BY <1>1, <1>5, <2>1, <2>2 DEF Keeps
  <1>9. ASSUME NEW b \in B PROVE b <= at[q]
    <2>1. b \in DOMAIN edited /\ IsKey(edited[b]) /\ b <= at[i] /\ b \in Nat BY <1>1 DEF Keeps
    <2>2. b # m BY <2>1 DEF Keeps, IsKey
    <2>3. ~(at[i] < b) BY <1>1, <2>1
    <2>4. PICK k \in K : b = at[k] BY <2>1, <2>2, <2>3 DEF Keeps
    <2>5. edited[b] = lines[k] BY <2>4 DEF Keeps
    <2>6. k <= i /\ k \in Nat BY <2>1, <2>4, KeepsOrder
    <2>7. k >= 1 BY DEF Keeps
    <2>8. k \in A BY <1>1, <2>1, <2>5, <2>6, <2>7
    <2>9. k <= q BY <1>4, <2>8
    <2> QED BY <1>5, <2>4, <2>9, KeepsOrder
  <1>10. B \in SUBSET Int OBVIOUS
  <1> HIDE DEF B
  <1>11. Latest(B) = at[q] BY <1>8, <1>9, <1>10, LatestIs
  <1> QED BY <1>5, <1>6, <1>7, <1>11

LEMMA KeepsItems ==
  ASSUME NEW lines, NEW edited, NEW K, NEW at, NEW m, Keeps(lines, edited, K, at, m)
  PROVE  /\ Items(lines) \subseteq K
         /\ Items(edited) = {at[i] : i \in Items(lines)} \cup {m}
  <1>1. Items(lines) \subseteq K BY DEF Keeps, Items
  <1>2. ASSUME NEW x \in Items(edited) PROVE x \in {at[i] : i \in Items(lines)} \cup {m}
    <2>1. x \in DOMAIN edited /\ edited[x].kind = "item" BY DEF Items
    <2>2. x = m \/ \E i \in K : x = at[i] BY <2>1 DEF Keeps
    <2>3. ASSUME NEW i \in K, x = at[i] PROVE i \in Items(lines)
      BY <2>1, <2>3 DEF Keeps, Items
    <2> QED BY <2>2, <2>3
  <1>3. ASSUME NEW i \in Items(lines) PROVE at[i] \in Items(edited)
    BY <1>1 DEF Keeps, Items
  <1>4. m \in Items(edited) BY DEF Keeps, Items
  <1> QED BY <1>1, <1>2, <1>3, <1>4

\* The other entries keep their places among each other.
LEMMA KeepsOthers ==
  ASSUME NEW lines, NEW edited, NEW K, NEW at, NEW m, Keeps(lines, edited, K, at, m)
  PROVE  Others(edited) = Others(lines)
  <1> DEFINE A == OtherLines(lines)
             B == OtherLines(edited)
             below(i) == {j \in A : j <= i}
             before(x) == {y \in B : y <= x}
  <1>1. A \subseteq K
    <2>1. ASSUME NEW i \in A PROVE i \in K
      <3>1. i \in DOMAIN lines /\ lines[i].kind # "blank" BY DEF OtherLines, IsIgnored
      <3> QED BY <3>1 DEF Keeps
    <2> QED BY <2>1
  <1>2. \A i \in A : at[i] \in B /\ edited[at[i]] = lines[i]
    BY <1>1 DEF Keeps, OtherLines
  <1>3. ASSUME NEW x \in B PROVE \E i \in A : x = at[i]
    <2>1. x \in DOMAIN edited /\ edited[x].kind \notin {"packages", "item"} /\ ~IsIgnored(edited[x])
      BY DEF OtherLines
    <2>2. x # m BY <2>1 DEF Keeps
    <2>3. PICK i \in K : x = at[i] BY <2>1, <2>2 DEF Keeps
    <2>4. i \in DOMAIN lines /\ edited[x] = lines[i] BY <2>3 DEF Keeps
    <2>5. i \in A BY <2>1, <2>4 DEF OtherLines
    <2> QED BY <2>3, <2>5
  <1>4. \A i, j \in A : (i <= j <=> at[i] <= at[j]) /\ (i = j <=> at[i] = at[j])
    BY <1>1, KeepsOrder
  <1>5. \A i \in A : IsFiniteSet(below(i))
    <2>1. ASSUME NEW i \in A PROVE IsFiniteSet(below(i))
      <3>1. i \in Nat /\ A \subseteq Nat BY <1>1 DEF Keeps
      <3>2. below(i) \in SUBSET Nat /\ \A j \in below(i) : j <= i BY <3>1
      <3> HIDE DEF below
      <3> QED BY <3>1, <3>2, FS_BoundedSetOfNaturals
    <2> QED BY <2>1
  <1> HIDE DEF A, B
  <1>6. ASSUME NEW i \in A PROVE Cardinality(before(at[i])) = Cardinality(below(i))
    <2> DEFINE S == below(i)
               T == before(at[i])
               f == [j \in S |-> at[j]]
    <2>1. f \in [S -> T]
      <3>1. \A j \in S : at[j] \in T BY <1>2, <1>4
      <3> HIDE DEF S, T
      <3> QED BY <3>1
    <2>2. \A a, b \in S : f[a] = f[b] => a = b BY <1>4
    <2>3. \A t \in T : \E s \in S : f[s] = t
      <3>1. ASSUME NEW t \in T PROVE \E s \in S : f[s] = t
        <4>1. t \in B /\ t <= at[i] OBVIOUS
        <4>2. PICK s \in A : t = at[s] BY <1>3, <4>1
        <4>3. s \in S BY <1>4, <4>1, <4>2
        <4> QED BY <4>2, <4>3
      <3> QED BY <3>1
    <2>4. DOMAIN f = S OBVIOUS
    <2>5. IsFiniteSet(S) BY <1>5
    <2> HIDE DEF S, T, f
    <2>6. f \in Bijection(S, T)
      BY <2>1, <2>2, <2>3, <2>4 DEF Bijection, Injection, Surjection, IsInjective
    <2>7. ExistsBijection(S, T) BY <2>6 DEF ExistsBijection
    <2>8. Cardinality(T) = Cardinality(S) BY <2>5, <2>7, FS_Bijection
    <2> QED BY <2>8 DEF S, T
  <1>7. Others(lines) = {<<Cardinality(below(i)), lines[i]>> : i \in A} BY DEF Others, A
  <1>8. Others(edited) = {<<Cardinality(before(x)), edited[x]>> : x \in B} BY DEF Others, B
  <1> HIDE DEF below, before
  <1>9. \A i \in A : <<Cardinality(before(at[i])), edited[at[i]]>> = <<Cardinality(below(i)), lines[i]>>
    BY <1>2, <1>6
  <1>10. {<<Cardinality(before(x)), edited[x]>> : x \in B}
           = {<<Cardinality(before(at[i])), edited[at[i]]>> : i \in A}
    BY <1>2, <1>3
  <1> QED BY <1>7, <1>8, <1>9, <1>10

\* What WorkspaceIntact asks of a manifest and what became of it.
Intact(lines, edited, rel) ==
  /\ IsYaml(edited)
  /\ Members(edited) = Members(lines) \cup {rel}
  /\ Cardinality({i \in Listed(edited) : edited[i].value = rel}) = 1
  /\ Others(edited) = Others(lines)
  /\ \A i \in Items(lines) : ~(i \in Listed(lines)) => Contains(edited, lines[i])

\* The new item is one of the list, and fits the items that are there.
Fits(lines, edited, at, m, rel) ==
  /\ edited[m].value = rel /\ edited[KeyOf(edited, m)].kind = "packages"
  /\ \A i \in Items(lines) : at[KeyOf(lines, i)] = KeyOf(edited, m) => lines[i].indent = edited[m].indent
  /\ \A i \in Listed(lines) : lines[i].value # rel

LEMMA KeepsIntact ==
  ASSUME NEW lines, NEW edited, NEW K, NEW at, NEW m, NEW rel,
         Keeps(lines, edited, K, at, m), Fits(lines, edited, at, m, rel),
         \A i \in Items(lines) : \E k \in 1..i : IsKey(lines[k]), IsYaml(lines)
  PROVE  Intact(lines, edited, rel)
  <1>1. Items(lines) \subseteq K /\ Items(edited) = {at[i] : i \in Items(lines)} \cup {m}
    BY KeepsItems
  <1>2. \A i \in Items(lines) :
          /\ i \in K /\ KeyOf(lines, i) \in K
          /\ KeyOf(edited, at[i]) = at[KeyOf(lines, i)]
          /\ edited[at[i]] = lines[i] /\ at[i] # m
          /\ edited[at[KeyOf(lines, i)]] = lines[KeyOf(lines, i)]
    <2>1. ASSUME NEW i \in Items(lines)
          PROVE  /\ i \in K /\ KeyOf(lines, i) \in K /\ KeyOf(edited, at[i]) = at[KeyOf(lines, i)]
      <3>1. i \in K /\ \E k \in 1..i : IsKey(lines[k]) BY <1>1
      <3> QED BY <3>1, KeepsKey
    <2>2. \A k \in K : edited[at[k]] = lines[k] /\ at[k] # m BY DEF Keeps
    <2> QED BY <2>1, <2>2
  <1>3. \A i, j \in K : at[i] = at[j] => i = j BY KeepsOrder
  <1>4. IsYaml(edited)
    <2>1. ASSUME NEW i \in Items(lines), NEW j \in Items(lines),
                 KeyOf(edited, at[i]) = KeyOf(edited, at[j])
          PROVE  edited[at[i]].indent = edited[at[j]].indent
      <3>1. KeyOf(lines, i) = KeyOf(lines, j) BY <1>2, <1>3, <2>1
      <3> QED BY <1>2, <3>1 DEF IsYaml
    <2>2. ASSUME NEW i \in Items(lines), KeyOf(edited, at[i]) = KeyOf(edited, m)
          PROVE  edited[at[i]].indent = edited[m].indent
      BY <1>2, <2>2 DEF Fits
    <2>3. ASSUME NEW x \in Items(edited), NEW y \in Items(edited), KeyOf(edited, x) = KeyOf(edited, y)
          PROVE  edited[x].indent = edited[y].indent
      <3>1. x = m \/ \E i \in Items(lines) : x = at[i] BY <1>1
      <3>2. y = m \/ \E i \in Items(lines) : y = at[i] BY <1>1
      <3> QED BY <2>1, <2>2, <2>3, <3>1, <3>2
    <2> QED BY <2>3 DEF IsYaml
  <1>5. Listed(edited) = {at[i] : i \in Listed(lines)} \cup {m}
    <2>1. \A i \in Items(lines) : at[i] \in Listed(edited) <=> i \in Listed(lines)
      BY <1>1, <1>2 DEF Listed
    <2>2. m \in Listed(edited) BY <1>1 DEF Listed, Fits
    <2>3. Listed(lines) \subseteq Items(lines) /\ Listed(edited) \subseteq Items(edited) BY DEF Listed
    <2> QED BY <1>1, <2>1, <2>2, <2>3
  <1>6. \A i \in Listed(lines) : edited[at[i]] = lines[i] BY <1>2 DEF Listed
  <1>7. Members(edited) = Members(lines) \cup {rel}
    <2>1. Members(edited) = {edited[at[i]].value : i \in Listed(lines)} \cup {edited[m].value}
      BY <1>5 DEF Members
    <2>2. {edited[at[i]].value : i \in Listed(lines)} = {lines[i].value : i \in Listed(lines)} BY <1>6
    <2> QED BY <2>1, <2>2 DEF Members, Fits
  <1>8. {i \in Listed(edited) : edited[i].value = rel} = {m}
    BY <1>5, <1>6 DEF Fits
  <1>9. Cardinality({i \in Listed(edited) : edited[i].value = rel}) = 1 BY <1>8, FS_Singleton
  <1>10. Others(edited) = Others(lines) BY KeepsOthers
  <1>11. \A i \in Items(lines) : Contains(edited, lines[i])
    <2>1. ASSUME NEW i \in Items(lines) PROVE Contains(edited, lines[i])
      <3>1. at[i] \in DOMAIN edited /\ DOMAIN edited = 1..Len(edited) /\ edited[at[i]] = lines[i]
        BY <1>2 DEF Keeps
      <3> QED BY <3>1 DEF Contains
    <2> QED BY <2>1
  <1> QED BY <1>4, <1>7, <1>9, <1>10, <1>11 DEF Intact

\* InsertAt puts one line in.
LEMMA InsertAtIs ==
  ASSUME NEW L, NEW s \in Seq(L), NEW e \in L, NEW m \in 1 .. Len(s) + 1
  PROVE  /\ InsertAt(s, m, e) \in Seq(L) /\ Len(InsertAt(s, m, e)) = Len(s) + 1
         /\ InsertAt(s, m, e)[m] = e
         /\ \A i \in 1..Len(s) : InsertAt(s, m, e)[IF i < m THEN i ELSE i + 1] = s[i]
  <1> DEFINE a == SubSeq(s, 1, m - 1)
             b == SubSeq(s, m, Len(s))
             n == Len(s)
  <1>1. n \in Nat /\ \A i \in 1..n : s[i] \in L BY LenProperties, ElementOfSeq
  <1>2. /\ a \in Seq(L) /\ Len(a) = m - 1 /\ \A i \in 1 .. m - 1 : a[i] = s[i]
    <2>1. \A i \in 1 .. m - 1 : s[i] \in L BY <1>1
    <2>2. m - 1 \in Int /\ 1 \in Int /\ m - 1 >= 0 BY <1>1
    <2>3. /\ SubSeq(s, 1, m - 1) \in Seq(L)
          /\ Len(SubSeq(s, 1, m - 1)) = IF 1 <= m - 1 THEN (m - 1) - 1 + 1 ELSE 0
          /\ \A i \in 1 .. (m - 1) - 1 + 1 : SubSeq(s, 1, m - 1)[i] = s[1 + i - 1]
      BY <2>1, <2>2, SubSeqProperties
    <2>4. Len(a) = m - 1 BY <1>1, <2>2, <2>3
    <2>5. \A i \in 1 .. m - 1 : a[i] = s[i] BY <1>1, <2>2, <2>3
    <2> QED BY <2>3, <2>4, <2>5
  <1>3. /\ b \in Seq(L) /\ Len(b) = n - m + 1 /\ \A i \in 1 .. n - m + 1 : b[i] = s[m + i - 1]
    <2>1. \A i \in m .. n : s[i] \in L BY <1>1
    <2>2. /\ SubSeq(s, m, n) \in Seq(L)
          /\ Len(SubSeq(s, m, n)) = IF m <= n THEN n - m + 1 ELSE 0
          /\ \A i \in 1 .. n - m + 1 : SubSeq(s, m, n)[i] = s[m + i - 1]
      BY <1>1, <2>1, SubSeqProperties
    <2>3. Len(b) = n - m + 1 BY <1>1, <2>2
    <2> QED BY <2>2, <2>3
  <1>4. <<e>> \in Seq(L) /\ Len(<<e>>) = 1 /\ <<e>>[1] = e OBVIOUS
  <1> DEFINE one == <<e>>
             ab == a \o one
             all == ab \o b
  <1>5. one \in Seq(L) /\ Len(one) = 1 /\ one[1] = e BY <1>4
  <1>6. InsertAt(s, m, e) = all BY DEF InsertAt
  <1> HIDE DEF a, b, one
  <1>7. /\ ab \in Seq(L) /\ Len(ab) = m
        /\ \A i \in 1..m : ab[i] = IF i < m THEN s[i] ELSE e
    <2>1. /\ a \o one \in Seq(L) /\ Len(a \o one) = Len(a) + Len(one)
          /\ \A i \in 1 .. Len(a) + Len(one) :
               (a \o one)[i] = IF i <= Len(a) THEN a[i] ELSE one[i - Len(a)]
      BY <1>2, <1>5, ConcatProperties
    <2>2. m \in Nat BY <1>1
    <2>3. Len(ab) = m BY <1>2, <1>5, <2>1, <2>2
    <2>4. ASSUME NEW i \in 1..m PROVE ab[i] = IF i < m THEN s[i] ELSE e
      <3>1. i \in 1 .. Len(a) + Len(one) BY <1>2, <1>5, <2>2
      <3>2. ab[i] = IF i <= Len(a) THEN a[i] ELSE one[i - Len(a)] BY <2>1, <3>1
      <3>3. CASE i < m
        <4>1. i <= Len(a) /\ i \in 1 .. m - 1 BY <1>2, <2>2, <3>3
        <4> QED BY <1>2, <3>2, <3>3, <4>1
      <3>4. CASE i = m
        <4>1. ~(i <= Len(a)) /\ i - Len(a) = 1 BY <1>2, <2>2, <3>4
        <4> HIDE DEF ab
        <4> QED BY <1>5, <3>2, <3>4, <4>1
      <3>5. i < m \/ i = m BY <2>2
      <3> HIDE DEF ab
      <3> QED BY <3>3, <3>4, <3>5
    <2> QED BY <2>1, <2>3, <2>4
  <1> HIDE DEF ab
  <1>8. /\ all \in Seq(L) /\ Len(all) = m + (n - m + 1)
        /\ \A i \in 1 .. m + (n - m + 1) : all[i] = IF i <= m THEN ab[i] ELSE b[i - m]
    <2>1. /\ ab \o b \in Seq(L) /\ Len(ab \o b) = Len(ab) + Len(b)
          /\ \A i \in 1 .. Len(ab) + Len(b) :
               (ab \o b)[i] = IF i <= Len(ab) THEN ab[i] ELSE b[i - Len(ab)]
      BY <1>3, <1>7, ConcatProperties
    <2> QED BY <1>3, <1>7, <2>1
  <1> HIDE DEF all, n
  <1>9. m \in 1 .. n + 1 BY DEF n
  <1>10. all[m] = e
    <2>1. m \in 1 .. m + (n - m + 1) /\ m \in 1..m /\ m <= m BY <1>1, <1>9
    <2> QED BY <1>7, <1>8, <2>1
  <1>11. ASSUME NEW i \in 1..n PROVE all[IF i < m THEN i ELSE i + 1] = s[i]
    <2>1. CASE i < m
      <3>1. i \in 1 .. m + (n - m + 1) /\ i \in 1..m /\ i <= m BY <1>1, <1>9, <2>1
      <3> QED BY <1>7, <1>8, <2>1, <3>1
    <2>2. CASE ~(i < m)
      <3>1. /\ i + 1 \in 1 .. m + (n - m + 1) /\ ~(i + 1 <= m)
            /\ (i + 1) - m \in 1 .. n - m + 1 /\ m + ((i + 1) - m) - 1 = i
        BY <1>1, <1>9, <2>2
      <3>2. all[i + 1] = b[(i + 1) - m] BY <1>8, <3>1
      <3> QED BY <1>3, <2>2, <3>1, <3>2
    <2> QED BY <2>1, <2>2
  <1>12. Len(all) = n + 1 BY <1>1, <1>8, <1>9
  <1> QED BY <1>6, <1>8, <1>10, <1>11, <1>12 DEF n

\* The items of a key are those that no unindented line separates from it.
Ends(line) == ~IsIgnored(line) /\ line.indent = 0
LEMMA ItemsOfAre ==
  ASSUME NEW lines, Len(lines) \in Nat, DOMAIN lines = 1..Len(lines), NEW o \in DOMAIN lines
  PROVE  ItemsOf(lines, o) =
           {i \in DOMAIN lines : i > o /\ lines[i].kind = "item" /\ \A k \in o + 1 .. i : ~Ends(lines[k])}
  <1> DEFINE ends == {i \in DOMAIN lines : i > o /\ ~IsIgnored(lines[i]) /\ lines[i].indent = 0}
             end  == IF ends = {} THEN Len(lines) + 1 ELSE First(ends)
             P(i) == i \in DOMAIN lines /\ i > o /\ lines[i].kind = "item"
                       /\ \A k \in o + 1 .. i : ~Ends(lines[k])
  <1>1. ItemsOf(lines, o) = {i \in o + 1 .. end - 1 : lines[i].kind = "item"} BY DEF ItemsOf
  <1>2. ends \in SUBSET Nat /\ \A k \in DOMAIN lines : k \in ends <=> k > o /\ Ends(lines[k])
    BY DEF Ends
  <1>3. \A k \in ends : k \in DOMAIN lines /\ k > o OBVIOUS
  <1> HIDE DEF ends
  <1>4. /\ end \in Nat /\ end <= Len(lines) + 1 /\ end > o
        /\ \A k \in ends : end <= k
        /\ end <= Len(lines) => end \in ends
    <2>1. CASE ends = {} BY <2>1
    <2>2. CASE ends # {}
      <3>1. First(ends) \in ends /\ \A x \in ends : First(ends) <= x BY <1>2, <2>2, FirstIsIn
      <3> DEFINE f == First(ends)
      <3>2. end = f BY <2>2
      <3>3. f \in ends /\ \A x \in ends : f <= x BY <3>1
      <3> HIDE DEF f, end
      <3>4. f \in DOMAIN lines /\ f > o BY <1>3, <3>3
      <3> QED BY <3>2, <3>3, <3>4
    <2> QED BY <2>1, <2>2
  <1> HIDE DEF end
  <1>5. ASSUME NEW i \in o + 1 .. end - 1, lines[i].kind = "item" PROVE P(i)
    <2>1. i \in DOMAIN lines /\ i > o BY <1>4
    <2>2. ASSUME NEW k \in o + 1 .. i PROVE ~Ends(lines[k])
      <3>1. k \in DOMAIN lines /\ k > o /\ k < end BY <1>4, <2>1
      <3>2. k \notin ends BY <1>4, <3>1
      <3> QED BY <1>2, <3>1, <3>2
    <2> QED BY <1>5, <2>1, <2>2
  <1>6. ASSUME NEW i, P(i) PROVE i \in o + 1 .. end - 1
    <2>1. i \in Nat /\ i <= Len(lines) BY <1>6
    <2>2. i < end
      <3> SUFFICES ASSUME end <= i PROVE FALSE BY <1>4, <2>1
      <3>1. end \in ends BY <1>4, <2>1
      <3>2. end \in o + 1 .. i BY <1>4, <2>1
      <3>3. Ends(lines[end]) BY <1>2, <1>3, <3>1
      <3> QED BY <1>6, <3>2, <3>3
    <2> QED BY <1>4, <1>6, <2>1, <2>2
  <1>7. \A i : P(i) <=> i \in o + 1 .. end - 1 /\ lines[i].kind = "item" BY <1>5, <1>6
  <1> HIDE DEF P
  <1>8. {i \in o + 1 .. end - 1 : lines[i].kind = "item"} = {i \in DOMAIN lines : P(i)}
    <2>1. \A i : P(i) => i \in DOMAIN lines BY DEF P
    <2> QED BY <1>7, <2>1
  <1> QED BY <1>1, <1>8 DEF P

\* The item m is in the list that the manifest opens at o.
Holds(lines, o, m, rel) ==
  /\ Len(lines) \in Nat /\ DOMAIN lines = 1..Len(lines)
  /\ \A i \in DOMAIN lines : IsKey(lines[i]) => lines[i].indent = 0
  /\ Opening(lines) = {o} /\ lines[o].kind = "packages"
  /\ m \in DOMAIN lines /\ m > o /\ lines[m].kind = "item" /\ lines[m].value = rel
  /\ \A k \in o + 1 .. m : ~Ends(lines[k])

LEMMA HoldsMember ==
  ASSUME NEW lines, NEW o, NEW m, NEW rel, Holds(lines, o, m, rel)
  PROVE  /\ KeyOf(lines, m) = o /\ m \in Listed(lines) /\ rel \in Members(lines)
         /\ InsertWorkspacePackage(lines, rel) = lines
  <1>1. o \in DOMAIN lines /\ o \in Nat /\ m \in Nat BY DEF Holds, Opening
  <1>2. KeyOf(lines, m) = o
    <2> DEFINE A == {k \in 1..m : IsKey(lines[k])}
    <2>1. o \in A BY <1>1 DEF Holds, IsKey
    <2>2. ASSUME NEW k \in A PROVE k <= o
      <3>1. k \in DOMAIN lines /\ IsKey(lines[k]) /\ k <= m /\ k \in Nat BY <1>1 DEF Holds
      <3>2. Ends(lines[k]) BY <3>1 DEF Holds, Ends, IsKey, IsIgnored
      <3>3. ~(k \in o + 1 .. m) BY <3>2 DEF Holds
      <3> QED BY <1>1, <3>1, <3>3
    <2>3. A \in SUBSET Int OBVIOUS
    <2>4. KeyOf(lines, m) = Latest(A) BY DEF KeyOf
    <2> HIDE DEF A
    <2> QED BY <2>1, <2>2, <2>3, <2>4, LatestIs
  <1>3. m \in Listed(lines) BY <1>2 DEF Listed, Items, Holds
  <1>4. rel \in Members(lines) BY <1>3 DEF Members, Holds
  <1>5. First(Opening(lines)) = o
    <2>1. Opening(lines) = {o} BY DEF Holds
    <2>2. {o} \in SUBSET Int /\ o \in {o} /\ \A x \in {o} : o <= x BY <1>1
    <2> QED BY <2>1, <2>2, FirstIs
  <1>6. m \in ItemsOf(lines, o)
    <2>1. Len(lines) \in Nat /\ DOMAIN lines = 1..Len(lines) BY DEF Holds
    <2>2. m \in DOMAIN lines /\ m > o /\ lines[m].kind = "item" /\ \A k \in o + 1 .. m : ~Ends(lines[k])
      BY DEF Holds
    <2> QED BY <1>1, <2>1, <2>2, ItemsOfAre
  <1>7. Opening(lines) # {} /\ lines[o].kind # "inline" /\ \E i \in ItemsOf(lines, o) : lines[i].value = rel
    BY <1>6 DEF Holds
  <1>8. InsertWorkspacePackage(lines, rel) = lines BY <1>5, <1>7 DEF InsertWorkspacePackage
  <1> QED BY <1>2, <1>3, <1>4, <1>8

\* A manifest and its lines.
LEMMA ManifestIs ==
  ASSUME NEW lines, IsManifest(lines)
  PROVE  /\ lines \in Seq([kind : Kinds, indent : Nat, value : Seq(STRING)])
         /\ Len(lines) \in Nat /\ DOMAIN lines = 1..Len(lines)
         /\ \A i \in DOMAIN lines : lines[i].indent \in Nat /\ (IsKey(lines[i]) => lines[i].indent = 0)
         /\ \A i \in Items(lines) : \E k \in 1..i : IsKey(lines[k])
         /\ Opening(lines) # {} => Opening(lines) = {First(Opening(lines))}
         /\ IsYaml(lines)
  <1>1. lines \in Seq([kind : Kinds, indent : Nat, value : Seq(STRING)]) BY DEF IsManifest
  <1>2. Len(lines) \in Nat /\ DOMAIN lines = 1..Len(lines) BY <1>1, LenProperties
  <1>3. \A i \in DOMAIN lines : lines[i].indent \in Nat
    <2>1. \A i \in 1..Len(lines) : lines[i] \in [kind : Kinds, indent : Nat, value : Seq(STRING)]
      BY <1>1, ElementOfSeq
    <2> QED BY <1>2, <2>1
  <1>4. Opening(lines) # {} => Opening(lines) = {First(Opening(lines))}
    <2>1. Opening(lines) \in SUBSET Nat BY <1>2 DEF Opening
    <2>2. ASSUME Opening(lines) # {} PROVE First(Opening(lines)) \in Opening(lines)
      BY <2>1, <2>2, FirstIsIn
    <2>3. \A i, j \in Opening(lines) : i = j BY DEF IsManifest
    <2> QED BY <2>2, <2>3
  <1> QED BY <1>1, <1>2, <1>3, <1>4 DEF IsManifest

\* The items of the list are those that the insertion looks at, if lists are indented.
LEMMA ListedAre ==
  ASSUME NEW lines, IsManifest(lines), NEW o, Opening(lines) = {o}, lines[o].kind = "packages"
  PROVE  /\ \A i \in ItemsOf(lines, o) : Holds(lines, o, i, lines[i].value)
         /\ \A i \in ItemsOf(lines, o) : i \in Listed(lines) /\ KeyOf(lines, i) = o
         /\ Indented(lines) => Listed(lines) = ItemsOf(lines, o)
         /\ \A i \in Items(lines) : KeyOf(lines, i) = o => i \in Listed(lines)
         /\ \A i \in Listed(lines) : KeyOf(lines, i) = o
  <1>1. /\ Len(lines) \in Nat /\ DOMAIN lines = 1..Len(lines)
        /\ \A i \in DOMAIN lines : lines[i].indent \in Nat /\ (IsKey(lines[i]) => lines[i].indent = 0)
        /\ \A i \in Items(lines) : \E k \in 1..i : IsKey(lines[k])
    BY ManifestIs
  <1>2. o \in DOMAIN lines /\ o \in Nat BY <1>1 DEF Opening
  <1>3. ItemsOf(lines, o) =
          {i \in DOMAIN lines : i > o /\ lines[i].kind = "item" /\ \A k \in o + 1 .. i : ~Ends(lines[k])}
    BY <1>1, <1>2, ItemsOfAre
  <1>4. \A i \in ItemsOf(lines, o) : Holds(lines, o, i, lines[i].value) BY <1>1, <1>3 DEF Holds
  <1>5. \A i \in ItemsOf(lines, o) : i \in Listed(lines) /\ KeyOf(lines, i) = o BY <1>4, HoldsMember
  <1>6. ASSUME NEW i \in Items(lines)
        PROVE  /\ KeyOf(lines, i) \in 1..i /\ IsKey(lines[KeyOf(lines, i)])
               /\ \A k \in 1..i : IsKey(lines[k]) => k <= KeyOf(lines, i)
    <2> DEFINE A == {k \in 1..i : IsKey(lines[k])}
    <2>1. i \in Nat /\ A \in SUBSET (0..i) /\ A # {} BY <1>1 DEF Items
    <2>2. Latest(A) \in A /\ \A k \in A : k <= Latest(A)
      <3> HIDE DEF A
      <3> QED BY <2>1, LatestIsIn
    <2>3. KeyOf(lines, i) = Latest(A) BY DEF KeyOf
    <2> DEFINE q == Latest(A)
    <2>4. q \in A /\ \A k \in A : k <= q BY <2>2
    <2> HIDE DEF q
    <2> QED BY <2>3, <2>4 DEF q
  <1>7. ASSUME NEW i \in Listed(lines) PROVE KeyOf(lines, i) = o
    <2>1. i \in Items(lines) /\ lines[KeyOf(lines, i)].kind = "packages" BY DEF Listed
    <2>2. KeyOf(lines, i) \in DOMAIN lines BY <1>1, <1>6, <2>1 DEF Items
    <2>3. KeyOf(lines, i) \in Opening(lines) BY <2>1, <2>2 DEF Opening
    <2> QED BY <2>3
  <1>8. \A i \in Items(lines) : KeyOf(lines, i) = o => i \in Listed(lines) BY DEF Listed
  <1>9. ASSUME Indented(lines), NEW i \in Listed(lines) PROVE i \in ItemsOf(lines, o)
    <2>1. i \in Items(lines) /\ KeyOf(lines, i) = o BY <1>7 DEF Listed
    <2>2. i \in DOMAIN lines /\ lines[i].kind = "item" /\ i \in Nat BY <1>1, <2>1 DEF Items
    <2>3. o \in 1..i /\ \A k \in 1..i : IsKey(lines[k]) => k <= o BY <1>6, <2>1
    <2>4. i > o
      <3>1. i # o BY <2>2
      <3> QED BY <1>2, <2>2, <2>3, <3>1
    <2>5. ASSUME NEW k \in o + 1 .. i PROVE ~Ends(lines[k])
      <3>1. k \in 1..i /\ k \in DOMAIN lines /\ ~(k <= o) BY <1>1, <1>2, <2>2
      <3>2. ~IsKey(lines[k]) BY <2>3, <3>1
      <3>3. k \in Items(lines) => lines[k].indent > 0 BY <1>9 DEF Indented
      <3>4. lines[k].kind = "item" => lines[k].indent # 0 BY <1>1, <3>1, <3>3 DEF Items
      <3>5. lines[k].kind \in Kinds
        <4>1. lines \in Seq([kind : Kinds, indent : Nat, value : Seq(STRING)]) BY DEF IsManifest
        <4>2. lines[k] \in [kind : Kinds, indent : Nat, value : Seq(STRING)]
          BY <1>1, <3>1, <4>1, ElementOfSeq
        <4> QED BY <4>2
      <3> QED BY <3>2, <3>4, <3>5 DEF Ends, IsIgnored, IsKey, Kinds
    <2> QED BY <1>3, <2>2, <2>4, <2>5
  <1>10. Indented(lines) => Listed(lines) = ItemsOf(lines, o) BY <1>5, <1>9
  <1> QED BY <1>4, <1>5, <1>7, <1>8, <1>10

\* What becomes of a manifest that gets a member.
Joined(lines, edited, rel) ==
  /\ \E o, m : Holds(edited, o, m, rel)
  /\ Indented(lines) => Intact(lines, edited, rel)

LEMMA JoinedAlready ==
  ASSUME NEW lines, IsManifest(lines), NEW o, Opening(lines) = {o}, lines[o].kind = "packages",
         NEW m \in ItemsOf(lines, o)
  PROVE  Joined(lines, lines, lines[m].value)
  <1> DEFINE rel == lines[m].value
  <1>1. Holds(lines, o, m, rel) /\ m \in Listed(lines) BY ListedAre
  <1>2. rel \in Members(lines) BY <1>1 DEF Members
  <1>3. {i \in Listed(lines) : lines[i].value = rel} = {m} BY <1>1 DEF IsManifest
  <1>4. Cardinality({i \in Listed(lines) : lines[i].value = rel}) = 1 BY <1>3, FS_Singleton
  <1>5. \A i \in Items(lines) : Contains(lines, lines[i])
    BY ManifestIs DEF Items, Contains
  <1>6. IsYaml(lines) BY ManifestIs
  <1>7. Intact(lines, lines, rel) BY <1>2, <1>4, <1>5, <1>6 DEF Intact
  <1> QED BY <1>1, <1>7 DEF Joined

LEMMA JoinedInList ==
  ASSUME NEW lines, IsManifest(lines), NEW o, Opening(lines) = {o}, lines[o].kind = "packages",
         NEW rel, \A i \in ItemsOf(lines, o) : lines[i].value # rel,
         NEW after \in o..Len(lines), \A k \in o + 1 .. after : ~Ends(lines[k]),
         NEW indent \in Nat, indent # 0, \A i \in ItemsOf(lines, o) : lines[i].indent = indent
  PROVE  Joined(lines, InsertAt(lines, after + 1, Line("item", indent, rel)), rel)
  <1> DEFINE L == [kind : Kinds, indent : Nat, value : Seq(STRING)] \cup {Line("item", indent, rel)}
             m == after + 1
             new == Line("item", indent, rel)
             edited == InsertAt(lines, m, new)
             n == Len(lines)
             K == DOMAIN lines
             at == [i \in K |-> IF i < m THEN i ELSE i + 1]
  <1>1. /\ n \in Nat /\ DOMAIN lines = 1..n /\ lines \in Seq(L)
        /\ \A i \in DOMAIN lines : lines[i].indent \in Nat /\ (IsKey(lines[i]) => lines[i].indent = 0)
        /\ \A i \in Items(lines) : \E k \in 1..i : IsKey(lines[k])
        /\ IsYaml(lines)
    <2>1. lines \in Seq([kind : Kinds, indent : Nat, value : Seq(STRING)]) BY ManifestIs
    <2>2. lines \in Seq(L) BY <2>1, SeqMonotonic
    <2> QED BY <2>2, ManifestIs
  <1>2. o \in 1..n /\ after \in Nat /\ m \in 1 .. n + 1 /\ m \in Nat /\ o < m BY <1>1 DEF Opening
  <1>3. new.kind = "item" /\ new.indent = indent /\ new.value = rel /\ new \in L BY DEF Line
  <1> HIDE DEF L, new, n
  <1>4. /\ edited \in Seq(L) /\ Len(edited) = n + 1 /\ edited[m] = new
        /\ \A i \in 1..n : edited[IF i < m THEN i ELSE i + 1] = lines[i]
    <2> HIDE DEF m
    <2>1. lines \in Seq(L) /\ new \in L /\ m \in 1 .. Len(lines) + 1 BY <1>1, <1>2, <1>3 DEF n
    <2>2. /\ InsertAt(lines, m, new) \in Seq(L) /\ Len(InsertAt(lines, m, new)) = Len(lines) + 1
          /\ InsertAt(lines, m, new)[m] = new
          /\ \A i \in 1..Len(lines) : InsertAt(lines, m, new)[IF i < m THEN i ELSE i + 1] = lines[i]
      BY <2>1, InsertAtIs
    <2> QED BY <2>2 DEF n
  <1> HIDE DEF edited, m
  <1>5. DOMAIN edited = 1 .. n + 1 /\ Len(edited) \in Nat BY <1>1, <1>4, LenProperties
  <1>6. \A x \in 1 .. n + 1 : x = m \/ \E i \in 1..n : x = at[i] /\ edited[x] = lines[i]
    <2>1. ASSUME NEW x \in 1 .. n + 1, x # m
          PROVE  \E i \in 1..n : x = at[i] /\ edited[x] = lines[i]
      <3>1. CASE x < m
        <4>1. x \in 1..n /\ at[x] = x BY <1>1, <1>2, <2>1, <3>1
        <4>2. edited[x] = lines[x] BY <1>4, <3>1, <4>1
        <4> QED BY <4>1, <4>2
      <3>2. CASE x > m
        <4>1. x - 1 \in 1..n /\ ~(x - 1 < m) /\ (x - 1) + 1 = x BY <1>1, <1>2, <2>1, <3>2
        <4>2. at[x - 1] = x BY <1>1, <4>1
        <4>3. edited[x] = lines[x - 1] BY <1>4, <4>1
        <4> QED BY <4>1, <4>2, <4>3
      <3> QED BY <1>2, <2>1, <3>1, <3>2
    <2> QED BY <2>1
  <1>7. Keeps(lines, edited, K, at, m)
    <2>1. \A i \in K : at[i] \in DOMAIN edited /\ edited[at[i]] = lines[i] /\ at[i] # m
      <3>1. ASSUME NEW i \in K PROVE at[i] \in DOMAIN edited /\ edited[at[i]] = lines[i] /\ at[i] # m
        <4>1. i \in 1..n BY <1>1
        <4>2. at[i] = IF i < m THEN i ELSE i + 1 OBVIOUS
        <4>3. edited[at[i]] = lines[i] BY <1>4, <4>1
        <4> HIDE DEF at
        <4>4. at[i] \in 1 .. n + 1 /\ at[i] # m BY <1>1, <1>2, <4>1, <4>2
        <4> QED BY <1>5, <4>3, <4>4
      <3> QED BY <3>1
    <2>2. ASSUME NEW i \in K, NEW j \in K, i < j PROVE at[i] < at[j]
      BY <1>1, <1>2, <2>2
    <2>3. \A x \in DOMAIN edited : x = m \/ \E i \in K : x = at[i] BY <1>1, <1>5, <1>6
    <2>4. m \in DOMAIN edited /\ edited[m].kind = "item" BY <1>1, <1>2, <1>3, <1>4, <1>5
    <2> HIDE DEF at, K
    <2>5. K = DOMAIN lines BY DEF K
    <2> QED BY <1>1, <1>4, <1>5, <2>1, <2>2, <2>3, <2>4, <2>5 DEF Keeps, n
  <1>8. Holds(edited, o, m, rel)
    <2>1. \A i \in DOMAIN edited : IsKey(edited[i]) => edited[i].indent = 0
      <3>1. ASSUME NEW x \in DOMAIN edited, IsKey(edited[x]) PROVE edited[x].indent = 0
        <4>1. x # m BY <1>3, <1>4, <3>1 DEF IsKey
        <4>2. PICK i \in 1..n : edited[x] = lines[i] BY <1>5, <1>6, <4>1
        <4> QED BY <1>1, <3>1, <4>2
      <3> QED BY <3>1
    <2>2. at[o] = o /\ edited[o] = lines[o] BY <1>1, <1>2, <1>4
    <2>3. Opening(edited) = {o}
      <3>1. ASSUME NEW x \in Opening(edited) PROVE x = o
        <4>1. x \in 1 .. n + 1 /\ edited[x].kind \in {"packages", "inline"} BY <1>5 DEF Opening
        <4>2. x # m BY <1>3, <1>4, <4>1
        <4>3. PICK i \in 1..n : x = at[i] /\ edited[x] = lines[i] BY <1>6, <4>1, <4>2
        <4>4. i \in Opening(lines) BY <1>1, <4>1, <4>3 DEF Opening
        <4> QED BY <2>2, <4>3, <4>4
      <3>2. o \in Opening(edited)
        <4>1. o \in DOMAIN edited BY <1>1, <1>2, <1>5
        <4> QED BY <2>2, <4>1 DEF Opening
      <3> QED BY <3>1, <3>2
    <2>4. ASSUME NEW k \in o + 1 .. m PROVE ~Ends(edited[k])
      <3>1. CASE k = m BY <1>3, <1>4, <3>1 DEF Ends
      <3>2. CASE k < m
        <4>1. k \in 1..n /\ k \in o + 1 .. after BY <1>1, <1>2, <3>2 DEF m
        <4>2. edited[k] = lines[k] BY <1>4, <3>2, <4>1
        <4> QED BY <4>1, <4>2
      <3> QED BY <1>2, <3>1, <3>2
    <2>5. m \in DOMAIN edited /\ m > o /\ edited[m].kind = "item" /\ edited[m].value = rel
      BY <1>1, <1>2, <1>3, <1>4, <1>5
    <2> QED BY <1>1, <1>4, <1>5, <2>1, <2>2, <2>3, <2>4, <2>5 DEF Holds
  <1>9. ASSUME Indented(lines) PROVE Intact(lines, edited, rel)
    <2>1. KeyOf(edited, m) = o BY <1>8, HoldsMember
    <2>2. edited[o].kind = "packages" BY <1>8 DEF Holds
    <2>3. at[o] = o /\ o \in K BY <1>1, <1>2
    <2>4. Listed(lines) = ItemsOf(lines, o) BY <1>9, ListedAre
    <2>5. ASSUME NEW i \in Items(lines), at[KeyOf(lines, i)] = o
          PROVE  lines[i].indent = edited[m].indent
      <3>1. i \in K /\ \E k \in 1..i : IsKey(lines[k]) BY <1>1 DEF Items
      <3> HIDE DEF at, K
      <3>2. KeyOf(lines, i) \in K BY <1>7, <3>1, KeepsKey
      <3>3. KeyOf(lines, i) = o BY <1>7, <2>3, <2>5, <3>2, KeepsOrder
      <3>4. i \in ItemsOf(lines, o) BY <2>4, <3>3, ListedAre
      <3> QED BY <1>3, <1>4, <3>4
    <2>6. \A i \in Listed(lines) : lines[i].value # rel BY <2>4
    <2> HIDE DEF at, K
    <2>7. Fits(lines, edited, at, m, rel) BY <1>3, <1>4, <2>1, <2>2, <2>5, <2>6 DEF Fits
    <2> QED BY <1>1, <1>7, <2>7, KeepsIntact
  <1> QED BY <1>8, <1>9 DEF Joined, edited, m, new

\* Blank lines at the end go.
LEMMA TrimEndIs ==
  ASSUME NEW L, NEW lines \in Seq(L)
  PROVE  /\ TrimEnd(lines) \in Seq(L) /\ Len(TrimEnd(lines)) \in 0..Len(lines)
         /\ \A i \in 1..Len(TrimEnd(lines)) : TrimEnd(lines)[i] = lines[i]
         /\ \A i \in 1..Len(lines) : i > Len(TrimEnd(lines)) => lines[i].kind = "blank"
  <1> DEFINE text == {i \in DOMAIN lines : lines[i].kind # "blank"}
  <1>1. Len(lines) \in Nat /\ DOMAIN lines = 1..Len(lines) /\ \A i \in 1..Len(lines) : lines[i] \in L
    BY LenProperties, ElementOfSeq
  <1>2. CASE text = {}
    <2>1. TrimEnd(lines) = <<>> BY <1>2 DEF TrimEnd
    <2>2. <<>> \in Seq(L) /\ Len(<<>>) = 0 OBVIOUS
    <2>3. \A i \in 1..Len(lines) : lines[i].kind = "blank" BY <1>1, <1>2
    <2> QED BY <1>1, <2>1, <2>2, <2>3
  <1>3. CASE text # {}
    <2> DEFINE t == Latest(text)
    <2>1. text \in SUBSET (0..Len(lines)) /\ text \subseteq 1..Len(lines) BY <1>1
    <2>2. t \in text /\ \A x \in text : x <= t
      <3> HIDE DEF text
      <3> QED BY <1>1, <1>3, <2>1, LatestIsIn
    <2>3. TrimEnd(lines) = SubSeq(lines, 1, t) BY <1>3 DEF TrimEnd
    <2>4. \A i \in 1..Len(lines) : i \notin text => lines[i].kind = "blank" BY <1>1
    <2>5. \A i \in text : i \in 1..Len(lines) BY <2>1
    <2> HIDE DEF t, text
    <2>6. t \in 1..Len(lines) /\ t \in Nat BY <1>1, <2>2, <2>5
    <2>7. /\ SubSeq(lines, 1, t) \in Seq(L) /\ Len(SubSeq(lines, 1, t)) = t
          /\ \A i \in 1..t : SubSeq(lines, 1, t)[i] = lines[i]
      <3>1. \A i \in 1..t : lines[i] \in L BY <1>1, <2>6
      <3>2. /\ SubSeq(lines, 1, t) \in Seq(L)
            /\ Len(SubSeq(lines, 1, t)) = IF 1 <= t THEN t - 1 + 1 ELSE 0
            /\ \A i \in 1 .. t - 1 + 1 : SubSeq(lines, 1, t)[i] = lines[1 + i - 1]
        BY <2>6, <3>1, SubSeqProperties
      <3> QED BY <2>6, <3>2
    <2>8. \A i \in 1..Len(lines) : i > t => lines[i].kind = "blank" BY <1>1, <2>2, <2>4, <2>6
    <2> QED BY <1>1, <2>3, <2>6, <2>7, <2>8
  <1> QED BY <1>2, <1>3

LEMMA JoinedAtEnd ==
  ASSUME NEW lines, IsManifest(lines), Opening(lines) = {}, NEW rel
  PROVE  Joined(lines, TrimEnd(lines) \o <<Line("packages", 0, <<>>), Line("item", 2, rel)>>, rel)
  <1> DEFINE p == Line("packages", 0, <<>>)
             new == Line("item", 2, rel)
             L == [kind : Kinds, indent : Nat, value : Seq(STRING)] \cup {p, new}
             trimmed == TrimEnd(lines)
             t == Len(trimmed)
             two == <<p, new>>
             edited == trimmed \o two
             n == Len(lines)
             K == 1..t
             at == [i \in K |-> i]
  <1>1. /\ n \in Nat /\ DOMAIN lines = 1..n /\ lines \in Seq(L)
        /\ \A i \in DOMAIN lines : IsKey(lines[i]) => lines[i].indent = 0
        /\ \A i \in Items(lines) : \E k \in 1..i : IsKey(lines[k])
        /\ IsYaml(lines)
    <2>1. lines \in Seq([kind : Kinds, indent : Nat, value : Seq(STRING)]) BY ManifestIs
    <2>2. lines \in Seq(L) BY <2>1, SeqMonotonic
    <2> QED BY <2>2, ManifestIs
  <1>2. /\ p.kind = "packages" /\ p.indent = 0 /\ p \in L
        /\ new.kind = "item" /\ new.indent = 2 /\ new.value = rel /\ new \in L
    BY DEF Line
  <1> HIDE DEF L, p, new, n
  <1>3. /\ trimmed \in Seq(L) /\ t \in 0..n
        /\ \A i \in 1..t : trimmed[i] = lines[i]
        /\ \A i \in 1..n : i > t => lines[i].kind = "blank"
    BY <1>1, TrimEndIs DEF n
  <1>4. two \in Seq(L) /\ Len(two) = 2 /\ two[1] = p /\ two[2] = new BY <1>2
  <1> HIDE DEF trimmed, two
  <1>5. /\ edited \in Seq(L) /\ Len(edited) = t + 2
        /\ \A i \in 1 .. t + 2 : edited[i] = IF i <= t THEN trimmed[i] ELSE two[i - t]
    <2>1. /\ trimmed \o two \in Seq(L) /\ Len(trimmed \o two) = Len(trimmed) + Len(two)
          /\ \A i \in 1 .. Len(trimmed) + Len(two) :
               (trimmed \o two)[i] = IF i <= Len(trimmed) THEN trimmed[i] ELSE two[i - Len(trimmed)]
      BY <1>3, <1>4, ConcatProperties
    <2> QED BY <1>4, <2>1
  <1> HIDE DEF edited, t
  <1>6. t \in Nat BY <1>1, <1>3
  <1>7. /\ DOMAIN edited = 1 .. t + 2 /\ Len(edited) \in Nat
        /\ \A i \in 1..t : edited[i] = lines[i]
        /\ edited[t + 1] = p /\ edited[t + 2] = new
    <2>1. DOMAIN edited = 1 .. t + 2 /\ Len(edited) \in Nat BY <1>5, <1>6, LenProperties
    <2>2. \A i \in 1..t : edited[i] = lines[i] BY <1>3, <1>5, <1>6
    <2>3. edited[t + 1] = two[(t + 1) - t] /\ edited[t + 2] = two[(t + 2) - t] BY <1>5, <1>6
    <2>4. (t + 1) - t = 1 /\ (t + 2) - t = 2 BY <1>6
    <2> QED BY <1>4, <2>1, <2>2, <2>3, <2>4
  <1>8. \A i \in 1..t : i \in 1..n BY <1>1, <1>3, <1>6
  <1>9. Keeps(lines, edited, K, at, t + 2)
    <2>1. \A i \in K : at[i] \in DOMAIN edited /\ edited[at[i]] = lines[i] /\ at[i] # t + 2
      BY <1>6, <1>7
    <2>2. \A i, j \in K : i < j => at[i] < at[j] OBVIOUS
    <2>3. ASSUME NEW x \in DOMAIN edited
          PROVE  \/ \E i \in K : x = at[i]
                 \/ x = t + 2
                 \/ edited[x].kind = "packages" /\ \A i \in K : at[i] < x
      <3>1. x \in 1..t \/ x = t + 1 \/ x = t + 2 BY <1>6, <1>7
      <3>2. CASE x = t + 1
        <4>1. \A i \in K : at[i] < x BY <1>6, <3>2
        <4> HIDE DEF at, K
        <4> QED BY <1>2, <1>7, <3>2, <4>1
      <3> QED BY <3>1, <3>2
    <2>4. t + 2 \in DOMAIN edited /\ edited[t + 2].kind = "item" BY <1>2, <1>6, <1>7
    <2>5. K \subseteq DOMAIN lines /\ \A i \in DOMAIN lines : i \in K \/ lines[i].kind = "blank"
      BY <1>1, <1>3, <1>6, <1>8
    <2>6. Len(edited) \in Nat /\ DOMAIN edited = 1..Len(edited) BY <1>5, <1>7
    <2> HIDE DEF at, K
    <2> QED BY <1>1, <2>1, <2>2, <2>3, <2>4, <2>5, <2>6 DEF Keeps, n
  <1>10. Holds(edited, t + 1, t + 2, rel)
    <2>1. \A i \in DOMAIN edited : i \in 1..t \/ i = t + 1 \/ i = t + 2 BY <1>6, <1>7
    <2>2. \A i \in DOMAIN edited : IsKey(edited[i]) => edited[i].indent = 0
      <3>1. \A i \in 1..t : IsKey(lines[i]) => lines[i].indent = 0 BY <1>1, <1>8
      <3>2. ~IsKey(new) BY <1>2 DEF IsKey
      <3> QED BY <1>2, <1>7, <2>1, <3>1, <3>2
    <2>3. Opening(edited) = {t + 1}
      <3>1. t + 1 \in Opening(edited) BY <1>2, <1>6, <1>7 DEF Opening
      <3>2. ASSUME NEW x \in Opening(edited) PROVE x = t + 1
        <4>1. x \in DOMAIN edited /\ edited[x].kind \in {"packages", "inline"} BY DEF Opening
        <4>2. x # t + 2 BY <1>2, <1>7, <4>1
        <4>3. x \notin 1..t
          <5> SUFFICES ASSUME x \in 1..t PROVE FALSE OBVIOUS
          <5>1. x \in DOMAIN lines /\ edited[x] = lines[x] BY <1>1, <1>7, <1>8
          <5>2. x \in Opening(lines) BY <4>1, <5>1 DEF Opening
          <5> QED BY <5>2
        <4> QED BY <2>1, <4>1, <4>2, <4>3
      <3> QED BY <3>1, <3>2
    <2>4. \A k \in (t + 1) + 1 .. t + 2 : ~Ends(edited[k])
      <3>1. ~Ends(new) BY <1>2 DEF Ends
      <3>2. \A k \in (t + 1) + 1 .. t + 2 : k = t + 2 BY <1>6
      <3> QED BY <1>7, <3>1, <3>2
    <2>5. t + 2 \in DOMAIN edited /\ t + 2 > t + 1 BY <1>6, <1>7
    <2>6. Len(edited) \in Nat /\ DOMAIN edited = 1..Len(edited) BY <1>5, <1>7
    <2> QED BY <1>2, <1>7, <2>2, <2>3, <2>4, <2>5, <2>6 DEF Holds
  <1>11. Intact(lines, edited, rel)
    <2>1. KeyOf(edited, t + 2) = t + 1 BY <1>10, HoldsMember
    <2>2. edited[t + 1].kind = "packages" BY <1>2, <1>7
    <2>3. ASSUME NEW i \in Items(lines)
          PROVE  KeyOf(lines, i) \in K /\ lines[KeyOf(lines, i)].kind # "packages"
      <3>1. i \in K /\ \E k \in 1..i : IsKey(lines[k])
        <4> HIDE DEF K, at
        <4> QED BY <1>1, <1>9, KeepsItems
      <3>2. KeyOf(lines, i) \in K
        <4> HIDE DEF K, at
        <4> QED BY <1>9, <3>1, KeepsKey
      <3>3. KeyOf(lines, i) \in DOMAIN lines BY <1>1, <1>8, <3>2
      <3> QED BY <3>2, <3>3 DEF Opening
    <2>4. \A i \in Items(lines) : at[KeyOf(lines, i)] # t + 1
      <3>1. \A k \in K : at[k] # t + 1 BY <1>6
      <3> QED BY <2>3, <3>1
    <2>5. Listed(lines) = {} BY <2>3 DEF Listed
    <2> HIDE DEF at, K
    <2>6. Fits(lines, edited, at, t + 2, rel) BY <1>2, <1>7, <2>1, <2>2, <2>4, <2>5 DEF Fits
    <2> QED BY <1>1, <1>9, <2>6, KeepsIntact
  <1> QED BY <1>10, <1>11 DEF Joined, edited, two, trimmed, p, new

\* Joining works for every manifest, and once.
LEMMA InsertJoins ==
  ASSUME NEW lines, IsManifest(lines), NEW rel, InsertWorkspacePackage(lines, rel) # Unsupported
  PROVE  Joined(lines, InsertWorkspacePackage(lines, rel), rel)
  <1>1. CASE Opening(lines) = {}
    BY <1>1, JoinedAtEnd DEF InsertWorkspacePackage
  <1>2. CASE Opening(lines) # {}
    <2> DEFINE o == First(Opening(lines))
               items == ItemsOf(lines, o)
               indent == IF items = {} THEN 2 ELSE lines[First(items)].indent
               after == IF items = {} THEN o ELSE Latest(items)
    <2>1. /\ Opening(lines) = {o} /\ lines[o].kind # "inline"
          /\ InsertWorkspacePackage(lines, rel) =
               IF \E i \in items : lines[i].value = rel THEN lines
               ELSE InsertAt(lines, after + 1, Line("item", indent, rel))
      <3>1. Opening(lines) = {o} BY <1>2, ManifestIs
      <3>2. InsertWorkspacePackage(lines, rel) =
              IF lines[o].kind = "inline" THEN Unsupported
              ELSE IF \E i \in items : lines[i].value = rel THEN lines
              ELSE InsertAt(lines, after + 1, Line("item", indent, rel))
        BY <1>2 DEF InsertWorkspacePackage
      <3>3. lines[o].kind # "inline" BY <3>2
      <3> QED BY <3>1, <3>2, <3>3
    <2> HIDE DEF o
    <2>2. o \in DOMAIN lines /\ lines[o].kind = "packages" BY <2>1 DEF Opening
    <2>3. CASE \E i \in items : lines[i].value = rel
      <3>1. PICK i \in items : lines[i].value = rel BY <2>3
      <3>2. Joined(lines, lines, lines[i].value) BY <2>1, <2>2, JoinedAlready
      <3> QED BY <2>1, <2>3, <3>1, <3>2
    <2>4. CASE ~(\E i \in items : lines[i].value = rel)
      <3>1. /\ Len(lines) \in Nat /\ DOMAIN lines = 1..Len(lines)
            /\ \A i \in DOMAIN lines : lines[i].indent \in Nat
        BY ManifestIs
      <3>2. items = {i \in DOMAIN lines : i > o /\ lines[i].kind = "item" /\ \A k \in o + 1 .. i : ~Ends(lines[k])}
        BY <2>2, <3>1, ItemsOfAre
      <3>3. \A i \in items : i \in Listed(lines) /\ KeyOf(lines, i) = o BY <2>1, <2>2, ListedAre
      <3>4. \A i \in items : lines[i].indent # 0
        <4>1. ASSUME NEW i \in items PROVE lines[i].indent # 0
          <5>1. ~Ends(lines[i]) /\ lines[i].kind = "item"
            <6>1. i > o /\ i \in Nat /\ \A k \in o + 1 .. i : ~Ends(lines[k]) BY <3>1, <3>2
            <6>2. i \in o + 1 .. i BY <2>2, <3>1, <6>1
            <6> QED BY <3>2, <6>1, <6>2
          <5> QED BY <5>1 DEF Ends, IsIgnored
        <4> QED BY <4>1
      <3>5. \A i, j \in items : lines[i].indent = lines[j].indent
        <4>1. IsYaml(lines) BY ManifestIs
        <4>2. \A i \in items : i \in Items(lines) BY <3>3 DEF Listed
        <4> QED BY <3>3, <4>1, <4>2 DEF IsYaml
      <3>6. items \in SUBSET Nat /\ items \in SUBSET (0..Len(lines)) BY <3>1, <3>2
      <3>7. \A i \in items : i \in DOMAIN lines /\ i > o /\ \A k \in o + 1 .. i : ~Ends(lines[k]) BY <3>2
      <3> HIDE DEF items
      <3>8. /\ after \in o..Len(lines) /\ \A k \in o + 1 .. after : ~Ends(lines[k])
            /\ indent \in Nat /\ indent # 0 /\ \A i \in items : lines[i].indent = indent
        <4>1. CASE items = {}
          <5>1. after = o /\ indent = 2 BY <4>1
          <5>2. o + 1 .. o = {} BY <2>2, <3>1
          <5> QED BY <2>2, <3>1, <4>1, <5>1, <5>2
        <4>2. CASE items # {}
          <5> DEFINE l == Latest(items)
                     f == First(items)
          <5>1. l \in items BY <3>1, <3>6, <4>2, LatestIsIn
          <5>2. f \in items BY <3>6, <4>2, FirstIsIn
          <5>3. after = l /\ indent = lines[f].indent BY <4>2
          <5> HIDE DEF l, f, after, indent
          <5>4. l \in DOMAIN lines /\ l > o /\ \A k \in o + 1 .. l : ~Ends(lines[k]) BY <3>7, <5>1
          <5>5. f \in DOMAIN lines BY <3>7, <5>2
          <5>6. indent \in Nat /\ indent # 0 BY <3>1, <3>4, <5>2, <5>3, <5>5
          <5>7. \A i \in items : lines[i].indent = indent BY <3>5, <5>2, <5>3
          <5>8. after \in o..Len(lines) BY <2>2, <3>1, <5>3, <5>4
          <5> QED BY <5>3, <5>4, <5>6, <5>7, <5>8
        <4> QED BY <4>1, <4>2
      <3> HIDE DEF after, indent
      <3>9. \A i \in ItemsOf(lines, o) : lines[i].value # rel /\ lines[i].indent = indent
        BY <2>4, <3>8 DEF items
      <3>10. Joined(lines, InsertAt(lines, after + 1, Line("item", indent, rel)), rel)
        BY <2>1, <2>2, <3>8, <3>9, JoinedInList
      <3> QED BY <2>1, <2>4, <3>10
    <2> QED BY <2>3, <2>4
  <1> QED BY <1>1, <1>2

----------------------------------------------------------------------------
(* Discovery: the files picked are files there are.                         *)

LEMMA PicksAreFiles ==
  ASSUME NEW files, IsFiniteSet(files), NEW root, NEW found \in Candidates(files, root),
         NEW chosen \in Picks(found)
  PROVE  chosen \in Seq(files)
  <1>1. found \subseteq files
    <2> DEFINE below == {f \in files : Below(f, root)}
               above == {f \in files : Above(f, root)}
               some == IF Cardinality(below) <= MaxResults THEN {below} ELSE kSubset(MaxResults, below)
    <2>1. \A s \in some : s \subseteq below BY DEF kSubset
    <2>2. \E s \in some : found = s \cup above BY DEF Candidates
    <2>3. below \subseteq files /\ above \subseteq files OBVIOUS
    <2> HIDE DEF below, above, some
    <2> QED BY <2>1, <2>2, <2>3
  <1>2. \A S \in SUBSET files : IsFiniteSet(S) /\ Cardinality(S) \in Nat /\ ExistsBijection(1..Cardinality(S), S)
    <2>1. ASSUME NEW S \in SUBSET files
          PROVE  IsFiniteSet(S) /\ Cardinality(S) \in Nat /\ ExistsBijection(1..Cardinality(S), S)
      <3>1. IsFiniteSet(S) BY FS_Subset
      <3> QED BY <3>1, FS_CardinalityType
    <2> QED BY <2>1
  <1>3. CASE Cardinality(found) <= 1
    <2> DEFINE F == [1..Cardinality(found) -> found]
    <2>1. chosen = SetToSeq(found) BY <1>3 DEF Picks
    <2>2. \E f \in F : IsInjective(f)
      <3>1. PICK f \in Bijection(1..Cardinality(found), found) : TRUE BY <1>1, <1>2 DEF ExistsBijection
      <3> QED BY <3>1 DEF Bijection, Injection
    <2>3. SetToSeq(found) \in F BY <2>2 DEF SetToSeq
    <2>4. chosen \in [1..Cardinality(found) -> files] BY <1>1, <2>1, <2>3
    <2> QED BY <1>1, <1>2, <2>4, SeqDef
  <1>4. CASE ~(Cardinality(found) <= 1)
    <2>1. PICK some \in SUBSET found : chosen \in SetToSeqs(some) BY <1>4 DEF Picks
    <2>2. chosen \in [1..Cardinality(some) -> some] BY <2>1 DEF SetToSeqs
    <2>3. some \in SUBSET files /\ Cardinality(some) \in Nat BY <1>1, <1>2, <2>1
    <2>4. chosen \in [1..Cardinality(some) -> files] BY <2>2, <2>3
    <2> QED BY <2>3, <2>4, SeqDef
  <1> QED BY <1>3, <1>4

LEMMA RootIs == Root \in Seq(STRING \cup {"puffgres"})
  <1>1. Home \in Seq(STRING \cup {"puffgres"})
    <2>1. Home \in Seq(STRING) BY WorldsAssumption DEF IsPath
    <2>2. STRING \subseteq STRING \cup {"puffgres"} OBVIOUS
    <2> QED BY <2>1, <2>2, SeqMonotonic
  <1>2. "puffgres" \in STRING \cup {"puffgres"} OBVIOUS
  <1> QED BY <1>1, <1>2, AppendProperties DEF Root

\* What is written down for some files is found again at the project.
LEMMA WrittenResolves ==
  ASSUME NEW P, NEW chosen \in Seq(P), \A p \in P : IsPath(p)
  PROVE  [i \in DOMAIN Written(chosen) |-> Resolve(Root, Written(chosen)[i])] = chosen
  <1>1. DOMAIN chosen = 1..Len(chosen) /\ \A i \in DOMAIN chosen : IsPath(chosen[i])
    <2>1. DOMAIN chosen = 1..Len(chosen) BY LenProperties
    <2>2. \A i \in 1..Len(chosen) : chosen[i] \in P BY ElementOfSeq
    <2> QED BY <2>1, <2>2
  <1>2. \A i \in DOMAIN chosen : Resolve(Root, Relativize(Root, chosen[i])) = chosen[i]
    BY <1>1, RootIs, ResolveRelativize
  <1>3. DOMAIN Written(chosen) = DOMAIN chosen
        /\ \A i \in DOMAIN chosen : Written(chosen)[i] = Relativize(Root, chosen[i])
    BY DEF Written
  <1>4. chosen = [i \in DOMAIN chosen |-> chosen[i]]
    <2>1. chosen \in [1..Len(chosen) -> P] BY LenProperties
    <2> QED BY <1>1, <2>1
  <1> DEFINE w == [i \in DOMAIN Written(chosen) |-> Resolve(Root, Written(chosen)[i])]
  <1>5. w = [i \in DOMAIN chosen |-> chosen[i]] BY <1>2, <1>3
  <1> QED BY <1>4, <1>5

----------------------------------------------------------------------------
(* The inductive invariant.                                                 *)

Files == DOMAIN envs \cup {Append(Home, ".env")}
CmdOK ==
  \/ cmd = Idle
  \/ cmd \in [stage : {"scaffold"}, next : 1..7, interactive : BOOLEAN, fresh : BOOLEAN]
  \/ cmd \in [stage : {"modules"}, next : {7}, interactive : BOOLEAN, fresh : BOOLEAN]
  \/ cmd \in [stage : {"install"}, ignore : BOOLEAN, interactive : BOOLEAN, fresh : BOOLEAN]
  \/ cmd \in [stage : {"discover", "config"}, interactive : BOOLEAN, fresh : BOOLEAN]
  \/ cmd \in [stage : {"config"}, interactive : BOOLEAN, fresh : BOOLEAN, chosen : Seq(DOMAIN envs)]
  \/ cmd \in [stage : {"staging"}, opts : Options, files : {{}, {"config.toml"}, ConfigFiles}]
TypeOK ==
  /\ CmdOK
  /\ \E w \in Worlds : envs = w.envs /\ shell = w.shell
  /\ made \subseteq ToSet(Scaffold)
  /\ modules \in {None, "own", "partial"}
  /\ configs \subseteq [opts : Options, files : {ConfigFiles}]

\* How far init is shows in what there is.
ScaffoldInv ==
  /\ cmd.stage = "scaffold" =>
       /\ \A i \in 1 .. cmd.next - 1 : Scaffold[i] \in made
       /\ cmd.next > 2 => Secrets \subseteq ignored
  /\ cmd.stage \in {"modules", "install", "discover", "config"} \/ toml # None =>
       made = ToSet(Scaffold) /\ Secrets \subseteq ignored
  /\ cmd.stage \in {"discover", "config"} \/ toml # None => modules \in {"own", "partial"}
  /\ cmd.stage = "install" => modules = None /\ InstallsOwn(cmd.ignore)

\* environment_files names the files that were picked.
PickedInv ==
  toml # None =>
    picked \in Seq(Files) /\ EnvPaths = picked

\* The manifest is as it was, or has the project in it.
WorkspaceInv ==
  \/ workspace = None /\ joined = None
  \/ \E w \in Worlds :
       /\ w.workspace # None
       /\ workspace = [root |-> w.workspace.root, lines |-> workspace.lines]
       /\ \/ joined = None /\ workspace.lines = w.workspace.lines
          \/ /\ joined = w.workspace.lines
             /\ workspace.lines = InsertWorkspacePackage(joined, Member)
             /\ workspace.lines # Unsupported

\* No config is made whose name or namespace is taken.
ConfigsInv ==
  /\ cmd.stage = "staging" => ~Taken(cmd.opts.name, cmd.opts.namespace)
  /\ \A c, d \in configs : c.opts.name = d.opts.name \/ c.opts.namespace = d.opts.namespace => c = d

IInv == TypeOK /\ ScaffoldInv /\ PickedInv /\ WorkspaceInv /\ ConfigsInv

LEMMA InitIInv == Init => IInv
  <1> SUFFICES ASSUME Init PROVE IInv OBVIOUS
  <1>1. cmd = [stage |-> "idle"] /\ cmd.stage = "idle" BY DEF Init, Idle
  <1>2. TypeOK BY <1>1 DEF Init, TypeOK, CmdOK, Idle
  <1>3. ScaffoldInv /\ PickedInv /\ ConfigsInv BY <1>1 DEF Init, ScaffoldInv, PickedInv, ConfigsInv
  <1>4. WorkspaceInv
    <2>1. PICK w \in Worlds : workspace = w.workspace BY DEF Init
    <2>2. CASE workspace = None BY <2>2 DEF Init, WorkspaceInv
    <2>3. CASE workspace # None
      <3>1. w.workspace = [root |-> w.workspace.root, lines |-> w.workspace.lines]
        BY <2>1, <2>3, WorldsAssumption
      <3> QED BY <2>1, <2>3, <3>1 DEF Init, WorkspaceInv
    <2> QED BY <2>2, <2>3
  <1> QED BY <1>2, <1>3, <1>4 DEF IInv

LEMMA PickedFrame == PickedInv /\ UNCHANGED <<toml, picked, envs>> => PickedInv'
  BY DEF PickedInv, EnvPaths, Files

LEMMA WorkspaceFrame == WorkspaceInv /\ UNCHANGED pnpm => WorkspaceInv'
  BY DEF WorkspaceInv, pnpm, Member

LEMMA OwnFrame == UNCHANGED workspace => \A ignore : InstallsOwn(ignore)' = InstallsOwn(ignore)
  BY DEF InstallsOwn, Enclosing, Member

LEMMA ScaffoldIs ==
  /\ Len(Scaffold) = 7 /\ DOMAIN Scaffold = 1..7 /\ Scaffold[2] = ".gitignore"
  /\ \A i \in 1..7 : Scaffold[i] = ".gitignore" => i = 2
  <1>1. Len(Scaffold) = 7 /\ DOMAIN Scaffold = 1..7 /\ Scaffold[2] = ".gitignore" BY DEF Scaffold
  <1>2. /\ Scaffold[1] # ".gitignore" /\ Scaffold[3] # ".gitignore" /\ Scaffold[4] # ".gitignore"
        /\ Scaffold[5] # ".gitignore" /\ Scaffold[6] # ".gitignore" /\ Scaffold[7] # ".gitignore"
    BY DEF Scaffold
  <1>3. \A i \in 1..7 : i = 1 \/ i = 2 \/ i = 3 \/ i = 4 \/ i = 5 \/ i = 6 \/ i = 7 OBVIOUS
  <1> QED BY <1>1, <1>2, <1>3

\* A command that stops leaves things as they are.
LEMMA IdleFrame ==
  IInv /\ cmd' = Idle /\ UNCHANGED <<world, project, pnpm, configs>> => IInv'
  <1> SUFFICES ASSUME IInv, cmd' = Idle, UNCHANGED <<world, project, pnpm, configs>> PROVE IInv' OBVIOUS
  <1>1. TypeOK' BY DEF IInv, TypeOK, CmdOK, world, project
  <1>2. cmd'.stage = "idle" BY DEF Idle
  <1>3. ScaffoldInv' BY <1>2 DEF IInv, ScaffoldInv, project
  <1>4. PickedInv' BY PickedFrame DEF IInv, project, world
  <1>5. WorkspaceInv' BY WorkspaceFrame DEF IInv
  <1>6. ConfigsInv' BY <1>2 DEF IInv, ConfigsInv
  <1> QED BY <1>1, <1>3, <1>4, <1>5, <1>6 DEF IInv

\* What the stage of a command says about its other fields.
LEMMA StageIs ==
  ASSUME TypeOK
  PROVE  /\ cmd.stage = "scaffold" =>
              cmd \in [stage : {"scaffold"}, next : 1..7, interactive : BOOLEAN, fresh : BOOLEAN]
         /\ cmd.stage = "modules" =>
              cmd \in [stage : {"modules"}, next : {7}, interactive : BOOLEAN, fresh : BOOLEAN]
         /\ cmd.stage = "install" =>
              cmd \in [stage : {"install"}, ignore : BOOLEAN, interactive : BOOLEAN, fresh : BOOLEAN]
         /\ cmd.stage = "config" =>
              \/ cmd \in [stage : {"discover", "config"}, interactive : BOOLEAN, fresh : BOOLEAN]
              \/ cmd \in [stage : {"config"}, interactive : BOOLEAN, fresh : BOOLEAN, chosen : Seq(DOMAIN envs)]
         /\ cmd.stage = "staging" =>
              cmd \in [stage : {"staging"}, opts : Options, files : {{}, {"config.toml"}, ConfigFiles}]
  <1>1. CmdOK BY DEF TypeOK
  <1>2. cmd = Idle => cmd.stage = "idle" BY DEF Idle
  <1> QED BY <1>1, <1>2 DEF CmdOK

LEMMA StartInitIInv ==
  ASSUME IInv, NEW cwd, StartInit(cwd) PROVE IInv'
  <1>1. PICK interactive \in BOOLEAN, agreed \in BOOLEAN :
          cmd' = IF agreed
                   THEN [stage |-> "scaffold", next |-> 1, interactive |-> interactive, fresh |-> toml = None]
                   ELSE Idle
    BY DEF StartInit
  <1>2. UNCHANGED <<world, project, pnpm, configs>> BY DEF StartInit
  <1>3. CASE ~agreed BY <1>1, <1>2, <1>3, IdleFrame
  <1>4. CASE agreed
    <2>1. cmd' = [stage |-> "scaffold", next |-> 1, interactive |-> interactive, fresh |-> toml = None]
      BY <1>1, <1>4
    <2>2. cmd' \in [stage : {"scaffold"}, next : 1..7, interactive : BOOLEAN, fresh : BOOLEAN] BY <2>1
    <2>3. TypeOK' BY <1>2, <2>2 DEF IInv, TypeOK, CmdOK, world, project
    <2>4. cmd'.stage = "scaffold" /\ cmd'.next = 1 BY <2>1
    <2>5. ScaffoldInv' BY <1>2, <2>4 DEF IInv, ScaffoldInv, project
    <2>6. PickedInv' BY <1>2, PickedFrame DEF IInv, project, world
    <2>7. WorkspaceInv' BY <1>2, WorkspaceFrame DEF IInv
    <2>8. ConfigsInv' BY <1>2, <2>4 DEF IInv, ConfigsInv
    <2> QED BY <2>3, <2>5, <2>6, <2>7, <2>8 DEF IInv
  <1> QED BY <1>3, <1>4

LEMMA ScaffoldNextIInv ==
  ASSUME IInv, ScaffoldNext PROVE IInv'
  <1>1. cmd.stage = "scaffold" /\ cmd.next \in 1..7 /\ UNCHANGED <<world, modules, toml, valid, picked, pnpm, configs>>
        /\ cmd \in [stage : {"scaffold"}, next : 1..7, interactive : BOOLEAN, fresh : BOOLEAN]
    BY StageIs DEF IInv, ScaffoldNext
  <1>2. cmd' = IF cmd.next < 7 THEN [cmd EXCEPT !.next = @ + 1] ELSE [cmd EXCEPT !.stage = "modules"]
    BY ScaffoldIs DEF ScaffoldNext
  <1>3. made' = made \cup {Scaffold[cmd.next]} BY DEF ScaffoldNext, EnsureFile
  <1>4. ignored' = IF cmd.next = 2 THEN (IF ignored = None THEN {} ELSE ignored) \cup Secrets ELSE ignored
    BY <1>1, ScaffoldIs DEF ScaffoldNext, EnsureGitignore
  <1>5. Scaffold[cmd.next] \in ToSet(Scaffold) BY <1>1, ScaffoldIs DEF ToSet
  <1>6. CASE cmd.next < 7
    <2>1. cmd' \in [stage : {"scaffold"}, next : 1..7, interactive : BOOLEAN, fresh : BOOLEAN]
          /\ cmd'.stage = "scaffold" /\ cmd'.next = cmd.next + 1
      BY <1>1, <1>2, <1>6
    <2>2. TypeOK' BY <1>1, <1>3, <1>5, <2>1 DEF IInv, TypeOK, CmdOK, world
    <2>3. ScaffoldInv'
      <3>1. \A i \in 1 .. cmd.next : Scaffold[i] \in made' BY <1>1, <1>3 DEF IInv, ScaffoldInv
      <3>2. cmd.next + 1 > 2 => Secrets \subseteq ignored'
        <4>1. cmd.next = 2 \/ cmd.next > 2 \/ ~(cmd.next + 1 > 2) BY <1>1
        <4> QED BY <1>1, <1>4, <4>1 DEF IInv, ScaffoldInv
      <3>3. toml # None => made' = ToSet(Scaffold) /\ Secrets \subseteq ignored' /\ modules \in {"own", "partial"}
        BY <1>3, <1>4, <1>5 DEF IInv, ScaffoldInv
      <3>4. \A i \in 1 .. cmd'.next - 1 : Scaffold[i] \in made' BY <1>1, <2>1, <3>1
      <3> QED BY <1>1, <2>1, <3>2, <3>3, <3>4 DEF ScaffoldInv
    <2>4. PickedInv' /\ WorkspaceInv' BY <1>1, PickedFrame, WorkspaceFrame DEF IInv, world
    <2>5. ConfigsInv' BY <1>1, <2>1 DEF IInv, ConfigsInv
    <2> QED BY <2>2, <2>3, <2>4, <2>5 DEF IInv
  <1>7. CASE ~(cmd.next < 7)
    <2>1. cmd' \in [stage : {"modules"}, next : {7}, interactive : BOOLEAN, fresh : BOOLEAN]
          /\ cmd'.stage = "modules" /\ cmd.next = 7
      BY <1>1, <1>2, <1>7
    <2>2. TypeOK' BY <1>1, <1>3, <1>5, <2>1 DEF IInv, TypeOK, CmdOK, world
    <2>3. made' = ToSet(Scaffold)
      <3>1. made' \subseteq ToSet(Scaffold) BY <2>2 DEF TypeOK
      <3>2. \A i \in 1..7 : Scaffold[i] \in made'
        <4>1. \A i \in 1..7 : i \in 1 .. cmd.next - 1 \/ i = cmd.next BY <2>1
        <4> QED BY <1>1, <1>3, <4>1 DEF IInv, ScaffoldInv
      <3> QED BY <3>1, <3>2, ScaffoldIs DEF ToSet
    <2>4. Secrets \subseteq ignored' BY <1>1, <1>4, <2>1 DEF IInv, ScaffoldInv
    <2>5. ScaffoldInv' BY <1>1, <2>1, <2>3, <2>4 DEF IInv, ScaffoldInv
    <2>6. PickedInv' /\ WorkspaceInv' BY <1>1, PickedFrame, WorkspaceFrame DEF IInv, world
    <2>7. ConfigsInv' BY <1>1, <2>1 DEF IInv, ConfigsInv
    <2> QED BY <2>2, <2>5, <2>6, <2>7 DEF IInv
  <1> QED BY <1>6, <1>7

\* The manifest with the project in it keeps it.
LEMMA JoinedIs ==
  ASSUME NEW w \in Worlds, w.workspace # None, NEW rel,
         InsertWorkspacePackage(w.workspace.lines, rel) # Unsupported
  PROVE  LET edited == InsertWorkspacePackage(w.workspace.lines, rel)
         IN  rel \in Members(edited) /\ InsertWorkspacePackage(edited, rel) = edited
  <1> DEFINE edited == InsertWorkspacePackage(w.workspace.lines, rel)
  <1>1. IsManifest(w.workspace.lines) BY WorldsAssumption
  <1>2. Joined(w.workspace.lines, edited, rel) BY <1>1, InsertJoins
  <1> HIDE DEF edited
  <1>3. PICK o, m : Holds(edited, o, m, rel) BY <1>2 DEF Joined
  <1>4. rel \in Members(edited) /\ InsertWorkspacePackage(edited, rel) = edited BY <1>3, HoldsMember
  <1> QED BY <1>4 DEF edited

LEMMA SettleIs ==
  ASSUME NEW c, c.interactive \in BOOLEAN, c.fresh \in BOOLEAN
  PROVE  /\ Settle(c) \in [stage : {"discover", "config"}, interactive : BOOLEAN, fresh : BOOLEAN]
         /\ Settle(c).stage \in {"discover", "config"}
  BY DEF Settle

LEMMA InstallIs ==
  ASSUME NEW c, c.interactive \in BOOLEAN, c.fresh \in BOOLEAN, NEW ignore \in BOOLEAN
  PROVE  /\ Install(c, ignore) \in [stage : {"install"}, ignore : BOOLEAN, interactive : BOOLEAN, fresh : BOOLEAN]
         /\ Install(c, ignore).stage = "install" /\ Install(c, ignore).ignore = ignore
  BY DEF Install

LEMMA EnsureNodeModulesIInv ==
  ASSUME IInv, EnsureNodeModules PROVE IInv'
  <1>1. /\ cmd.stage = "modules" /\ UNCHANGED <<world, project, configs>>
        /\ cmd.interactive \in BOOLEAN /\ cmd.fresh \in BOOLEAN
    BY StageIs DEF IInv, EnsureNodeModules
  <1>2. made = ToSet(Scaffold) /\ Secrets \subseteq ignored BY <1>1 DEF IInv, ScaffoldInv
  <1>3. PickedInv' BY <1>1, PickedFrame DEF IInv, project, world
  <1>4. CASE modules # None /\ cmd' = Settle(cmd) /\ UNCHANGED pnpm
    <2>1. /\ cmd' \in [stage : {"discover", "config"}, interactive : BOOLEAN, fresh : BOOLEAN]
          /\ cmd'.stage \in {"discover", "config"}
      BY <1>1, <1>4, SettleIs
    <2>2. TypeOK' BY <1>1, <2>1 DEF IInv, TypeOK, CmdOK, world, project
    <2>3. modules \in {"own", "partial"} BY <1>4 DEF IInv, TypeOK
    <2>4. ScaffoldInv' BY <1>1, <1>2, <2>1, <2>3 DEF ScaffoldInv, project
    <2>5. WorkspaceInv' BY <1>4, WorkspaceFrame DEF IInv
    <2>6. ConfigsInv' BY <1>1, <2>1 DEF IInv, ConfigsInv
    <2> QED BY <1>3, <2>2, <2>4, <2>5, <2>6 DEF IInv
  <1>5. ASSUME NEW ignore \in BOOLEAN, modules = None, cmd' = Install(cmd, ignore),
               InstallsOwn(ignore)', WorkspaceInv'
        PROVE  IInv'
    <2>1. /\ cmd' \in [stage : {"install"}, ignore : BOOLEAN, interactive : BOOLEAN, fresh : BOOLEAN]
          /\ cmd'.stage = "install" /\ cmd'.ignore = ignore
      BY <1>1, <1>5, InstallIs
    <2>2. TypeOK' BY <1>1, <2>1 DEF IInv, TypeOK, CmdOK, world, project
    <2>3. InstallsOwn(cmd.ignore)' BY <1>5, <2>1 DEF InstallsOwn, Enclosing, Member
    <2>4. toml = None
      BY <1>5, NoneAssumption DEF IInv, ScaffoldInv
    <2>5. ScaffoldInv' BY <1>1, <1>2, <1>5, <2>1, <2>3, <2>4 DEF ScaffoldInv, project
    <2>6. ConfigsInv' BY <1>1, <2>1 DEF IInv, ConfigsInv
    <2> QED BY <1>3, <1>5, <2>2, <2>5, <2>6 DEF IInv
  <1>6. CASE modules = None /\ cmd' = Install(cmd, Enclosing) /\ UNCHANGED pnpm
    <2>1. Enclosing \in BOOLEAN BY DEF Enclosing
    <2>2. InstallsOwn(Enclosing) BY DEF InstallsOwn
    <2>3. InstallsOwn(Enclosing)' BY <1>6, <2>2 DEF InstallsOwn, Enclosing, Member, pnpm
    <2>4. WorkspaceInv' BY <1>6, WorkspaceFrame DEF IInv
    <2>5. PICK b \in BOOLEAN : b = Enclosing BY <2>1
    <2>6. InstallsOwn(b)' BY <1>6, <2>2, <2>5 DEF InstallsOwn, Enclosing, Member, pnpm
    <2> QED BY <1>5, <1>6, <2>4, <2>5, <2>6
  <1>7. CASE /\ modules = None /\ Enclosing
             /\ LET edited == InsertWorkspacePackage(workspace.lines, Member)
                IN  IF edited = Unsupported
                      THEN cmd' = Install(cmd, TRUE) /\ UNCHANGED pnpm
                      ELSE /\ workspace' = [workspace EXCEPT !.lines = edited]
                           /\ joined' = IF joined = None THEN workspace.lines ELSE joined
                           /\ cmd' = Install(cmd, FALSE)
    <2> DEFINE edited == InsertWorkspacePackage(workspace.lines, Member)
    <2>1. CASE edited = Unsupported
      <3>1. cmd' = Install(cmd, TRUE) /\ UNCHANGED pnpm BY <1>7, <2>1
      <3>2. WorkspaceInv' BY <3>1, WorkspaceFrame DEF IInv
      <3>3. InstallsOwn(TRUE)' BY DEF InstallsOwn
      <3> QED BY <1>5, <1>7, <3>1, <3>2, <3>3
    <2>2. CASE edited # Unsupported
      <3>1. /\ workspace' = [workspace EXCEPT !.lines = edited]
            /\ joined' = IF joined = None THEN workspace.lines ELSE joined
            /\ cmd' = Install(cmd, FALSE)
        BY <1>7, <2>2
      <3>2. PICK w \in Worlds :
              /\ w.workspace # None
              /\ workspace = [root |-> w.workspace.root, lines |-> workspace.lines]
              /\ \/ joined = None /\ workspace.lines = w.workspace.lines
                 \/ /\ joined = w.workspace.lines
                    /\ workspace.lines = InsertWorkspacePackage(joined, Member)
                    /\ workspace.lines # Unsupported
        BY <1>7 DEF IInv, WorkspaceInv, Enclosing
      <3> DEFINE rel == Member
                 grown == InsertWorkspacePackage(w.workspace.lines, rel)
      <3>3. w.workspace.lines # None BY <3>2, WorldsAssumption
      <3>4. edited = grown /\ joined' = w.workspace.lines
        <4>1. CASE joined = None /\ workspace.lines = w.workspace.lines BY <3>1, <4>1
        <4>2. CASE /\ joined = w.workspace.lines
                   /\ workspace.lines = InsertWorkspacePackage(joined, Member)
                   /\ workspace.lines # Unsupported
          <5>1. workspace.lines = grown /\ grown # Unsupported BY <4>2
          <5>2. InsertWorkspacePackage(grown, rel) = grown BY <3>2, <5>1, JoinedIs
          <5>3. joined' = w.workspace.lines BY <3>1, <3>3, <4>2
          <5> QED BY <5>1, <5>2, <5>3
        <4> QED BY <3>2, <4>1, <4>2
      <3>5. rel \in Members(grown) BY <2>2, <3>2, <3>4, JoinedIs
      <3> HIDE DEF edited
      <3>6. workspace'.root = workspace.root /\ workspace'.lines = edited
            /\ workspace' = [root |-> w.workspace.root, lines |-> workspace'.lines]
        <4>1. workspace = [root |-> w.workspace.root, lines |-> workspace.lines] BY <3>2
        <4> QED BY <3>1, <4>1
      <3>7. Member' = rel BY <3>6 DEF Member
      <3> HIDE DEF rel
      <3>8. WorkspaceInv'
        <4>1. workspace'.lines = InsertWorkspacePackage(joined', Member')
          BY <3>4, <3>6, <3>7
        <4>2. workspace'.lines # Unsupported BY <2>2, <3>6
        <4> QED BY <3>2, <3>4, <3>6, <4>1, <4>2 DEF WorkspaceInv
      <3>9. InstallsOwn(FALSE)'
        <4>1. Member' \in Members(workspace'.lines) BY <3>4, <3>5, <3>6, <3>7
        <4> QED BY <4>1 DEF InstallsOwn
      <3> QED BY <1>5, <1>7, <3>1, <3>8, <3>9
    <2> QED BY <2>1, <2>2
  <1> QED BY <1>4, <1>6, <1>7 DEF EnsureNodeModules

LEMMA PnpmInstallIInv ==
  ASSUME IInv, PnpmInstall PROVE IInv'
  <1>1. /\ cmd.stage = "install" /\ UNCHANGED <<world, made, ignored, toml, valid, picked, pnpm, configs>>
        /\ cmd.interactive \in BOOLEAN /\ cmd.fresh \in BOOLEAN
    BY StageIs DEF IInv, PnpmInstall
  <1>2. made = ToSet(Scaffold) /\ Secrets \subseteq ignored /\ modules = None /\ InstallsOwn(cmd.ignore)
    BY <1>1 DEF IInv, ScaffoldInv
  <1>3. toml = None BY <1>2, NoneAssumption DEF IInv, ScaffoldInv
  <1>4. PickedInv' /\ WorkspaceInv' BY <1>1, PickedFrame, WorkspaceFrame DEF IInv, world
  <1>5. CASE modules' = "own" /\ cmd' = Settle(cmd)
    <2>1. /\ cmd' \in [stage : {"discover", "config"}, interactive : BOOLEAN, fresh : BOOLEAN]
          /\ cmd'.stage \in {"discover", "config"}
      BY <1>1, <1>5, SettleIs
    <2>2. TypeOK' BY <1>1, <1>5, <2>1 DEF IInv, TypeOK, CmdOK, world
    <2>3. ScaffoldInv' BY <1>1, <1>2, <1>5, <2>1 DEF ScaffoldInv
    <2>4. ConfigsInv' BY <1>1, <2>1 DEF IInv, ConfigsInv
    <2> QED BY <1>4, <2>2, <2>3, <2>4 DEF IInv
  <1>6. CASE modules' \in {None, "partial"} /\ cmd' = Idle
    <2>1. cmd'.stage = "idle" BY <1>6 DEF Idle
    <2>2. TypeOK' BY <1>1, <1>6 DEF IInv, TypeOK, CmdOK, world
    <2>3. ScaffoldInv' BY <1>1, <1>3, <2>1 DEF ScaffoldInv
    <2>4. ConfigsInv' BY <1>1, <2>1 DEF IInv, ConfigsInv
    <2> QED BY <1>4, <2>2, <2>3, <2>4 DEF IInv
  <1> QED BY <1>2, <1>5, <1>6 DEF PnpmInstall

LEMMA DiscoverIInv ==
  ASSUME IInv, Discover PROVE IInv'
  <1>1. cmd.stage = "discover" /\ UNCHANGED <<world, project, pnpm, configs>> BY DEF Discover
  <1>2. PICK found \in Candidates(DOMAIN envs, Home) : \E chosen \in Picks(found) :
          cmd' = [stage |-> "config", interactive |-> TRUE, fresh |-> TRUE, chosen |-> chosen]
    BY DEF Discover
  <1>3. PICK chosen \in Picks(found) :
          cmd' = [stage |-> "config", interactive |-> TRUE, fresh |-> TRUE, chosen |-> chosen]
    BY <1>2
  <1>4. IsFiniteSet(DOMAIN envs) BY WorldsAssumption DEF IInv, TypeOK
  <1>5. chosen \in Seq(DOMAIN envs) BY <1>4, PicksAreFiles
  <1>6. cmd' \in [stage : {"config"}, interactive : BOOLEAN, fresh : BOOLEAN, chosen : Seq(DOMAIN envs)]
        /\ cmd'.stage = "config"
    BY <1>3, <1>5
  <1>7. UNCHANGED envs BY <1>1 DEF world
  <1>8. TypeOK' BY <1>1, <1>6, <1>7 DEF IInv, TypeOK, CmdOK, world, project
  <1>9. ScaffoldInv' BY <1>1, <1>6 DEF IInv, ScaffoldInv, project
  <1>10. PickedInv' /\ WorkspaceInv' BY <1>1, PickedFrame, WorkspaceFrame DEF IInv, project, world
  <1>11. ConfigsInv' BY <1>1, <1>6 DEF IInv, ConfigsInv
  <1> QED BY <1>8, <1>9, <1>10, <1>11 DEF IInv

LEMMA EnsureProjectConfigIInv ==
  ASSUME IInv, EnsureProjectConfig PROVE IInv'
  <1>1. cmd.stage = "config" /\ cmd' = Idle /\ UNCHANGED <<world, made, ignored, modules, pnpm, configs>>
    BY DEF EnsureProjectConfig
  <1>2. cmd'.stage = "idle" BY <1>1 DEF Idle
  <1>3. TypeOK' BY <1>1 DEF IInv, TypeOK, CmdOK, world
  <1>4. ScaffoldInv' BY <1>1, <1>2 DEF IInv, ScaffoldInv
  <1>5. WorkspaceInv' BY <1>1, WorkspaceFrame DEF IInv
  <1>6. ConfigsInv' BY <1>1, <1>2 DEF IInv, ConfigsInv
  <1>7. PickedInv'
    <2>1. CASE toml # None
      <3>1. UNCHANGED <<toml, picked, envs>> BY <1>1, <2>1 DEF EnsureProjectConfig, world
      <3> QED BY <3>1, PickedFrame DEF IInv
    <2>2. CASE toml = None
      <3> DEFINE chosen == IF "chosen" \in DOMAIN cmd THEN cmd.chosen ELSE <<>>
      <3>1. /\ toml' = IF chosen = <<>> THEN <<<<"..", ".env">>>> ELSE Written(chosen)
            /\ picked' = IF chosen = <<>> THEN <<Append(Home, ".env")>> ELSE chosen
        BY <2>2 DEF EnsureProjectConfig, WriteProjectConfig
      <3>2. chosen \in Seq(DOMAIN envs)
        <4>1. CASE cmd \in [stage : {"discover", "config"}, interactive : BOOLEAN, fresh : BOOLEAN]
          <5>1. "chosen" \notin DOMAIN cmd BY <4>1
          <5> QED BY <5>1
        <4>2. CASE cmd \in [stage : {"config"}, interactive : BOOLEAN, fresh : BOOLEAN, chosen : Seq(DOMAIN envs)]
          <5>1. cmd.chosen \in Seq(DOMAIN envs) /\ "chosen" \in DOMAIN cmd BY <4>2
          <5> QED BY <5>1
        <4> QED BY <1>1, <4>1, <4>2, StageIs DEF IInv
      <3> HIDE DEF chosen
      <3>4. envs' = envs BY <1>1 DEF world
      <3>5. CASE chosen = <<>>
        <4>1. toml' = <<<<"..", ".env">>>> /\ picked' = <<Append(Home, ".env")>> BY <3>1, <3>5
        <4>2. Resolve(Root, <<"..", ".env">>) = Append(Home, ".env")
          BY ResolveDefault, WorldsAssumption DEF Root
        <4> DEFINE r == Resolve(Root, <<"..", ".env">>)
                   names == <<"..", ".env">>
        <4>3. EnvPaths' = [i \in DOMAIN <<names>> |-> Resolve(Root, <<names>>[i])] BY <4>1 DEF EnvPaths
        <4>4. DOMAIN <<names>> = {1} /\ <<names>>[1] = names OBVIOUS
        <4> HIDE DEF names
        <4>5. EnvPaths' = [i \in {1} |-> Resolve(Root, names)] BY <4>3, <4>4
        <4>6. EnvPaths' = <<Append(Home, ".env")>>
          <5> DEFINE home == Append(Home, ".env")
          <5>1. EnvPaths' = [i \in {1} |-> home] BY <4>2, <4>5 DEF names
          <5> HIDE DEF home
          <5>2. [i \in {1} |-> home] = <<home>> OBVIOUS
          <5> QED BY <5>1, <5>2 DEF home
        <4>7. picked' \in Seq(Files')
          <5> DEFINE home == Append(Home, ".env")
          <5>1. home \in Files' BY DEF Files
          <5>2. picked' = <<home>> BY <4>1
          <5> HIDE DEF home
          <5> QED BY <5>1, <5>2
        <4> QED BY <4>1, <4>6, <4>7 DEF PickedInv
      <3>6. CASE chosen # <<>>
        <4>1. toml' = Written(chosen) /\ picked' = chosen BY <3>1, <3>6
        <4>2. \A p \in DOMAIN envs : IsPath(p) BY WorldsAssumption DEF IInv, TypeOK
        <4>3. EnvPaths' = chosen BY <3>2, <4>1, <4>2, WrittenResolves DEF EnvPaths
        <4>4. picked' \in Seq(Files')
          <5>1. DOMAIN envs \subseteq Files' BY <3>4 DEF Files
          <5> QED BY <3>2, <4>1, <5>1, SeqMonotonic
        <4> QED BY <4>1, <4>3, <4>4 DEF PickedInv
      <3> QED BY <3>5, <3>6
    <2> QED BY <2>1, <2>2
  <1> QED BY <1>3, <1>4, <1>5, <1>6, <1>7 DEF IInv

LEMMA StartNewIInv ==
  ASSUME IInv, NEW cwd, StartNew(cwd) PROVE IInv'
  <1>1. PICK opts \in Options :
          /\ ~Taken(opts.name, opts.namespace)
          /\ cmd' = [stage |-> "staging", opts |-> opts, files |-> {}]
    BY DEF StartNew
  <1>2. UNCHANGED <<world, project, pnpm, configs>> BY DEF StartNew
  <1>3. cmd' \in [stage : {"staging"}, opts : Options, files : {{}, {"config.toml"}, ConfigFiles}]
        /\ cmd'.stage = "staging" /\ cmd'.opts = opts
    BY <1>1
  <1>4. TypeOK' BY <1>2, <1>3 DEF IInv, TypeOK, CmdOK, world, project
  <1>5. ScaffoldInv' BY <1>2, <1>3 DEF IInv, ScaffoldInv, project
  <1>6. PickedInv' /\ WorkspaceInv' BY <1>2, PickedFrame, WorkspaceFrame DEF IInv, project, world
  <1>7. ConfigsInv' BY <1>1, <1>2, <1>3 DEF IInv, ConfigsInv, Taken
  <1> QED BY <1>4, <1>5, <1>6, <1>7 DEF IInv

LEMMA WriteStagingIInv ==
  ASSUME IInv, WriteStaging PROVE IInv'
  <1>1. /\ cmd.stage = "staging" /\ UNCHANGED <<world, project, pnpm, configs>>
        /\ cmd \in [stage : {"staging"}, opts : Options, files : {{}, {"config.toml"}, ConfigFiles}]
    BY StageIs DEF IInv, WriteStaging
  <1>2. CASE cmd' = [cmd EXCEPT !.files = IF @ = {} THEN {"config.toml"} ELSE ConfigFiles]
    <2>1. cmd' \in [stage : {"staging"}, opts : Options, files : {{}, {"config.toml"}, ConfigFiles}]
          /\ cmd'.stage = "staging" /\ cmd'.opts = cmd.opts
      BY <1>1, <1>2
    <2>2. TypeOK' BY <1>1, <2>1 DEF IInv, TypeOK, CmdOK, world, project
    <2>3. ScaffoldInv' BY <1>1, <2>1 DEF IInv, ScaffoldInv, project
    <2>4. PickedInv' /\ WorkspaceInv' BY <1>1, PickedFrame, WorkspaceFrame DEF IInv, project, world
    <2>5. ConfigsInv' BY <1>1, <2>1 DEF IInv, ConfigsInv, Taken
    <2> QED BY <2>2, <2>3, <2>4, <2>5 DEF IInv
  <1>3. CASE cmd' = Idle BY <1>1, <1>3, IdleFrame
  <1> QED BY <1>2, <1>3 DEF WriteStaging

LEMMA RenameIInv ==
  ASSUME IInv, Rename PROVE IInv'
  <1>1. /\ cmd.stage = "staging" /\ cmd.files = ConfigFiles /\ cmd' = Idle
        /\ UNCHANGED <<world, project, pnpm>> /\ cmd.opts \in Options
    BY StageIs DEF IInv, Rename
  <1>2. CASE UNCHANGED configs BY <1>1, <1>2, IdleFrame
  <1>3. CASE configs' = configs \cup {[opts |-> cmd.opts, files |-> cmd.files]}
    <2> DEFINE new == [opts |-> cmd.opts, files |-> cmd.files]
    <2>1. new \in [opts : Options, files : {ConfigFiles}] /\ new.opts = cmd.opts BY <1>1
    <2>2. configs' = configs \cup {new} BY <1>3
    <2> HIDE DEF new
    <2>3. TypeOK' BY <1>1, <2>1, <2>2 DEF IInv, TypeOK, CmdOK, world, project
    <2>4. cmd'.stage = "idle" BY <1>1 DEF Idle
    <2>5. ScaffoldInv' BY <1>1, <2>4 DEF IInv, ScaffoldInv, project
    <2>6. PickedInv' /\ WorkspaceInv' BY <1>1, PickedFrame, WorkspaceFrame DEF IInv, project, world
    <2>7. \A c \in configs : c.opts.name # new.opts.name /\ c.opts.namespace # new.opts.namespace
      BY <1>1, <2>1 DEF IInv, ConfigsInv, Taken
    <2>8. ConfigsInv' BY <2>2, <2>4, <2>7 DEF IInv, ConfigsInv
    <2> QED BY <2>3, <2>5, <2>6, <2>8 DEF IInv
  <1> QED BY <1>2, <1>3 DEF Rename

LEMMA EditIInv ==
  ASSUME IInv, Edit PROVE IInv'
  <1>1. cmd = Idle /\ UNCHANGED <<world, made, ignored, modules, toml, picked, pnpm, configs, cmd>>
    BY DEF Edit
  <1>2. cmd.stage = "idle" BY <1>1 DEF Idle
  <1>3. TypeOK' BY <1>1 DEF IInv, TypeOK, CmdOK, world
  <1>4. ScaffoldInv' BY <1>1, <1>2 DEF IInv, ScaffoldInv
  <1>5. PickedInv' /\ WorkspaceInv' BY <1>1, PickedFrame, WorkspaceFrame DEF IInv, world
  <1>6. ConfigsInv' BY <1>1, <1>2 DEF IInv, ConfigsInv
  <1> QED BY <1>3, <1>4, <1>5, <1>6 DEF IInv

LEMMA StartRunIInv ==
  ASSUME IInv, NEW cwd, StartRun(cwd) PROVE IInv'
  <1>1. UNCHANGED <<envs, shell, project, pnpm, configs, cmd>> BY DEF StartRun
  <1>2. TypeOK' BY <1>1 DEF IInv, TypeOK, CmdOK, project
  <1>3. ScaffoldInv' BY <1>1 DEF IInv, ScaffoldInv, project, InstallsOwn, Enclosing, Member, pnpm
  <1>4. PickedInv' /\ WorkspaceInv' BY <1>1, PickedFrame, WorkspaceFrame DEF IInv, project
  <1>5. ConfigsInv' BY <1>1 DEF IInv, ConfigsInv, Taken
  <1> QED BY <1>2, <1>3, <1>4, <1>5 DEF IInv

LEMMA NextIInv == IInv /\ [Next]_vars => IInv'
  <1> SUFFICES ASSUME IInv, [Next]_vars PROVE IInv' OBVIOUS
  <1>1. ASSUME NEW cwd, StartInit(cwd) PROVE IInv' BY <1>1, StartInitIInv
  <1>2. ASSUME NEW cwd, StartNew(cwd) PROVE IInv' BY <1>2, StartNewIInv
  <1>3. CASE ScaffoldNext BY <1>3, ScaffoldNextIInv
  <1>4. CASE EnsureNodeModules BY <1>4, EnsureNodeModulesIInv
  <1>5. CASE PnpmInstall BY <1>5, PnpmInstallIInv
  <1>6. CASE Discover BY <1>6, DiscoverIInv
  <1>7. CASE EnsureProjectConfig BY <1>7, EnsureProjectConfigIInv
  <1>8. CASE WriteStaging BY <1>8, WriteStagingIInv
  <1>9. CASE Rename BY <1>9, RenameIInv
  <1>10. CASE Stop BY <1>10, IdleFrame DEF Stop
  <1>11. CASE Edit BY <1>11, EditIInv
  <1>12. CASE UNCHANGED vars
    <2>1. UNCHANGED <<world, project, pnpm, configs, cmd>> BY <1>12 DEF vars
    <2>2. TypeOK' BY <2>1 DEF IInv, TypeOK, CmdOK, world, project
    <2>3. ScaffoldInv' BY <2>1 DEF IInv, ScaffoldInv, project, InstallsOwn, Enclosing, Member, pnpm
    <2>4. PickedInv' /\ WorkspaceInv' BY <2>1, PickedFrame, WorkspaceFrame DEF IInv, project, world
    <2>5. ConfigsInv' BY <2>1 DEF IInv, ConfigsInv, Taken
    <2> QED BY <2>2, <2>3, <2>4, <2>5 DEF IInv
  <1>13. ASSUME NEW cwd, StartRun(cwd) PROVE IInv' BY <1>13, StartRunIInv
  <1> QED BY <1>1, <1>2, <1>3, <1>4, <1>5, <1>6, <1>7, <1>8, <1>9, <1>10, <1>11, <1>12, <1>13 DEF Next

LEMMA Inductive == Spec => []IInv
  BY InitIInv, NextIInv, PTL DEF Spec

----------------------------------------------------------------------------
(* Theorems.                                                                *)

\* A command is in one of its stages, with what the stage needs, and the .env files and
\* the shell stay as they were.
THEOREM TypeCorrect == Spec => []TypeOK
  BY Inductive, PTL DEF IInv

\* A directory that the commands take for a project was scaffolded in full, ignores its
\* secrets and had its own modules installed, wherever earlier attempts were stopped.
THEOREM InitCompletes == Spec => []InitializedIsComplete
  <1>1. IInv => InitializedIsComplete BY DEF IInv, ScaffoldInv, InitializedIsComplete
  <1> QED BY <1>1, Inductive, PTL

\* Whatever manifest pnpm accepted, it accepts what init made of it, and finds in it what
\* there was and the project, once.
THEOREM WorkspaceStaysIntact == Spec => []WorkspaceIntact
  <1>1. ASSUME IInv PROVE WorkspaceIntact
    <2> SUFFICES ASSUME joined # None, Indented(joined)
                 PROVE  Intact(joined, workspace.lines, Member)
      BY DEF WorkspaceIntact, Intact
    <2>1. PICK w \in Worlds :
            /\ w.workspace # None
            /\ joined = w.workspace.lines
            /\ workspace.lines = InsertWorkspacePackage(joined, Member)
            /\ workspace.lines # Unsupported
      BY <1>1 DEF IInv, WorkspaceInv
    <2>2. IsManifest(joined) BY <2>1, WorldsAssumption
    <2> DEFINE rel == Member
               edited == workspace.lines
    <2>3. edited = InsertWorkspacePackage(joined, rel) /\ edited # Unsupported BY <2>1
    <2> HIDE DEF rel, edited
    <2>4. Joined(joined, edited, rel) BY <2>2, <2>3, InsertJoins
    <2> QED BY <2>4 DEF Joined, rel, edited
  <1> QED BY <1>1, Inductive, PTL

LEMMA ElementsMakeSeq ==
  ASSUME NEW S, NEW n \in Nat, NEW f \in [1..n -> S]
  PROVE  f \in Seq(S)
  BY SeqDef

\* What a file that was picked has to say is read, and a file that is missing says nothing.
LEMMA PickedLoads ==
  ASSUME TypeOK, picked \in Seq(Files), CanLoad(envs, picked), NEW start \in {Empty, shell}
  PROVE  /\ \E W, P : Loads(W, P, envs, start, picked)
         /\ \A i \in DOMAIN picked : picked[i] \in DOMAIN envs => IsEnvFile(envs[picked[i]])
  <1> DEFINE P == {picked[i] : i \in DOMAIN picked}
             W == STRING \cup {None} \cup {shell[key] : key \in Keys}
  <1>1. PICK w \in Worlds : envs = w.envs /\ shell = w.shell BY DEF TypeOK
  <1>2. DOMAIN picked = 1..Len(picked) /\ Len(picked) \in Nat BY LenProperties
  <1>3. \A i \in DOMAIN picked : picked[i] \in DOMAIN envs => IsEnvFile(envs[picked[i]])
    BY <1>1, WorldsAssumption DEF CanLoad
  <1>4. start \in [Keys -> W]
    <2>1. Empty \in [Keys -> W] BY DEF Empty
    <2>2. shell \in [Keys -> W]
      <3>1. shell = [key \in Keys |-> shell[key]] BY <1>1, WorldsAssumption
      <3> QED BY <3>1
    <2> QED BY <2>1, <2>2
  <1>5. picked \in Seq(P)
    <2>1. picked \in [1..Len(picked) -> P]
      <3>1. picked \in [1..Len(picked) -> Files] BY LenProperties
      <3> QED BY <1>2, <3>1
    <2> HIDE DEF P
    <2> QED BY <1>2, <2>1, ElementsMakeSeq
  <1>6. ASSUME NEW p \in P PROVE Read(envs, p) \in [Keys -> W]
    <2>1. CASE p \notin DOMAIN envs
      <3>1. Empty \in [Keys -> W] BY DEF Empty
      <3> QED BY <2>1, <3>1 DEF Read
    <2>2. CASE p \in DOMAIN envs
      <3>1. IsEnvFile(envs[p]) BY <1>3, <2>2
      <3> DEFINE lines == envs[p]
      <3>2. FileVars(lines) \in [Keys -> STRING \cup {None}] BY <3>1, FileVarsAre
      <3>3. FileVars(lines) \in [Keys -> W] BY <3>2
      <3> QED BY <2>2, <3>3 DEF Read
    <2> QED BY <2>1, <2>2
  <1>7. Loads(W, P, envs, start, picked) BY <1>4, <1>5, <1>6 DEF Loads
  <1> QED BY <1>3, <1>7

\* Commands and transforms see the variables that the order of the picked files, and the
\* shell before them, decide.
THEOREM EnvironmentIsAsPicked == Spec => []EnvironmentAsPicked
  <1>1. ASSUME IInv PROVE EnvironmentAsPicked
    <2> SUFFICES ASSUME toml # None, CanLoad(envs, picked), NEW key \in Keys
                 PROVE  /\ Variables[key] = Chosen(key)
                        /\ ScriptEnvironment(envs, shell, EnvPaths)[key] = Chosen(key)
      BY DEF EnvironmentAsPicked
    <2>1. picked \in Seq(Files) /\ EnvPaths = picked BY <1>1 DEF IInv, PickedInv
    <2>2. /\ \A start \in {Empty, shell} : \E W, P : Loads(W, P, envs, start, picked)
          /\ \A i \in DOMAIN picked : picked[i] \in DOMAIN envs => IsEnvFile(envs[picked[i]])
      BY <1>1, <2>1, PickedLoads DEF IInv
    <2> DEFINE value == FirstValue(envs, picked, Len(picked), key)
    <2>3. \A start \in {Empty, shell} :
            Loaded(envs, start, picked)[key] = IF start[key] # None THEN start[key] ELSE value
      BY <2>2, LoadedIs
    <2>4. Chosen(key) = IF shell[key] # None THEN shell[key] ELSE value
      BY <2>1, <2>2, FirstValueIsChosen
    <2>5. LoadEnvFiles(envs, picked) = Loaded(envs, Empty, picked) BY DEF LoadEnvFiles, Loaded
    <2>6. ScriptEnvironment(envs, shell, picked) = Loaded(envs, shell, picked)
      BY DEF ScriptEnvironment, Loaded
    <2> HIDE DEF value
    <2>7. LoadEnvFiles(envs, picked)[key] = value
      <3>1. Empty[key] = None BY DEF Empty
      <3> QED BY <2>3, <2>5, <3>1
    <2>8. Variables[key] = IF shell[key] # None THEN shell[key] ELSE value
      BY <2>1, <2>7 DEF Variables, Environment, ResolveEnvVar
    <2>9. ScriptEnvironment(envs, shell, EnvPaths)[key] = IF shell[key] # None THEN shell[key] ELSE value
      BY <2>1, <2>3, <2>6
    <2> QED BY <2>4, <2>8, <2>9
  <1> QED BY <1>1, Inductive, PTL

\* What run found when it first started is there still: settings that can be loaded, the
\* .env files they name, and the variables.
Furnished == toml # None /\ CanLoad(envs, EnvPaths) /\ \A key \in Keys : Available(key)
RanInv == ran => Furnished

\* Neither init, however often it is run, nor an edit changes which files are named.
LEMMA FurnishedStep == Furnished /\ [Next]_vars => Furnished'
  <1> SUFFICES ASSUME Furnished, [Next]_vars PROVE Furnished' OBVIOUS
  <1>1. UNCHANGED <<toml, envs, shell>>
    BY DEF Furnished, Next, vars, world, project, StartInit, StartNew, StartRun, ScaffoldNext,
           EnsureNodeModules, PnpmInstall, Discover, EnsureProjectConfig, WriteStaging, Rename,
           Stop, Edit
  <1>2. EnvPaths' = EnvPaths BY <1>1 DEF EnvPaths
  <1>3. Variables' = Variables BY <1>1, <1>2 DEF Variables
  <1>4. CanLoad(envs, EnvPaths)' BY <1>1, <1>2 DEF Furnished, CanLoad
  <1>5. \A key \in Keys : Available(key)' BY <1>3 DEF Furnished, Available
  <1> QED BY <1>1, <1>4, <1>5 DEF Furnished

LEMMA RanStep == RanInv /\ [Next]_vars => RanInv'
  <1> SUFFICES ASSUME RanInv, [Next]_vars PROVE RanInv' OBVIOUS
  <1>1. CASE Furnished BY <1>1, FurnishedStep DEF RanInv
  <1>2. ASSUME NEW cwd, StartRun(cwd) PROVE Furnished
    <2>1. toml # None BY <1>2 DEF StartRun, IsProject
    <2>2. CanLoad(envs, EnvPaths) /\ \A key \in Needs["run"] : Available(key)
      BY <1>2 DEF StartRun, Starts
    <2>3. Needs["run"] = Keys BY DEF Needs
    <2> QED BY <2>1, <2>2, <2>3 DEF Furnished
  <1>3. ran' = ran \/ \E cwd : StartRun(cwd)
    BY DEF Next, vars, world, StartInit, StartNew, ScaffoldNext, EnsureNodeModules,
           PnpmInstall, Discover, EnsureProjectConfig, WriteStaging, Rename, Stop, Edit
  <1>4. CASE ran' = ran /\ ~ran BY <1>4 DEF RanInv
  <1> QED BY <1>1, <1>2, <1>3, <1>4 DEF RanInv

\* Once run has started, what repairs the project starts ever after, and with valid
\* settings every command does.
THEOREM RecoveryAlwaysStarts == Spec => []RecoveryStarts
  <1>1. Init => RanInv BY DEF Init, RanInv
  <1>2. ASSUME RanInv PROVE RecoveryStarts
    <2> SUFFICES ASSUME ran
                 PROVE  /\ toml # None
                        /\ \A command \in {"new", "generate", "debug", "tombstone", "reset"} :
                             Starts(command)
                        /\ valid => \A command \in DOMAIN Needs : Starts(command)
      BY DEF RecoveryStarts
    <2>1. Furnished BY <1>2 DEF RanInv
    <2>2. \A command \in DOMAIN Needs : Needs[command] \subseteq Keys
      BY DEF Needs, Keys, Database
    <2>3. ASSUME NEW command \in DOMAIN Needs, command \in Validates => valid
          PROVE  Starts(command)
      BY <2>1, <2>2, <2>3 DEF Furnished, Starts
    <2>4. ASSUME NEW command \in {"new", "generate", "debug", "tombstone", "reset"}
          PROVE  Starts(command)
      <3>1. command \in DOMAIN Needs /\ command \notin Validates BY DEF Needs, Validates
      <3> QED BY <2>3, <3>1
    <2> QED BY <2>1, <2>3, <2>4 DEF Furnished
  <1> QED BY <1>1, <1>2, RanStep, PTL DEF Spec

\* Every config in configs/ is whole, no two share a name or a namespace.
ConfigsApart ==
  /\ \A c \in configs : c.files = ConfigFiles /\ IsValidName(c.opts.name)
  /\ \A c, d \in configs : c.opts.name = d.opts.name \/ c.opts.namespace = d.opts.namespace => c = d

\* new adds whole configs only, under names and namespaces that are not taken, however
\* often it is stopped.
THEOREM ConfigsStayApart == Spec => []ConfigsApart
  <1>1. IInv => ConfigsApart BY DEF IInv, TypeOK, ConfigsInv, ConfigsApart, Options
  <1> QED BY <1>1, Inductive, PTL
=============================================================================
