---------------------------- MODULE AmxCodeProofs ----------------------------
(***************************************************************************)
(* Proofs about the code in the abstract machine, for any scripts that are *)
(* written the way the compiler writes them: relocation finds every        *)
(* address and nothing else, the patching of native calls leaves the rest  *)
(* alone, and the machine stays on instructions whatever it runs.          *)
(***************************************************************************)
EXTENDS AmxProofs

-----------------------------------------------------------------------------
(* Looking up publics, and what amx_BrowseRelocate makes of the code.      *)

\* FindPublic finds the public with a name in a sorted table, and nothing if there is none.
LEMMA PublicFound ==
  ASSUME EntriesCompiled(Scripts[script]), NEW name
  PROVE  LET publics == Scripts[script].publics IN
         \/ FindPublic(name) = NotFound /\ \A i \in DOMAIN publics : publics[i].name # name
         \/ FindPublic(name) + 1 \in DOMAIN publics /\ publics[FindPublic(name) + 1].name = name
<1> DEFINE P == Scripts[script].publics
           n == Len(P)
           D == (0..n) \X (-1..(n - 1))
           Named(i) == P[i + 1].name = name
           Body(t, w) == LET first == w[1]
                             last == w[2]
                             mid == (first + last) \div 2
                         IN IF first > last THEN NotFound
                            ELSE IF P[mid + 1].name = name THEN mid
                            ELSE IF P[mid + 1].name > name THEN t[<<first, mid - 1>>]
                            ELSE t[<<mid + 1, last>>]
           Searches(t) == t = [w \in D |-> Body(t, w)]
           Found == CHOOSE i \in 0..(n - 1) : Named(i)
           F == [w \in D |-> IF \E i \in w[1]..w[2] : Named(i) THEN Found ELSE NotFound]
           Right(w, v) == \/ v = NotFound /\ \A i \in w[1]..w[2] : ~Named(i)
                          \/ v \in w[1]..w[2] /\ Named(v)
<1>1. FindPublic(name) = (CHOOSE t : Searches(t))[<<0, n - 1>>]
  BY DEF FindPublic
<1>2. /\ n \in Nat
      /\ DOMAIN P = 1..n
      /\ \A i \in 0..(n - 1) : P[i + 1].name \in Int
      /\ \A i, j \in 0..(n - 1) : i < j => P[i + 1].name < P[j + 1].name
  <2>1. P \in Seq([name : Int, entry : Scripts[script].starts]) /\ n \in Nat /\ DOMAIN P = 1..n
    BY DEF EntriesCompiled
  <2>2. \A i \in 0..(n - 1) : i + 1 \in DOMAIN P
    BY <2>1
  <2>3. \A i \in 0..(n - 1) : P[i + 1] \in [name : Int, entry : Scripts[script].starts]
    <3>1. SUFFICES ASSUME NEW i \in 0..(n - 1)
                   PROVE  P[i + 1] \in [name : Int, entry : Scripts[script].starts]
      OBVIOUS
    <3> HIDE DEF P
    <3>2. i + 1 \in 1..Len(P)
      BY <2>1, <2>2
    <3> QED BY <2>1, <3>2, ElementOfSeq
  <2>4. \A i, j \in DOMAIN P : i < j => P[i].name < P[j].name
    BY DEF EntriesCompiled
  <2>5. \A i, j \in 0..(n - 1) : i < j => P[i + 1].name < P[j + 1].name
    <3>1. SUFFICES ASSUME NEW i \in 0..(n - 1), NEW j \in 0..(n - 1), i < j
                   PROVE  P[i + 1].name < P[j + 1].name
      OBVIOUS
    <3>2. i + 1 \in DOMAIN P /\ j + 1 \in DOMAIN P /\ i + 1 < j + 1
      BY <2>2, <3>1, <2>1
    <3> QED BY <2>4, <3>2
  <2> QED BY <2>1, <2>3, <2>5
<1> HIDE DEF P
<1>3. ASSUME NEW w \in D, ~(w[1] > w[2])
      PROVE  LET mid == (w[1] + w[2]) \div 2
             IN mid \in w[1]..w[2] /\ w[1] \in 0..(n - 1) /\ w[2] \in 0..(n - 1)
                /\ <<w[1], mid - 1>> \in D /\ <<mid + 1, w[2]>> \in D
  BY <1>2, <1>3
<1>4. ASSUME NEW i \in 0..(n - 1), Named(i)
      PROVE  Found = i
  <2>1. Found \in 0..(n - 1) /\ Named(Found)
    BY <1>4
  <2> QED BY <2>1, <1>2, <1>4
<1>a. ASSUME NEW i \in 0..(n - 1), NEW mid \in 0..(n - 1), Named(i), ~Named(mid)
      PROVE  IF P[mid + 1].name > name THEN i < mid ELSE i > mid
  <2>1. name \in Int /\ P[mid + 1].name \in Int /\ P[i + 1].name = name /\ i \in Int /\ mid \in Int
    BY <1>2, <1>a
  <2>2. i < mid => name < P[mid + 1].name
    BY <1>2, <1>a, <2>1
  <2>3. mid < i => P[mid + 1].name < name
    BY <1>2, <1>a, <2>1
  <2>4. i # mid
    BY <1>a
  <2> HIDE DEF Named
  <2> QED BY <2>1, <2>2, <2>3, <2>4
<1>5. Searches(F)
  <2>1. ASSUME NEW w \in D
        PROVE  F[w] = Body(F, w)
    <3> DEFINE mid == (w[1] + w[2]) \div 2
    <3>1. CASE w[1] > w[2]
      BY <3>1, <1>2
    <3>2. CASE ~(w[1] > w[2])
      <4>1. /\ mid \in w[1]..w[2] /\ w[1] \in 0..(n - 1) /\ w[2] \in 0..(n - 1)
            /\ <<w[1], mid - 1>> \in D /\ <<mid + 1, w[2]>> \in D
        BY <1>3, <3>2
      <4> HIDE DEF mid, Found
      <4>2. CASE Named(mid)
        BY <4>1, <4>2, <1>4, <3>2 DEF mid
      <4>3. CASE ~Named(mid) /\ P[mid + 1].name > name
        <5>1. \A i \in 0..(n - 1) : Named(i) => i < mid
          <6> HIDE DEF Named, P, n
          <6>1. mid \in 0..(n - 1)
            BY <1>2, <4>1
          <6> QED BY <4>1, <4>3, <6>1, <1>a
        <5>2. (\E i \in w[1]..w[2] : Named(i)) <=> \E i \in w[1]..(mid - 1) : Named(i)
          BY <5>1, <4>1
        <5>3. F[<<w[1], mid - 1>>] = F[w]
          BY <5>2, <4>1
        <5> QED BY <5>3, <4>3, <3>2 DEF mid
      <4>4. CASE ~Named(mid) /\ ~(P[mid + 1].name > name)
        <5>1. \A i \in 0..(n - 1) : Named(i) => i > mid
          <6> HIDE DEF Named, P, n
          <6>1. mid \in 0..(n - 1)
            BY <1>2, <4>1
          <6> QED BY <4>1, <4>4, <6>1, <1>a
        <5>2. (\E i \in w[1]..w[2] : Named(i)) <=> \E i \in (mid + 1)..w[2] : Named(i)
          BY <5>1, <4>1
        <5>3. F[<<mid + 1, w[2]>>] = F[w]
          BY <5>2, <4>1
        <5> QED BY <5>3, <4>4, <3>2 DEF mid
      <4> QED BY <4>2, <4>3, <4>4
    <3> QED BY <3>1, <3>2
  <2> DEFINE G == [w \in D |-> Body(F, w)]
  <2>2. F = G
    <3> HIDE DEF Body
    <3>1. \A w \in D : F[w] = G[w]
      <4> HIDE DEF F
      <4> QED BY <2>1
    <3> QED BY <3>1
  <2> QED BY <2>2
<1>6. Searches(CHOOSE t : Searches(t))
  <2> HIDE DEF Searches, F
  <2> QED BY <1>5
<1>7. ASSUME NEW t, Searches(t), NEW w \in D
      PROVE  Right(w, t[w])
  <2> DEFINE Size(v) == IF v[1] > v[2] THEN 0 ELSE v[2] - v[1] + 1
             Wrong == {m \in Nat : \E v \in D : Size(v) = m /\ ~Right(v, t[v])}
  <2>0. ASSUME NEW v \in D
        PROVE  t[v] = Body(t, v)
    <3> HIDE DEF Body
    <3> QED BY <1>7
  <2>1. SUFFICES ASSUME ~Right(w, t[w])
                 PROVE  FALSE
    OBVIOUS
  <2>2. Size(w) \in Wrong
    BY <2>1, <1>2
  <2>3. PICK m \in Wrong : \A k \in Wrong : m <= k
    BY <2>2, MinExists
  <2>4. PICK v \in D : Size(v) = m /\ ~Right(v, t[v])
    BY <2>3
  <2>5. ~(v[1] > v[2])
    <3>1. CASE v[1] > v[2]
      <4>1. t[v] = NotFound
        BY <2>0, <3>1
      <4>2. \A i \in v[1]..v[2] : FALSE
        BY <3>1, <1>2
      <4> QED BY <4>1, <4>2, <2>4
    <3> QED BY <3>1
  <2> DEFINE mid == (v[1] + v[2]) \div 2
  <2>6. /\ mid \in v[1]..v[2] /\ v[1] \in 0..(n - 1) /\ v[2] \in 0..(n - 1)
        /\ <<v[1], mid - 1>> \in D /\ <<mid + 1, v[2]>> \in D
    BY <1>3, <2>5
  <2>7. Right(<<v[1], mid - 1>>, t[<<v[1], mid - 1>>]) /\ Right(<<mid + 1, v[2]>>, t[<<mid + 1, v[2]>>])
    <3> HIDE DEF Right
    <3>1. ASSUME NEW u \in D, Size(u) < m
          PROVE  Right(u, t[u])
      <4>1. Size(u) \in Nat
        <5>1. u[1] \in Int /\ u[2] \in Int
          BY <1>2
        <5> QED BY ONLY <5>1
      <4> HIDE DEF Size, D
      <4>2. m \in Nat /\ ~(m <= Size(u))
        BY <2>3, <3>1, <4>1
      <4>3. Size(u) \notin Wrong
        BY <2>3, <4>2
      <4> QED BY <3>1, <4>1, <4>3
    <3>2. Size(<<v[1], mid - 1>>) < m /\ Size(<<mid + 1, v[2]>>) < m
      <4>1. m = v[2] - v[1] + 1
        BY <2>4, <2>5
      <4> HIDE DEF mid
      <4>2. v[1] \in Int /\ v[2] \in Int /\ mid \in Int /\ v[1] <= mid /\ mid <= v[2]
        BY <2>6, <1>2
      <4>3. /\ Size(<<v[1], mid - 1>>) = IF v[1] > mid - 1 THEN 0 ELSE mid - 1 - v[1] + 1
            /\ Size(<<mid + 1, v[2]>>) = IF mid + 1 > v[2] THEN 0 ELSE v[2] - (mid + 1) + 1
        OBVIOUS
      <4> HIDE DEF Size, D
      <4> QED BY ONLY <4>1, <4>2, <4>3
    <3> HIDE DEF Size, mid
    <3> QED BY <3>1, <3>2, <2>6
  <2>8. t[v] = IF Named(mid) THEN mid
               ELSE IF P[mid + 1].name > name THEN t[<<v[1], mid - 1>>] ELSE t[<<mid + 1, v[2]>>]
    BY <2>0, <2>5
  <2> HIDE DEF mid
  <2>9. CASE Named(mid)
    BY <2>4, <2>6, <2>8, <2>9
  <2>10. CASE ~Named(mid) /\ P[mid + 1].name > name
    <3>1. \A i \in 0..(n - 1) : Named(i) => i < mid
      <4> HIDE DEF Named, P, n
      <4>1. mid \in 0..(n - 1)
        BY <1>2, <2>6
      <4> QED BY <2>10, <4>1, <1>a
    <3> DEFINE u == t[<<v[1], mid - 1>>]
    <3>2. Right(<<v[1], mid - 1>>, u)
      BY <2>7
    <3> HIDE DEF u, D, Named
    <3>3. Right(v, u)
      <4>1. \/ u = NotFound /\ \A i \in v[1]..(mid - 1) : ~Named(i)
            \/ u \in v[1]..(mid - 1) /\ Named(u)
        BY <3>2
      <4>2. n \in Int /\ v[1] \in 0..(n - 1) /\ v[2] \in 0..(n - 1) /\ mid \in v[1]..v[2]
        BY <2>6, <1>2
      <4> HIDE DEF n
      <4>3. v[1]..(mid - 1) \subseteq v[1]..v[2]
        BY ONLY <4>2
      <4>4. ASSUME NEW i \in v[1]..v[2], Named(i)
            PROVE  i \in v[1]..(mid - 1)
        <5>1. i \in 0..(n - 1)
          BY ONLY <4>2, i \in v[1]..v[2]
        <5> QED BY ONLY <4>2, <4>4, <5>1, <3>1
      <4>5. \/ u = NotFound /\ \A i \in v[1]..v[2] : ~Named(i)
            \/ u \in v[1]..v[2] /\ Named(u)
        BY ONLY <4>1, <4>3, <4>4
      <4> QED BY <4>5
    <3> HIDE DEF Right
    <3>4. t[v] = u
      BY <2>8, <2>10 DEF u
    <3> QED BY <3>3, <3>4, <2>4
  <2>11. CASE ~Named(mid) /\ ~(P[mid + 1].name > name)
    <3>1. \A i \in 0..(n - 1) : Named(i) => i > mid
      <4> HIDE DEF Named, P, n
      <4>1. mid \in 0..(n - 1)
        BY <1>2, <2>6
      <4> QED BY <2>11, <4>1, <1>a
    <3> DEFINE u == t[<<mid + 1, v[2]>>]
    <3>2. Right(<<mid + 1, v[2]>>, u)
      BY <2>7
    <3> HIDE DEF u, D, Named
    <3>3. Right(v, u)
      <4>1. \/ u = NotFound /\ \A i \in (mid + 1)..v[2] : ~Named(i)
            \/ u \in (mid + 1)..v[2] /\ Named(u)
        BY <3>2
      <4>2. n \in Int /\ v[1] \in 0..(n - 1) /\ v[2] \in 0..(n - 1) /\ mid \in v[1]..v[2]
        BY <2>6, <1>2
      <4> HIDE DEF n
      <4>3. (mid + 1)..v[2] \subseteq v[1]..v[2]
        BY ONLY <4>2
      <4>4. ASSUME NEW i \in v[1]..v[2], Named(i)
            PROVE  i \in (mid + 1)..v[2]
        <5>1. i \in 0..(n - 1)
          BY ONLY <4>2, i \in v[1]..v[2]
        <5> QED BY ONLY <4>2, <4>4, <5>1, <3>1
      <4>5. \/ u = NotFound /\ \A i \in v[1]..v[2] : ~Named(i)
            \/ u \in v[1]..v[2] /\ Named(u)
        BY ONLY <4>1, <4>3, <4>4
      <4> QED BY <4>5
    <3> HIDE DEF Right
    <3>4. t[v] = u
      BY <2>8, <2>11 DEF u
    <3> QED BY <3>3, <3>4, <2>4
  <2> QED BY <2>9, <2>10, <2>11
<1>8. Right(<<0, n - 1>>, FindPublic(name))
  <2> HIDE DEF Right, Searches, D
  <2>1. <<0, n - 1>> \in D
    BY <1>2 DEF D
  <2> QED BY <1>1, <1>6, <1>7, <2>1
<1>9. CASE FindPublic(name) = NotFound /\ \A i \in 0..(n - 1) : ~Named(i)
  <2>1. \A i \in DOMAIN P : i - 1 \in 0..(n - 1) /\ (i - 1) + 1 = i
    BY <1>2
  <2>2. \A i \in DOMAIN P : P[i].name # name
    BY <2>1, <1>9
  <2> QED BY <1>9, <2>2 DEF P
<1>10. CASE FindPublic(name) \in 0..(n - 1) /\ Named(FindPublic(name))
  BY <1>10, <1>2 DEF P
<1> QED BY <1>8, <1>9, <1>10

\* Where amx_BrowseRelocate finds addresses in compiled code.
LEMMA LabelsOf ==
  ASSUME NEW p, CodeCompiled(p), NEW l
  PROVE  l \in p.labels <=> \E a \in p.starts : l \in RelocatedCells(p.code, a)
<1> DEFINE c == p.code
           Refers(a) == \/ c[a].op \in Relocated /\ l = a + 1
                        \/ c[a].op = "casetbl" /\ \E i \in 0..c[a + 1].n : l = a + 2 + 2 * i
<1>1. ASSUME NEW a \in p.starts
      PROVE  l \in RelocatedCells(c, a) <=> Refers(a)
  <2>1. ~("casetbl" \in Relocated)
    BY DEF Relocated, Conditions
  <2> QED BY <2>1 DEF RelocatedCells
<1>2. ASSUME NEW a \in p.starts, Refers(a)
      PROVE  l \in DOMAIN c
  <2> DEFINE size == Cardinality(DOMAIN c)
             w == BrowseWidth(c, a)
  <2>1. /\ a \in Nat /\ size \in Nat /\ DOMAIN c = 0..(size - 1)
        /\ w # 0 => a + w <= size
    <3>1. /\ size \in Nat /\ DOMAIN c = 0..(size - 1) /\ p.starts \subseteq DOMAIN c
          /\ w # 0 => w \in Nat /\ a + w \in p.starts \cup {size}
      BY DEF CodeCompiled
    <3> HIDE DEF c, w, size
    <3>2. \A b \in p.starts : b \in 0..(size - 1)
      BY ONLY <3>1
    <3>3. a \in 0..(size - 1)
      BY <3>2
    <3> QED BY ONLY <3>1, <3>2, <3>3
  <2>2. CASE c[a].op \in Relocated /\ l = a + 1
    <3>1. w = 2
      BY <2>2 DEF BrowseWidth, NoParam, OneParam, Relocated, Conditions, Relations
    <3> HIDE DEF w, size, c
    <3>2. l = a + 1 /\ a + 2 <= size
      BY ONLY <2>1, <2>2, <3>1
    <3>3. l \in 0..(size - 1)
      BY ONLY <2>1, <3>2
    <3> QED BY ONLY <2>1, <3>3
  <2>3. CASE c[a].op = "casetbl" /\ \E i \in 0..c[a + 1].n : l = a + 2 + 2 * i
    <3>1. w = 3 + 2 * c[a + 1].n
      BY <2>3 DEF BrowseWidth, NoParam, OneParam, Relocated, Conditions, Relations
    <3>2. c[a + 1].n \in Nat
      BY <2>3 DEF CodeCompiled
    <3> HIDE DEF w, size, c
    <3> DEFINE k == c[a + 1].n
    <3>3. k \in Nat /\ w = 3 + 2 * k /\ \E i \in 0..k : l = a + 2 + 2 * i
      BY <2>3, <3>1, <3>2
    <3> HIDE DEF k
    <3>4. a + 3 + 2 * k <= size
      BY ONLY <2>1, <3>3
    <3>5. PICK i \in 0..k : l = a + 2 + 2 * i
      BY <3>3
    <3>6. l \in 0..(size - 1)
      BY ONLY <2>1, <3>3, <3>4, <3>5
    <3> QED BY ONLY <2>1, <3>6
  <2> QED BY <1>2, <2>2, <2>3
<1>3. p.labels \subseteq DOMAIN c
  BY DEF CodeCompiled
<1>4. l \in DOMAIN c => (l \in p.labels <=> \E a \in p.starts : Refers(a))
  BY DEF CodeCompiled
<1> HIDE DEF Refers, c
<1>5. c = p.code
  BY DEF c
<1> QED BY <1>1, <1>2, <1>3, <1>4, <1>5

\* When it has reached the end it has found every one of them.
LEMMA BrowsesAll ==
  ASSUME NEW p, CodeCompiled(p), BrowseRelocate(p.code).complete
  PROVE  BrowseRelocate(p.code).code =
           [a \in DOMAIN p.code |->
              IF a \in p.labels THEN [p.code[a] EXCEPT !.n = @ + CodeBase] ELSE p.code[a]]
<1> DEFINE c == p.code
           size == Cardinality(DOMAIN c)
           W(a) == BrowseWidth(c, a)
           R(a) == RelocatedCells(c, a)
           Body(t, a) ==
             IF a = size THEN [cells |-> {}, complete |-> TRUE]
             ELSE IF W(a) = 0 THEN [cells |-> {}, complete |-> FALSE]
             ELSE LET rest == t[a + W(a)] IN [rest EXCEPT !.cells = @ \cup R(a)]
           Browses(t) == t = [a \in 0..size |-> Body(t, a)]
           Stop == p.starts \cup {size}
           \* the instructions from a on, up to the first one that is not known
           Known(a) == {b \in p.starts : a <= b /\ \A x \in p.starts : a <= x /\ x <= b => W(x) # 0}
           Closed(a) == IF a \in Stop
                        THEN [cells |-> UNION {R(b) : b \in Known(a)},
                              complete |-> \A b \in p.starts : a <= b => W(b) # 0]
                        ELSE [cells |-> {}, complete |-> FALSE]
           F == [a \in 0..size |-> Closed(a)]
           found == (CHOOSE t : Browses(t))[0]
<1>1. /\ BrowseRelocate(p.code).complete = found.complete
      /\ BrowseRelocate(p.code).code =
           [a \in DOMAIN c |-> IF a \in found.cells THEN [c[a] EXCEPT !.n = @ + CodeBase] ELSE c[a]]
  BY DEF BrowseRelocate
<1>2. /\ size \in Nat
      /\ p.starts \subseteq 0..(size - 1)
      /\ 0 \in p.starts
      /\ \A a \in 0..(size - 1) : a \notin p.starts => W(a) = 0
  BY DEF CodeCompiled
<1>3. ASSUME NEW a \in p.starts, W(a) # 0
      PROVE  /\ a + W(a) \in Stop /\ a + W(a) > a /\ W(a) \in Nat
             /\ \A b \in p.starts : b <= a \/ b >= a + W(a)
  <2>1. /\ a + W(a) \in Stop /\ W(a) \in Nat
        /\ \A b \in p.starts : b <= a \/ b >= a + W(a)
    BY <1>3 DEF CodeCompiled
  <2> HIDE DEF W, size
  <2> QED BY <2>1, <1>2, <1>3
<1> HIDE DEF c, size, W, R
<1>4. ASSUME NEW a \in 0..size
      PROVE  Closed(a) = Body(F, a)
  <2>1. CASE a = size
    <3>1. Known(a) = {} /\ a \in Stop /\ \A b \in p.starts : ~(a <= b)
      BY <2>1, <1>2
    <3>2. UNION {R(b) : b \in {}} = {}
      OBVIOUS
    <3> HIDE DEF Known
    <3> QED BY <3>1, <3>2, <2>1
  <2>2. CASE a # size /\ W(a) = 0
    <3>1. Body(F, a) = [cells |-> {}, complete |-> FALSE]
      BY <2>2
    <3>2. a \in p.starts => Known(a) = {}
      BY <2>2, <1>2
    <3>3. UNION {R(b) : b \in {}} = {}
      OBVIOUS
    <3>4. a \in p.starts => a <= a
      BY <1>2
    <3>5. CASE a \in p.starts
      <4> HIDE DEF Known
      <4> QED BY <3>1, <3>2, <3>3, <3>4, <3>5, <2>2
    <3> QED BY <3>1, <3>5, <2>2
  <2>3. CASE a # size /\ W(a) # 0
    <3> DEFINE next == a + W(a)
    <3>1. a \in p.starts
      BY <2>3, <1>2
    <3>2. next \in Stop /\ next > a /\ next \in 0..size /\ \A b \in p.starts : b <= a \/ b >= next
      BY <1>2, <1>3, <2>3, <3>1
    <3> HIDE DEF next
    <3>3. \A b \in p.starts : b \in Int /\ (a <= b <=> b = a \/ next <= b)
      BY <3>1, <3>2, <1>2
    <3>4. (\A b \in p.starts : a <= b => W(b) # 0) <=> \A b \in p.starts : next <= b => W(b) # 0
      BY <3>3, <2>3
    <3>5. Known(a) = {a} \cup Known(next)
      <4>1. ASSUME NEW b \in p.starts
            PROVE  b \in Known(a) <=> b = a \/ b \in Known(next)
        <5>1. CASE b = a
          <6>1. \A x \in p.starts : a <= x /\ x <= a => x = a
            BY <3>3, <1>2, <3>1
          <6> QED BY <5>1, <6>1, <3>1, <3>3, <2>3
        <5>2. CASE b # a
          <6>1. a <= b <=> next <= b
            BY <3>3, <5>2
          <6>2. next <= b => a <= b
            BY <6>1
          <6>3. \A x \in p.starts : (a <= x /\ x <= b) <=> (x = a /\ a <= b) \/ (next <= x /\ x <= b)
            BY <3>3
          <6> QED BY <6>1, <6>3, <5>2, <2>3
        <5> QED BY <5>1, <5>2
      <4>2. a \in p.starts /\ Known(a) \subseteq p.starts /\ Known(next) \subseteq p.starts
        BY <3>1
      <4> HIDE DEF Known
      <4> QED BY <4>1, <4>2
    <3> DEFINE cells == UNION {R(b) : b \in Known(next)}
               complete == \A b \in p.starts : next <= b => W(b) # 0
    <3>6. UNION {R(b) : b \in {a} \cup Known(next)} = cells \cup R(a)
      <4> DEFINE all == UNION {R(b) : b \in {a} \cup Known(next)}
      <4> HIDE DEF Known
      <4>1. \A x : x \in all <=> \E b \in {a} \cup Known(next) : x \in R(b)
        OBVIOUS
      <4>2. \A x : x \in cells <=> \E b \in Known(next) : x \in R(b)
        OBVIOUS
      <4>3. \A x : x \in all <=> x \in cells \cup R(a)
        BY <4>1, <4>2
      <4> HIDE DEF all, cells
      <4>4. all = cells \cup R(a)
        BY <4>3
      <4> QED BY <4>4 DEF all
    <3>7. F[next] = [cells |-> cells, complete |-> complete]
      BY <3>2
    <3>8. Body(F, a) = [F[next] EXCEPT !.cells = @ \cup R(a)]
      BY <2>3 DEF next
    <3> HIDE DEF F, Known, Body, cells, complete
    <3>9. Body(F, a) = [cells |-> cells \cup R(a), complete |-> complete]
      <4>1. \A X, Y, Z : [[cells |-> X, complete |-> Y] EXCEPT !.cells = @ \cup Z]
                          = [cells |-> X \cup Z, complete |-> Y]
        OBVIOUS
      <4> QED BY <3>7, <3>8, <4>1
    <3>10. Closed(a) = [cells |-> cells \cup R(a), complete |-> complete]
      BY <3>1, <3>4, <3>5, <3>6 DEF complete
    <3> QED BY <3>9, <3>10
  <2> QED BY <2>1, <2>2, <2>3
<1>5. Browses(CHOOSE t : Browses(t))
  <2>1. Browses(F)
    <3> HIDE DEF Body, Closed
    <3> QED BY <1>4
  <2> HIDE DEF Browses, F
  <2> QED BY <2>1
<1>6. ASSUME NEW t, Browses(t)
      PROVE  t[0] = Closed(0)
  <2> DEFINE Wrong == {m \in Nat : \E a \in 0..size : m = size - a /\ t[a] # Closed(a)}
  <2>1. \A a \in 0..size : t[a] = Body(t, a)
    <3> HIDE DEF Body
    <3> QED BY <1>6
  <2>2. SUFFICES ASSUME t[0] # Closed(0)
                 PROVE  FALSE
    OBVIOUS
  <2>3. size \in Wrong
    <3> HIDE DEF Closed
    <3> QED BY <2>2, <1>2
  <2>4. PICK m \in Wrong : \A k \in Wrong : m <= k
    <3> HIDE DEF Closed
    <3> QED BY <2>3, MinExists
  <2>5. PICK a \in 0..size : m = size - a /\ t[a] # Closed(a)
    BY <2>4
  <2>6. a # size /\ W(a) # 0
    BY <2>1, <2>5, <1>4
  <2>7. a \in p.starts
    BY <2>6, <1>2
  <2>8. a + W(a) \in 0..size /\ a + W(a) > a
    BY <1>2, <1>3, <2>6, <2>7
  <2>9. t[a + W(a)] = Closed(a + W(a))
    <3> DEFINE next == a + W(a)
    <3> HIDE DEF Closed, next
    <3>1. next \in 0..size /\ next > a
      BY <2>8 DEF next
    <3>2. size - next \in Nat /\ size - next < m
      BY <3>1, <2>5, <1>2
    <3>3. ~(size - next \in Wrong)
      BY <3>2, <2>4, <1>2
    <3>4. t[next] = Closed(next)
      BY <3>1, <3>2, <3>3
    <3> QED BY <3>4 DEF next
  <2>10. t[a + W(a)] = F[a + W(a)]
    <3> HIDE DEF Closed
    <3> QED BY <2>8, <2>9
  <2>11. Body(t, a) = Body(F, a)
    <3> HIDE DEF F
    <3> QED BY <2>10
  <2> HIDE DEF Body, Closed, F
  <2> QED BY <2>1, <2>5, <2>11, <1>4
<1>7. found = Closed(0)
  <2> HIDE DEF Browses, Closed
  <2> QED BY <1>5, <1>6
<1>8. \A b \in p.starts : W(b) # 0
  <2>1. found.complete
    BY <1>1
  <2> DEFINE Y == \A b \in p.starts : 0 <= b => W(b) # 0
  <2>2. Closed(0) = [cells |-> UNION {R(b) : b \in Known(0)}, complete |-> Y]
    BY <1>2
  <2>3. Y
    <3> HIDE DEF Y, Closed, found
    <3> QED BY <1>7, <2>1, <2>2
  <2> QED BY <2>3, <1>2
<1>9. Known(0) = p.starts
  BY <1>8, <1>2
<1>10. found.cells = UNION {R(b) : b \in p.starts}
  <2> HIDE DEF Known, found
  <2> QED BY <1>7, <1>9, <1>2
<1>11. \A a : a \in found.cells <=> a \in p.labels
  <2>1. \A a : a \in UNION {R(b) : b \in p.starts} <=> \E b \in p.starts : a \in R(b)
    OBVIOUS
  <2> HIDE DEF found
  <2> QED BY <1>10, <2>1, LabelsOf DEF R, c
<1> HIDE DEF found
<1> QED BY <1>1, <1>11 DEF c

\* The instructions of the loaded script, and where a register that leads to one may point.
Starts == Scripts[script].starts
Stops == Starts \cup {Cardinality(DOMAIN Scripts[script].code)}
Frames == [entry : Starts, ret : Stops]

\* What the compiler sees to as well: an address that is computed is one of a function or a statement,
\* and a function returns with the frame that its caller has left on the stack.
ComputedTargets ==
  /\ At({"jump_pri", "call_pri"}) => regs.pri \in Starts
  /\ At({"sctrl"}) /\ Param = 6 => regs.pri \in Starts
  /\ ReturnsToCaller

\* The scripts are such as the compiler writes them.
AllCompiled == \A s \in DOMAIN Scripts : CodeCompiled(Scripts[s]) /\ EntriesCompiled(Scripts[s])

\* Every address of the code that is held anywhere is that of an instruction, or the end.
AddressInv ==
  /\ where # "host" => regs.cip \in Stops /\ calls \in Seq(Frames)
  /\ amx.reloc => amx.cip \in Stops
  /\ script # NoScript => slept \in Seq(Frames)
  /\ script = NoScript => slept = <<>>
  /\ \A i \in DOMAIN callers : i > 1 => callers[i].regs.cip \in Stops /\ callers[i].calls \in Seq(Frames)

\* No script runs, or sleeps, that is not relocated or has a native that is not bound.
BoundInv ==
  /\ script # NoScript => script \in DOMAIN Scripts
  /\ script = NoScript => ~amx.reloc /\ ~amx.ntvreg
  /\ script # NoScript =>
       /\ natives = [i \in DOMAIN Scripts[script].natives |-> natives[i]]
       /\ \A i \in DOMAIN natives : natives[i] \in {NoNative, Scripts[script].natives[i]}
  /\ amx.ntvreg => natives = Scripts[script].natives
  /\ where # "host" => amx.reloc /\ amx.ntvreg
  /\ script # NoScript /\ result = ErrSleep => amx.reloc /\ amx.ntvreg

Patched == {a \in DOMAIN code : code[a].op # Scripts[script].code[a].op}

\* The code is the compiled one, relocated, but for the calls of natives that are patched.
SegmentInv ==
  amx.reloc =>
    /\ DOMAIN code = DOMAIN Scripts[script].code
    /\ \A a \in Patched : /\ Scripts[script].code[a].op = "sysreq_c"
                          /\ code[a].op = "sysreq_d"
                          /\ code[a + 1].n = Scripts[script].natives[Scripts[script].code[a + 1].n + 1]
    /\ \A a \in DOMAIN code \ (Patched \cup {p + 1 : p \in Patched}) :
         code[a] = [Scripts[script].code[a] EXCEPT !.n = IF a \in Scripts[script].labels THEN @ + CodeBase ELSE @]

FaithInv == AddressInv /\ BoundInv /\ SegmentInv

-----------------------------------------------------------------------------
(* The cells of an instruction.                                            *)

\* No opcode belongs to two groups, so that the width of an instruction is that of its group.
LEMMA WidthOf ==
  ASSUME NEW c, NEW a
  PROVE  /\ c[a].op \in NoParam => BrowseWidth(c, a) = 1
         /\ c[a].op \in OneParam \cup Relocated \cup {"symtag"} => BrowseWidth(c, a) = 2
         /\ c[a].op \in {"line", "srange"} => BrowseWidth(c, a) = 3
         /\ c[a].op \in {"file", "symbol"} => BrowseWidth(c, a) = 2 + c[a + 1].n
<1> DEFINE op == c[a].op
           Two == OneParam \cup Relocated \cup {"symtag"}
<1>1. DOMAIN Conditions = {"jeq", "jneq", "jless", "jleq", "jgrtr", "jgeq", "jsless", "jsleq", "jsgrtr", "jsgeq"}
  BY DEF Conditions
<1>2. \A o \in NoParam : o \notin Two /\ o \notin {"line", "srange", "file", "symbol", "casetbl"}
  BY <1>1 DEF NoParam, OneParam, Relocated, Relations
<1>3. \A o \in Two : o \notin {"line", "srange", "file", "symbol", "casetbl"}
  BY <1>1 DEF OneParam, Relocated
<1>4. BrowseWidth(c, a) = CASE op \in NoParam -> 1
                            [] op \in Two -> 2
                            [] op \in {"line", "srange"} -> 3
                            [] op \in {"file", "symbol"} -> 2 + c[a + 1].n
                            [] op = "casetbl" -> 3 + 2 * c[a + 1].n
                            [] OTHER -> 0
  BY DEF BrowseWidth
<1> HIDE DEF op, Two
<1>5. op \in NoParam => BrowseWidth(c, a) = 1
  BY <1>2, <1>4
<1>6. op \in Two => BrowseWidth(c, a) = 2
  BY <1>2, <1>3, <1>4
<1>7. /\ op \in {"line", "srange"} => BrowseWidth(c, a) = 3
      /\ op \in {"file", "symbol"} => BrowseWidth(c, a) = 2 + c[a + 1].n
  BY <1>2, <1>3, <1>4
<1> QED BY <1>5, <1>6, <1>7 DEF op, Two

\* What the instruction at a refers to is in one of its parameters.
LEMMA WithinInstruction ==
  ASSUME NEW p, CodeCompiled(p), NEW a \in p.starts, NEW l \in RelocatedCells(p.code, a)
  PROVE  /\ BrowseWidth(p.code, a) # 0
         /\ l \in Int /\ a < l /\ l < a + BrowseWidth(p.code, a)
<1> DEFINE c == p.code
           w == BrowseWidth(c, a)
<1>1. a \in Nat
  BY DEF CodeCompiled
<1>2. CASE c[a].op \in Relocated
  <2>1. w = 2
    BY <1>2 DEF BrowseWidth, NoParam, OneParam, Relocated, Conditions, Relations
  <2>2. l = a + 1
    BY <1>2 DEF RelocatedCells
  <2> QED BY <1>1, <2>1, <2>2
<1>3. CASE c[a].op \notin Relocated
  <2>1. c[a].op = "casetbl" /\ \E i \in 0..c[a + 1].n : l = a + 2 + 2 * i
    BY <1>3 DEF RelocatedCells
  <2>2. w = 3 + 2 * c[a + 1].n
    BY <2>1 DEF BrowseWidth, NoParam, OneParam, Relocated, Conditions, Relations
  <2>3. c[a + 1].n \in Nat
    BY <2>1 DEF CodeCompiled
  <2> HIDE DEF c, w
  <2>4. w # 0 /\ l \in Int /\ a < l /\ l < a + w
    BY <1>1, <2>1, <2>2, <2>3
  <2> QED BY <2>4 DEF c, w
<1> QED BY <1>2, <1>3

\* A cell between two instructions belongs to the first.
LEMMA ParameterCell ==
  ASSUME NEW p, CodeCompiled(p), NEW a \in p.starts, BrowseWidth(p.code, a) # 0,
         NEW l \in Int, a < l, l < a + BrowseWidth(p.code, a)
  PROVE  /\ l \in DOMAIN p.code /\ l \notin p.starts
         /\ l \in p.labels <=> l \in RelocatedCells(p.code, a)
         /\ \A b \in p.starts : b # a => l \notin b..(b + BrowseWidth(p.code, b) - 1)
<1> DEFINE size == Cardinality(DOMAIN p.code)
           W(b) == BrowseWidth(p.code, b)
<1>1. /\ size \in Nat /\ p.starts \subseteq 0..(size - 1) /\ DOMAIN p.code = 0..(size - 1)
      /\ \A b \in p.starts : W(b) # 0 => /\ W(b) \in Nat /\ b + W(b) <= size
                                        /\ \A x \in p.starts : x <= b \/ x >= b + W(b)
  <2>1. size \in Nat /\ p.starts \subseteq DOMAIN p.code /\ DOMAIN p.code = 0..(size - 1)
    BY DEF CodeCompiled
  <2>2. ASSUME NEW b \in p.starts, W(b) # 0
        PROVE  /\ W(b) \in Nat
               /\ b + W(b) \in p.starts \cup {size}
               /\ \A x \in p.starts : x <= b \/ x >= b + W(b)
    BY <2>2 DEF CodeCompiled
  <2> HIDE DEF size, W
  <2>3. \A b \in p.starts : W(b) # 0 => b + W(b) <= size
    BY <2>1, <2>2
  <2> QED BY <2>1, <2>2, <2>3
<1> HIDE DEF size, W
<1>2. /\ W(a) \in Nat /\ a + W(a) <= size /\ a < l /\ l < a + W(a) /\ a \in Nat
      /\ \A x \in p.starts : x <= a \/ x >= a + W(a)
  BY <1>1 DEF W
<1>3. l \in 0..(size - 1) /\ l \notin p.starts
  BY <1>1, <1>2
<1>4. ASSUME NEW b \in p.starts, b # a
      PROVE  l \notin b..(b + W(b) - 1)
  <2>1. b \in Nat /\ (W(b) = 0 \/ (W(b) \in Nat /\ (a <= b \/ a >= b + W(b)))) /\ (b <= a \/ b >= a + W(a))
    BY <1>1
  <2> QED BY <1>2, <1>4, <2>1
<1>5. ASSUME NEW b \in p.starts, l \in RelocatedCells(p.code, b)
      PROVE  b = a
  <2>1. W(b) # 0 /\ b < l /\ l < b + W(b) /\ b \in Nat
    BY <1>5, <1>1, WithinInstruction DEF W
  <2>2. W(b) \in Nat
    BY <2>1, <1>1
  <2> QED BY <1>4, <2>1, <2>2
<1>6. l \in p.labels <=> l \in RelocatedCells(p.code, a)
  BY <1>5, LabelsOf
<1> QED BY <1>1, <1>3, <1>4, <1>6 DEF W

\* The code of an instruction that is not patched.
LEMMA Unpatched ==
  ASSUME SegmentInv, amx.reloc, CodeCompiled(Scripts[script]), NEW a \in Starts, a \notin Patched
  PROVE  LET c == Scripts[script].code IN
         /\ a \in DOMAIN code
         /\ code[a].op = c[a].op
         /\ \A l \in Int :
              a < l /\ l < a + BrowseWidth(c, a) /\ BrowseWidth(c, a) # 0 =>
                code[l] = [c[l] EXCEPT !.n = IF l \in RelocatedCells(c, a) THEN @ + CodeBase ELSE @]
<1> DEFINE c == Scripts[script].code
           W(b) == BrowseWidth(c, b)
<1>1. DOMAIN code = DOMAIN c /\ Starts \subseteq DOMAIN c
  BY DEF SegmentInv, CodeCompiled, Starts
<1>2. a \in DOMAIN code /\ code[a].op = c[a].op
  BY <1>1 DEF Patched
<1>3. ASSUME NEW l \in Int, a < l, l < a + W(a), W(a) # 0
      PROVE  code[l] = [c[l] EXCEPT !.n = IF l \in RelocatedCells(c, a) THEN @ + CodeBase ELSE @]
  <2>1. /\ l \in DOMAIN c /\ l \notin Starts
        /\ l \in Scripts[script].labels <=> l \in RelocatedCells(c, a)
        /\ \A b \in Starts : b # a => l \notin b..(b + W(b) - 1)
    BY <1>3, ParameterCell DEF Starts
  <2>2. ASSUME NEW b \in Patched
        PROVE  l # b /\ l # b + 1
    <3>1. c[b].op = "sysreq_c" /\ b \in DOMAIN c
      BY <2>2, <1>1 DEF SegmentInv, Patched
    <3>2. W(b) = 2
      BY <3>1 DEF BrowseWidth, NoParam, OneParam, Relations
    <3>3. b \in Starts /\ b \in Int
      BY <3>1, <3>2 DEF CodeCompiled, Starts
    <3>4. l \notin b..(b + W(b) - 1)
      BY <2>1, <2>2, <3>3
    <3> HIDE DEF W
    <3> QED BY <3>2, <3>3, <3>4
  <2>3. l \in DOMAIN code \ (Patched \cup {b + 1 : b \in Patched})
    BY <2>1, <2>2, <1>1
  <2> QED BY <2>1, <2>3 DEF SegmentInv
<1> QED BY <1>2, <1>3

-----------------------------------------------------------------------------
(* What the steps have in common.                                          *)

\* A run stands on an instruction of its script.
LEMMA Standing ==
  ASSUME AllCompiled, IInv, FaithInv, WithinSegments, where = "run"
  PROVE  /\ CodeCompiled(Scripts[script]) /\ EntriesCompiled(Scripts[script])
         /\ script \in DOMAIN Scripts /\ script # NoScript
         /\ amx.reloc /\ amx.ntvreg /\ natives = Scripts[script].natives
         /\ regs.cip \in Starts /\ regs.cip \in Nat
         /\ calls \in Seq(Frames)
<1>1. script # NoScript
  BY DEF IInv, AmxInv
<1>2. /\ script \in DOMAIN Scripts /\ amx.reloc /\ amx.ntvreg /\ natives = Scripts[script].natives
  BY <1>1 DEF FaithInv, BoundInv
<1>3. CodeCompiled(Scripts[script]) /\ EntriesCompiled(Scripts[script])
  BY <1>2 DEF AllCompiled
<1>4. regs.cip \in Stops /\ calls \in Seq(Frames)
  BY DEF FaithInv, AddressInv
<1>5. regs.cip \in DOMAIN Scripts[script].code
  BY <1>2 DEF WithinSegments, FaithInv, SegmentInv
<1>6. regs.cip \in Starts /\ regs.cip \in Nat
  BY <1>3, <1>4, <1>5 DEF CodeCompiled, Starts, Stops
<1> QED BY <1>1, <1>2, <1>3, <1>4, <1>6

\* A value is a cell of the code, with the fields of one.
LEMMA CellKnown ==
  ASSUME script \in DOMAIN Scripts, NEW a \in DOMAIN Scripts[script].code
  PROVE  /\ Scripts[script].code[a] \in [op : STRING, reg : {"pri", "alt"}, mode : STRING, n : Int]
         /\ CodeBase \in Nat
BY ScriptAssumption

\* Behind an instruction is another, and its parameter is the one the compiler has written.
LEMMA NextInstruction ==
  ASSUME AllCompiled, IInv, FaithInv, WithinSegments, where = "run"
  PROVE  LET c == Scripts[script].code IN
         /\ Instr.op \in NoParam => regs.cip + 1 \in Stops
         /\ Instr.op \in OneParam \cup Relocated \cup {"symtag"} => regs.cip + 2 \in Stops
         /\ Instr.op \in {"line", "srange"} => regs.cip + 3 \in Stops
         /\ Instr.op = "symbol" => regs.cip + (2 + Param) \in Stops
         /\ Instr.op \in Relocated => /\ Param - CodeBase = c[regs.cip + 1].n
                                      /\ c[regs.cip + 1].n \in Starts
         /\ Instr.op \in OneParam => regs.cip + 1 \in DOMAIN code /\ regs.cip + 1 \notin Starts
         /\ Instr.op \in OneParam \ {"sysreq_d"} => Param = c[regs.cip + 1].n
         /\ Instr.op # "sysreq_d" => c[regs.cip].op = Instr.op /\ regs.cip \notin Patched
<1> DEFINE p == Scripts[script]
           c == p.code
           cip == regs.cip
           W == BrowseWidth(c, cip)
<1>1. /\ CodeCompiled(p) /\ script \in DOMAIN Scripts /\ amx.reloc
      /\ cip \in Starts /\ cip \in Nat
  BY Standing
<1>2. /\ DOMAIN code = DOMAIN c /\ cip \in DOMAIN code
      /\ cip \in Patched => Instr.op = "sysreq_d" /\ c[cip].op = "sysreq_c"
  BY <1>1 DEF FaithInv, SegmentInv, CodeCompiled, Starts, Instr
<1>3. \/ Instr.op = c[cip].op
      \/ Instr.op = "sysreq_d" /\ c[cip].op = "sysreq_c"
  BY <1>2 DEF Patched, Instr
<1>4. /\ W # 0 => W \in Nat /\ cip + W \in Stops
  BY <1>1 DEF CodeCompiled, Starts, Stops
<1>5. /\ Instr.op \in NoParam => W = 1
      /\ Instr.op \in OneParam \cup Relocated \cup {"symtag"} => W = 2
      /\ Instr.op \in {"line", "srange"} => W = 3
      /\ Instr.op = "symbol" => W = 2 + c[cip + 1].n
  <2>1. Instr.op \in NoParam => W = 1
    <3>1. "sysreq_d" \notin NoParam
      BY DEF NoParam, Relations
    <3> QED BY <1>3, <3>1, WidthOf
  <2>2. Instr.op \in OneParam \cup Relocated \cup {"symtag"} => W = 2
    <3>1. "sysreq_c" \in OneParam
      BY DEF OneParam
    <3> QED BY <1>3, <3>1, WidthOf
  <2>3. Instr.op \in {"line", "srange"} => W = 3
    BY <1>3, WidthOf
  <2>4. Instr.op = "symbol" => W = 2 + c[cip + 1].n
    BY <1>3, WidthOf
  <2> QED BY <2>1, <2>2, <2>3, <2>4
<1>6. Instr.op # "sysreq_d" => c[cip].op = Instr.op /\ cip \notin Patched
  BY <1>2, <1>3
<1>7. ASSUME W # 0, cip + 1 < cip + W
      PROVE  cip + 1 \in DOMAIN code /\ cip + 1 \notin Starts
  BY <1>1, <1>2, <1>7, ParameterCell DEF Starts
<1>8. ASSUME W # 0, cip + 1 < cip + W, Instr.op # "sysreq_d"
      PROVE  /\ cip + 1 \in DOMAIN c /\ c[cip + 1].n \in Int
             /\ Param = c[cip + 1].n + IF cip + 1 \in RelocatedCells(c, cip) THEN CodeBase ELSE 0
  <2>1. code[cip + 1] = [c[cip + 1] EXCEPT !.n = IF cip + 1 \in RelocatedCells(c, cip) THEN @ + CodeBase ELSE @]
    <3>1. cip + 1 \in Int /\ cip < cip + 1 /\ SegmentInv
      BY <1>1 DEF FaithInv
    <3>2. \A l \in Int : cip < l /\ l < cip + W /\ W # 0 =>
            code[l] = [c[l] EXCEPT !.n = IF l \in RelocatedCells(c, cip) THEN @ + CodeBase ELSE @]
      BY <1>1, <1>6, <1>8, <3>1, Unpatched
    <3> HIDE DEF W, c, cip
    <3> QED BY <1>8, <3>1, <3>2
  <2>2. cip + 1 \in DOMAIN c
    BY <1>2, <1>7, <1>8
  <2>3. c[cip + 1] \in [op : STRING, reg : {"pri", "alt"}, mode : STRING, n : Int] /\ CodeBase \in Nat
    BY <1>1, <2>2, CellKnown
  <2> QED BY <2>1, <2>2, <2>3 DEF Param
<1>9. Instr.op \in Relocated => /\ Param - CodeBase = c[cip + 1].n
                                /\ c[cip + 1].n \in Starts
  <2> SUFFICES ASSUME Instr.op \in Relocated
               PROVE  /\ Param - CodeBase = c[cip + 1].n
                      /\ c[cip + 1].n \in Starts
    OBVIOUS
  <2>1. Instr.op # "sysreq_d"
    BY DEF Relocated, Conditions
  <2>2. cip + 1 \in RelocatedCells(c, cip)
    BY <1>6, <2>1 DEF RelocatedCells
  <2>3. cip + 1 \in p.labels
    BY <1>1, <2>2, LabelsOf DEF Starts
  <2>4. c[cip + 1].n \in Starts
    BY <1>1, <2>3 DEF CodeCompiled, Starts
  <2>5. CodeBase \in Nat
    BY ScriptAssumption
  <2>6. W # 0 /\ cip + 1 < cip + W
    BY <1>1, <1>5
  <2> HIDE DEF W, cip, c
  <2> QED BY <1>8, <2>1, <2>2, <2>4, <2>5, <2>6
<1>10. Instr.op \in (OneParam \cup {"symbol"}) \ {"sysreq_d"} => cip + 1 \notin RelocatedCells(c, cip)
  <2>1. \A op \in OneParam \cup {"symbol"} : op \notin Relocated /\ op # "casetbl"
    BY DEF OneParam, Relocated, Conditions
  <2> QED BY <1>6, <2>1 DEF RelocatedCells
<1>11. Instr.op \in OneParam => cip + 1 \in DOMAIN code /\ cip + 1 \notin Starts
  BY <1>1, <1>5, <1>7
<1>12. Instr.op \in OneParam \ {"sysreq_d"} => Param = c[cip + 1].n
  <2> SUFFICES ASSUME Instr.op \in OneParam \ {"sysreq_d"}
               PROVE  Param = c[cip + 1].n
    OBVIOUS
  <2>1. W # 0 /\ cip + 1 < cip + W
    BY <1>1, <1>5
  <2> HIDE DEF W, cip, c
  <2> QED BY <1>8, <1>10, <2>1
<1>13. Instr.op = "symbol" => cip + (2 + Param) \in Stops
  <2> SUFFICES ASSUME Instr.op = "symbol"
               PROVE  cip + (2 + Param) \in Stops
    OBVIOUS
  <2>1. W = 2 + c[cip + 1].n
    BY <1>5
  <2>2. c[cip + 1].n \in Nat
    BY <1>1, <1>6 DEF CodeCompiled, Starts
  <2> HIDE DEF W, c
  <2>3. W # 0 /\ cip + 1 < cip + W
    BY <1>1, <2>1, <2>2
  <2>4. Param = c[cip + 1].n
    BY <1>8, <1>10, <2>2, <2>3
  <2> QED BY <1>1, <1>4, <2>1, <2>2, <2>3, <2>4
<1>14. /\ Instr.op \in NoParam => cip + 1 \in Stops
       /\ Instr.op \in OneParam \cup Relocated \cup {"symtag"} => cip + 2 \in Stops
       /\ Instr.op \in {"line", "srange"} => cip + 3 \in Stops
  <2> HIDE DEF W
  <2> QED BY <1>4, <1>5
<1> QED BY <1>6, <1>9, <1>11, <1>12, <1>13, <1>14

\* What does not touch the image, and leaves the AMX structure with an address of the code, keeps it faithful.
LEMMA ImageKept ==
  ASSUME FaithInv, UNCHANGED image, amx'.reloc = amx.reloc, amx'.ntvreg = amx.ntvreg,
         amx'.cip = amx.cip \/ amx'.cip \in Stops
  PROVE  /\ Starts' = Starts /\ Stops' = Stops /\ Frames' = Frames
         /\ SegmentInv'
         /\ amx'.reloc => amx'.cip \in Stops
         /\ script' # NoScript => script' \in DOMAIN Scripts
         /\ script' = NoScript => ~amx'.reloc /\ ~amx'.ntvreg
         /\ script' # NoScript =>
              /\ natives' = [i \in DOMAIN Scripts[script'].natives |-> natives'[i]]
              /\ \A i \in DOMAIN natives' : natives'[i] \in {NoNative, Scripts[script'].natives[i]}
         /\ amx'.ntvreg => natives' = Scripts[script'].natives
<1>1. script' = script /\ code' = code /\ natives' = natives
  BY DEF image
<1>2. Starts' = Starts /\ Stops' = Stops /\ Frames' = Frames
  BY <1>1 DEF Starts, Stops, Frames
<1>3. SegmentInv'
  BY <1>1 DEF FaithInv, SegmentInv, Patched
<1>4. amx'.reloc => amx'.cip \in Stops
  BY DEF FaithInv, AddressInv
<1> QED BY <1>1, <1>2, <1>3, <1>4 DEF FaithInv, BoundInv

\* A run goes on at r.cip.
LEMMA GoFaithful ==
  ASSUME IInv, FaithInv, where = "run", NEW r, Go(r), r.cip \in Stops, calls' \in Seq(Frames)
  PROVE  FaithInv'
<1>1. /\ UNCHANGED image /\ UNCHANGED <<where, callers, result, slept>>
      /\ regs' = r /\ amx' = [amx EXCEPT !.cip = r.cip]
  BY DEF Go, control
<1>2. amx'.reloc = amx.reloc /\ amx'.ntvreg = amx.ntvreg /\ amx'.cip \in Stops
  BY <1>1 DEF IInv, AmxInv, AmxFields
<1>3. script' = script
  BY <1>1 DEF image
<1>4. Starts' = Starts /\ Stops' = Stops /\ Frames' = Frames
  BY <1>1, <1>2, ImageKept
<1>5. AddressInv'
  BY <1>1, <1>2, <1>3, <1>4 DEF FaithInv, AddressInv
<1>6. BoundInv'
  BY <1>1, <1>2, ImageKept, <1>3 DEF FaithInv, BoundInv
<1>7. SegmentInv'
  BY <1>1, <1>2, ImageKept
<1> QED BY <1>5, <1>6, <1>7 DEF FaithInv

\* It goes back to its caller, which goes on where it had been.
LEMMA LeaveFaithful ==
  ASSUME IInv, FaithInv, where # "host", NEW m, NEW a, NEW err, LeaveWith(m, a, err),
         a.reloc = amx.reloc, a.ntvreg = amx.ntvreg, a.cip = amx.cip \/ a.cip \in Stops
  PROVE  FaithInv'
<1> DEFINE c == Last(callers)
<1>1. /\ UNCHANGED image /\ amx' = a /\ result' = err
      /\ where' = c.where /\ regs' = c.regs /\ calls' = c.calls
      /\ callers' = Front(callers)
      /\ slept' = calls \/ slept' = slept
  BY DEF LeaveWith
<1>2. script' = script /\ script # NoScript
  BY <1>1 DEF image, IInv, AmxInv
<1>3. Starts' = Starts /\ Stops' = Stops /\ Frames' = Frames
  BY <1>1, ImageKept
<1>4. /\ Len(callers) \in Nat \ {0}
      /\ DOMAIN callers = 1..Len(callers)
      /\ DOMAIN callers' = 1..(Len(callers) - 1)
      /\ \A i \in DOMAIN callers' : callers'[i] = callers[i]
      /\ c = callers[Len(callers)]
  BY <1>1, CallersFront
<1>5. c.where # "host" => Len(callers) > 1
  BY <1>4 DEF IInv, CallersInv, CallerInv
<1>6. amx.reloc /\ amx.ntvreg
  BY DEF FaithInv, BoundInv
<1>7. AddressInv'
  <2>1. where' # "host" => regs'.cip \in Stops /\ calls' \in Seq(Frames)
    BY <1>1, <1>4, <1>5 DEF FaithInv, AddressInv
  <2>2. amx'.reloc => amx'.cip \in Stops
    BY <1>1, ImageKept
  <2>3. slept' \in Seq(Frames)
    BY <1>1, <1>2 DEF FaithInv, AddressInv
  <2>4. \A i \in DOMAIN callers' : i > 1 => callers'[i].regs.cip \in Stops /\ callers'[i].calls \in Seq(Frames)
    BY <1>4 DEF FaithInv, AddressInv
  <2> QED BY <1>2, <1>3, <2>1, <2>2, <2>3, <2>4 DEF AddressInv
<1>8. BoundInv'
  BY <1>1, <1>2, <1>6, ImageKept DEF BoundInv
<1>9. SegmentInv'
  BY <1>1, ImageKept
<1> QED BY <1>7, <1>8, <1>9 DEF FaithInv

\* An error leaves cip as it is.
LEMMA AbortFaithful ==
  ASSUME IInv, FaithInv, where # "host", NEW r, NEW err, Abort(r, err)
  PROVE  FaithInv'
<1>1. LeaveWith(mem, Aborted(r), err)
  BY DEF Abort, Leave
<1>2. Aborted(r).reloc = amx.reloc /\ Aborted(r).ntvreg = amx.ntvreg /\ Aborted(r).cip = amx.cip
  BY DEF Aborted, IInv, AmxInv, AmxFields
<1> QED BY <1>1, <1>2, LeaveFaithful

\* Nothing is called.
LEMMA StillFaithful ==
  ASSUME FaithInv, UNCHANGED image, UNCHANGED <<where, regs, callers, calls, slept>>,
         result' = result \/ result' # ErrSleep,
         amx'.reloc = amx.reloc, amx'.ntvreg = amx.ntvreg, amx'.cip = amx.cip
  PROVE  FaithInv'
<1>1. script' = script
  BY DEF image
<1>2. Starts' = Starts /\ Stops' = Stops /\ Frames' = Frames
  BY ImageKept
<1>3. AddressInv'
  BY <1>1, <1>2, ImageKept DEF FaithInv, AddressInv
<1>4. BoundInv'
  BY <1>1, ImageKept DEF FaithInv, BoundInv
<1>5. SegmentInv'
  BY ImageKept
<1> QED BY <1>3, <1>4, <1>5 DEF FaithInv

\* amx_Exec begins a run, or is refused the stack.
LEMMA StartFaithful ==
  ASSUME IInv, FaithInv, script # NoScript, where # "run", amx.reloc, amx.ntvreg,
         NEW r, NEW m, NEW h \in Seq(Frames), Start(r, m, h), r.cip \in Stops,
         UNCHANGED image, slept' = slept \/ slept' = <<>>
  PROVE  FaithInv'
<1>1. script' = script
  BY DEF image
<1>2. DOMAIN amx = AmxFields
  BY DEF IInv, AmxInv
<1>3. slept' \in Seq(Frames)
  <2>1. <<>> \in Seq(Frames)
    OBVIOUS
  <2> QED BY <2>1 DEF FaithInv, AddressInv
<1>4. CASE Crowded(r)
  <2>1. /\ amx' = [Aborted(r) EXCEPT !.paramcount = 0]
        /\ UNCHANGED <<where, regs, callers, calls>>
    BY <1>4 DEF Start
  <2>2. amx'.reloc = amx.reloc /\ amx'.ntvreg = amx.ntvreg /\ amx'.cip = amx.cip
    BY <1>2, <2>1 DEF Aborted, AmxFields
  <2>3. Starts' = Starts /\ Stops' = Stops /\ Frames' = Frames /\ SegmentInv'
    BY <2>2, ImageKept
  <2>4. AddressInv'
    BY <1>1, <1>3, <2>1, <2>2, <2>3 DEF FaithInv, AddressInv
  <2>5. BoundInv'
    BY <1>1, <2>1, <2>2, ImageKept DEF FaithInv, BoundInv
  <2> QED BY <2>3, <2>4, <2>5 DEF FaithInv
<1>5. CASE ~Crowded(r)
  <2>1. /\ amx' = [amx EXCEPT !.cip = r.cip, !.paramcount = 0]
        /\ regs' = r /\ where' = "run" /\ callers' = Append(callers, Caller) /\ calls' = h
    BY <1>5 DEF Start
  <2>2. amx'.reloc = amx.reloc /\ amx'.ntvreg = amx.ntvreg /\ amx'.cip \in Stops
    BY <1>2, <2>1 DEF AmxFields
  <2>3. Starts' = Starts /\ Stops' = Stops /\ Frames' = Frames /\ SegmentInv'
    BY <2>2, ImageKept
  <2>4. \A i \in DOMAIN callers' : i > 1 => callers'[i].regs.cip \in Stops /\ callers'[i].calls \in Seq(Frames)
    <3>1. /\ Len(callers) \in Nat /\ DOMAIN callers = 1..Len(callers)
          /\ DOMAIN callers' = 1..(Len(callers) + 1)
          /\ \A i \in 1..Len(callers) : callers'[i] = callers[i]
          /\ callers'[Len(callers) + 1] = Caller
      BY <2>1 DEF IInv, CallersInv
    <3>2. Len(callers) # 0 => where # "host"
      BY <3>1 DEF IInv, CallersInv
    <3>3. where # "host" => Caller.regs.cip \in Stops /\ Caller.calls \in Seq(Frames)
      BY DEF Caller, FaithInv, AddressInv
    <3> QED BY <3>1, <3>2, <3>3 DEF FaithInv, AddressInv
  <2>5. AddressInv'
    BY <1>1, <1>3, <2>1, <2>2, <2>3, <2>4 DEF AddressInv
  <2>6. BoundInv'
    BY <1>1, <2>1, <2>2, ImageKept DEF BoundInv
  <2> QED BY <2>3, <2>5, <2>6 DEF FaithInv
<1> QED BY <1>4, <1>5

-----------------------------------------------------------------------------
(* The start, the host's calls and what natives push.                      *)

\* At the start there is no code.
LEMMA InitFaithful ==
  ASSUME SystemInit
  PROVE  FaithInv
<1>1. /\ script = NoScript /\ amx = ZeroAmx /\ where = "host" /\ callers = <<>> /\ slept = <<>>
  BY DEF SystemInit, Init
<1>2. ~amx.reloc /\ ~amx.ntvreg
  BY <1>1 DEF ZeroAmx
<1>3. AddressInv
  BY <1>1, <1>2 DEF AddressInv
<1>4. BoundInv
  BY <1>1, <1>2 DEF BoundInv
<1>5. SegmentInv
  BY <1>2 DEF SegmentInv
<1> QED BY <1>3, <1>4, <1>5 DEF FaithInv

\* (LoadProgram) What is loaded is relocated where the source says, or marked as not relocated.
LEMMA LoadProgramFaithful ==
  ASSUME AllCompiled, IInv, FaithInv, NEW s \in DOMAIN Scripts, LoadProgram(s)
  PROVE  FaithInv'
<1> DEFINE p == Scripts[s]
           browsed == BrowseRelocate(p.code)
<1>1. /\ where = "host" /\ script = NoScript /\ script' = s /\ s # NoScript
      /\ code' = browsed.code /\ amx' = InitAmx(p, browsed.complete)
      /\ natives' = [i \in DOMAIN p.natives |-> NoNative]
      /\ result' = ErrNone
      /\ UNCHANGED <<where, callers, slept>>
  BY ScriptAssumption DEF LoadProgram
<1>2. CodeCompiled(p)
  BY DEF AllCompiled
<1>3. amx'.reloc = browsed.complete /\ amx'.ntvreg = FALSE /\ amx'.cip = 0
  BY <1>1 DEF InitAmx, ZeroAmx
<1>4. slept = <<>> /\ callers = <<>>
  BY <1>1 DEF FaithInv, AddressInv, IInv, CallersInv
<1>5. AddressInv'
  <2>1. 0 \in Stops'
    BY <1>1, <1>2 DEF Stops, Starts, CodeCompiled
  <2>2. <<>> \in Seq(Frames')
    OBVIOUS
  <2>3. DOMAIN callers' = {}
    BY <1>1, <1>4
  <2> QED BY <1>1, <1>3, <1>4, <2>1, <2>2, <2>3 DEF AddressInv
<1>6. BoundInv'
  BY <1>1, <1>3 DEF BoundInv, ErrNone, ErrSleep
<1>7. SegmentInv'
  <2> SUFFICES ASSUME browsed.complete
               PROVE  SegmentInv'
    BY <1>3 DEF SegmentInv
  <2>1. code' = [a \in DOMAIN p.code |->
                   IF a \in p.labels THEN [p.code[a] EXCEPT !.n = @ + CodeBase] ELSE p.code[a]]
    BY <1>1, <1>2, BrowsesAll
  <2>2. \A a \in DOMAIN p.code : p.code[a] \in [op : STRING, reg : {"pri", "alt"}, mode : STRING, n : Int]
    BY ScriptAssumption
  <2>3. Patched' = {}
    <3>1. \A a \in DOMAIN code' : code'[a].op = p.code[a].op
      BY <2>1, <2>2
    <3> QED BY <1>1, <3>1 DEF Patched
  <2>4. \A a \in DOMAIN code' : code'[a] = [p.code[a] EXCEPT !.n = IF a \in p.labels THEN @ + CodeBase ELSE @]
    BY <2>1, <2>2
  <2>5. DOMAIN code' = DOMAIN p.code
    BY <2>1
  <2> HIDE DEF p
  <2>6. p = Scripts[script']
    BY <1>1 DEF p
  <2> QED BY <2>3, <2>4, <2>5, <2>6 DEF SegmentInv
<1> QED BY <1>5, <1>6, <1>7 DEF FaithInv

\* (FreeProgram) Nothing is left of a script.
LEMMA FreeProgramFaithful ==
  ASSUME IInv, FaithInv, FreeProgram
  PROVE  FaithInv'
<1>1. /\ where = "host" /\ script' = NoScript /\ amx' = ZeroAmx /\ slept' = <<>>
      /\ UNCHANGED <<where, callers>>
  BY DEF FreeProgram
<1>2. ~amx'.reloc /\ ~amx'.ntvreg
  BY <1>1 DEF ZeroAmx
<1>3. callers' = <<>>
  BY <1>1 DEF IInv, CallersInv
<1>4. AddressInv'
  BY <1>1, <1>2, <1>3 DEF AddressInv
<1>5. BoundInv'
  BY <1>1, <1>2 DEF BoundInv
<1>6. SegmentInv'
  BY <1>2 DEF SegmentInv
<1> QED BY <1>4, <1>5, <1>6 DEF FaithInv

\* (Register) A native is bound to the entry it has in the script, and none is bound again.
LEMMA RegisterFaithful ==
  ASSUME AllCompiled, IInv, FaithInv, NEW list, Register(list)
  PROVE  FaithInv'
<1> DEFINE theirs == Scripts[script].natives
           bound == [i \in DOMAIN natives |->
                       IF natives[i] = NoNative /\ theirs[i] \in list THEN theirs[i] ELSE natives[i]]
           all == \A i \in DOMAIN bound : bound[i] # NoNative
<1>1. /\ where = "host" /\ script # NoScript /\ natives' = bound
      /\ amx' = [amx EXCEPT !.ntvreg = @ \/ all]
      /\ UNCHANGED <<script, code, regs, where, callers, result, calls, slept>>
  BY DEF Register, control
<1>2. amx'.reloc = amx.reloc /\ amx'.cip = amx.cip /\ (amx'.ntvreg <=> amx.ntvreg \/ all)
  BY <1>1 DEF IInv, AmxInv, AmxFields
<1>3. /\ script \in DOMAIN Scripts
      /\ natives = [i \in DOMAIN theirs |-> natives[i]]
      /\ \A i \in DOMAIN natives : natives[i] \in {NoNative, theirs[i]}
      /\ amx.ntvreg => natives = theirs
  BY <1>1 DEF FaithInv, BoundInv
<1>4. /\ bound = [i \in DOMAIN theirs |-> bound[i]]
      /\ \A i \in DOMAIN bound : bound[i] \in {NoNative, theirs[i]}
      /\ \A i \in DOMAIN theirs : natives[i] = theirs[i] => bound[i] = theirs[i]
  BY <1>3
<1>5. theirs = [i \in DOMAIN theirs |-> theirs[i]]
  <2>1. theirs \in Seq({theirs[i] : i \in DOMAIN theirs} \ {NoNative})
    BY <1>3 DEF AllCompiled, EntriesCompiled
  <2> HIDE DEF theirs
  <2> QED BY <2>1
<1> HIDE DEF bound, theirs
<1>6. amx'.ntvreg => bound = theirs
  <2>1. all => bound = theirs
    BY <1>4, <1>5
  <2>2. amx.ntvreg => bound = theirs
    BY <1>3, <1>4, <1>5
  <2> HIDE DEF all
  <2> QED BY <1>2, <2>1, <2>2
<1>7. AddressInv'
  <2>1. Starts' = Starts /\ Stops' = Stops /\ Frames' = Frames
    BY <1>1 DEF Starts, Stops, Frames
  <2> QED BY <1>1, <1>2, <2>1 DEF FaithInv, AddressInv
<1>8. BoundInv'
  <2>1. amx.ntvreg => amx'.ntvreg
    BY <1>2
  <2>2. theirs = Scripts[script'].natives
    BY <1>1 DEF theirs
  <2> QED BY <1>1, <1>2, <1>3, <1>4, <1>6, <2>1, <2>2 DEF FaithInv, BoundInv
<1>9. SegmentInv'
  BY <1>1, <1>2 DEF FaithInv, SegmentInv, Patched
<1> QED BY <1>7, <1>8, <1>9 DEF FaithInv

\* The debug hook, an error that a native raises, and what is pushed and released, touch no code.
LEMMA DataFaithful ==
  ASSUME IInv, FaithInv,
         \/ SetDebugHook
         \/ \E err : NativeRaises(err)
         \/ \E v : Push(v)
         \/ \E array \in Arrays : PushArray(array)
         \/ Release
  PROVE  FaithInv'
<1>1. /\ UNCHANGED image /\ UNCHANGED <<where, regs, callers, calls, slept, result>>
      /\ amx'.reloc = amx.reloc /\ amx'.ntvreg = amx.ntvreg /\ amx'.cip = amx.cip
  <2>1. DOMAIN amx = AmxFields
    BY DEF IInv, AmxInv
  <2>2. CASE SetDebugHook
    BY <2>1, <2>2 DEF SetDebugHook, control, AmxFields
  <2>3. CASE \E err : NativeRaises(err)
    BY <2>1, <2>3 DEF NativeRaises, control, AmxFields
  <2>4. CASE \E v : Push(v)
    BY <2>1, <2>4 DEF Push, control, AmxFields
  <2>5. CASE \E array \in Arrays : PushArray(array)
    <3>1. PICK array \in Arrays : PushArray(array)
      BY <2>5
    <3>2. amx' = [amx EXCEPT !.hea = @ + Len(array), !.stk = @ - 1, !.paramcount = @ + 1]
      BY <3>1 DEF PushArray
    <3>3. amx'.reloc = amx.reloc /\ amx'.ntvreg = amx.ntvreg /\ amx'.cip = amx.cip
      BY <2>1, <3>2 DEF AmxFields
    <3> QED BY <3>1, <3>3 DEF PushArray
  <2>6. CASE Release
    BY <2>1, <2>6 DEF Release, AmxFields
  <2> QED BY <2>2, <2>3, <2>4, <2>5, <2>6
<1> QED BY <1>1, StillFaithful

\* amx_Exec takes main, or a public that it has found, to an instruction.
LEMMA EntryKnown ==
  ASSUME AllCompiled, IInv, FaithInv, script # NoScript,
         NEW index, index = ExecMain \/ \E name : index = FindPublic(name), Refusal(index) = ErrNone
  PROVE  amx.ntvreg /\ amx.reloc /\ Entry(index) \in Starts
<1>1. EntriesCompiled(Scripts[script])
  BY DEF AllCompiled, FaithInv, BoundInv
<1>2. /\ amx.ntvreg /\ amx.reloc
      /\ index = ExecMain => ~(Scripts[script].main < 0)
      /\ ~(index >= Len(Scripts[script].publics))
  BY DEF Refusal, ErrNone, ErrNotFound, ErrInit, ErrIndex
<1>3. CASE index = ExecMain
  BY <1>1, <1>2, <1>3 DEF EntriesCompiled, Entry, Starts
<1>4. CASE index # ExecMain
  <2> DEFINE publics == Scripts[script].publics
  <2>1. PICK name : index = FindPublic(name)
    BY <1>4
  <2>2. Len(publics) \in Nat /\ Len(publics) <= NotFound /\ publics \in Seq([name : Int, entry : Starts])
    BY <1>1 DEF EntriesCompiled, Starts
  <2>3. index # NotFound
    BY <1>2, <2>2 DEF NotFound
  <2>4. index + 1 \in DOMAIN publics
    BY <1>1, <2>1, <2>3, PublicFound
  <2> HIDE DEF publics
  <2>5. publics[index + 1] \in [name : Int, entry : Starts]
    <3>1. index + 1 \in 1..Len(publics)
      BY <2>2, <2>4
    <3> QED BY <2>2, <3>1, ElementOfSeq
  <2> QED BY <1>2, <1>4, <2>5 DEF Entry, publics
<1> QED BY <1>3, <1>4

\* (ExecFunction, from the host and from a native)
LEMMA ExecFunctionFaithful ==
  ASSUME AllCompiled, IInv, FaithInv, NEW index, index = ExecMain \/ \E name : index = FindPublic(name),
         where # "run", script # NoScript, ExecFunction(index)
  PROVE  FaithInv'
<1>1. UNCHANGED image /\ UNCHANGED slept
  BY DEF ExecFunction
<1>2. CASE Refusal(index) # ErrNone
  <2>1. /\ result' = Refusal(index) /\ amx' = amx /\ UNCHANGED <<where, regs, callers, calls>>
    BY <1>2 DEF ExecFunction, Refused
  <2>2. Refusal(index) # ErrSleep
    BY DEF Refusal, ErrNone, ErrNotFound, ErrInit, ErrIndex, ErrSleep
  <2> QED BY <1>1, <2>1, <2>2, StillFaithful
<1>3. CASE Refusal(index) = ErrNone
  <2>1. amx.ntvreg /\ amx.reloc /\ Entry(index) \in Starts
    BY <1>3, EntryKnown
  <2>2. PICK garbage \in Garbage :
          LET r == FreshRegs(index, garbage) IN
          IF StackError(r) # ErrNone THEN AbortAtOnce(r, StackError(r))
          ELSE Start([r EXCEPT !.stk = @ - 2, !.resetStk = @ + amx.paramcount],
                     [mem EXCEPT ![r.stk - 1] = amx.paramcount, ![r.stk - 2] = 0],
                     <<[entry |-> Entry(index), ret |-> 0]>>)
    BY <1>3 DEF ExecFunction
  <2> DEFINE r == FreshRegs(index, garbage)
             begun == [r EXCEPT !.stk = @ - 2, !.resetStk = @ + amx.paramcount]
             h == <<[entry |-> Entry(index), ret |-> 0]>>
  <2>3. CASE StackError(r) # ErrNone
    <3>1. AbortAtOnce(r, StackError(r))
      BY <2>2, <2>3
    <3>2. StackError(r) # ErrSleep
      BY DEF StackError, ErrNone, ErrStackLow, ErrHeapLow, ErrSleep
    <3> HIDE DEF r
    <3>3. /\ result' # ErrSleep /\ UNCHANGED <<where, regs, callers, calls>>
          /\ amx'.reloc = amx.reloc /\ amx'.ntvreg = amx.ntvreg /\ amx'.cip = amx.cip
      BY <3>1, <3>2 DEF AbortAtOnce, Aborted, IInv, AmxInv, AmxFields
    <3> QED BY <1>1, <3>3, StillFaithful
  <2>4. CASE StackError(r) = ErrNone
    <3>1. \E m : Start(begun, m, h)
      BY <2>2, <2>4
    <3>2. begun.cip = Entry(index) /\ begun.cip \in Stops
      BY <2>1 DEF FreshRegs, NoRegs, Stops
    <3>3. h \in Seq(Frames)
      <4>1. 0 \in Stops
        BY DEF AllCompiled, CodeCompiled, FaithInv, BoundInv, Stops, Starts
      <4>2. [entry |-> Entry(index), ret |-> 0] \in Frames
        BY <2>1, <4>1 DEF Frames
      <4> QED BY <4>2
    <3> HIDE DEF begun, h, r
    <3> QED BY <1>1, <2>1, <3>1, <3>2, <3>3, StartFaithful
  <2> QED BY <2>3, <2>4
<1> QED BY <1>2, <1>3

\* (HostContinue) A sleeping script goes on behind what has put it to sleep.
LEMMA HostContinueFaithful ==
  ASSUME IInv, FaithInv, HostContinue
  PROVE  FaithInv'
<1>1. /\ where = "host" /\ script # NoScript /\ result = ErrSleep /\ slept' = <<>> /\ UNCHANGED image
  BY DEF HostContinue
<1>2. amx.reloc /\ amx.ntvreg /\ amx.cip \in Stops /\ slept \in Seq(Frames)
  BY <1>1 DEF FaithInv, BoundInv, AddressInv
<1>3. CASE StackError(SavedRegs) # ErrNone
  <2>1. AbortAtOnce(SavedRegs, StackError(SavedRegs))
    BY <1>3 DEF HostContinue
  <2>2. StackError(SavedRegs) # ErrSleep
    BY DEF StackError, ErrNone, ErrStackLow, ErrHeapLow, ErrSleep
  <2>3. /\ result' # ErrSleep /\ UNCHANGED <<where, regs, callers, calls>>
        /\ amx'.reloc = amx.reloc /\ amx'.ntvreg = amx.ntvreg /\ amx'.cip = amx.cip
    BY <2>1, <2>2 DEF AbortAtOnce, Aborted, IInv, AmxInv, AmxFields
  <2>4. Starts' = Starts /\ Stops' = Stops /\ Frames' = Frames /\ SegmentInv' /\ script' = script
    BY <1>1, <2>3, ImageKept DEF image
  <2>5. <<>> \in Seq(Frames)
    OBVIOUS
  <2>6. AddressInv'
    BY <1>1, <2>3, <2>4, <2>5 DEF FaithInv, AddressInv
  <2>7. BoundInv'
    BY <1>1, <2>3, <2>4, ImageKept DEF FaithInv, BoundInv
  <2> QED BY <2>4, <2>6, <2>7 DEF FaithInv
<1>4. CASE StackError(SavedRegs) = ErrNone
  <2>1. Start(SavedRegs, mem, slept)
    BY <1>4 DEF HostContinue
  <2>2. SavedRegs.cip = amx.cip
    BY DEF SavedRegs
  <2> QED BY <1>1, <1>2, <2>1, <2>2, StartFaithful
<1> QED BY <1>3, <1>4

-----------------------------------------------------------------------------
(* Instructions that go on behind themselves.                              *)

\* A run goes on behind an instruction of n cells, with whatever it has computed in its registers.
LEMMA AdvanceFaithful ==
  ASSUME IInv, FaithInv, where = "run", calls' = calls, NEW n, regs.cip + n \in Stops,
         NEW f \in RegFields \ {"cip"}, NEW g \in RegFields \ {"cip"}, NEW v, NEW w,
         \/ Go(Behind(n))
         \/ Go([Behind(n) EXCEPT ![f] = v])
         \/ Go([Behind(n) EXCEPT ![f] = v, ![g] = w])
  PROVE  FaithInv'
<1>1. DOMAIN regs = RegFields /\ calls \in Seq(Frames)
  BY DEF IInv, CallersInv, RegsInv, FaithInv, AddressInv
<1>2. /\ Behind(n).cip = regs.cip + n
      /\ [Behind(n) EXCEPT ![f] = v].cip = regs.cip + n
      /\ [Behind(n) EXCEPT ![f] = v, ![g] = w].cip = regs.cip + n
  BY <1>1 DEF Behind, RegFields
<1> QED BY <1>1, <1>2, GoFaithful

\* (LOAD, and what ends in a register: constants, addresses and moves)
LEMMA MovesFaithful ==
  ASSUME AllCompiled, IInv, FaithInv, WithinSegments, Load \/ Const \/ IndexAddress \/ Move \/ LCtrl \/ Swap \/ Pop
  PROVE  FaithInv'
<1>1. where = "run"
  BY DEF Load, Const, IndexAddress, Move, LCtrl, Swap, Pop, At
<1>2. /\ Instr.op \in {"load", "const", "addr", "idxaddr_b", "lctrl"} => regs.cip + 2 \in Stops
      /\ Instr.op \in {"idxaddr", "move", "xchg", "zero_reg", "swap", "pop"} => regs.cip + 1 \in Stops
  BY <1>1, NextInstruction DEF OneParam, NoParam
<1>3. Instr.reg \in RegFields \ {"cip"} /\ {"pri", "alt", "stk"} \subseteq RegFields \ {"cip"}
  BY <1>1, Running DEF RegFields
<1>4. CASE Load
  <2>1. \E v : Go([Behind(2) EXCEPT ![Instr.reg] = v])
    BY <1>4 DEF Load, At, Continue
  <2>2. regs.cip + 2 \in Stops /\ calls' = calls
    BY <1>2, <1>4 DEF Load, At, Continue
  <2> QED BY <1>1, <1>3, <2>1, <2>2, AdvanceFaithful
<1>5. CASE Const
  <2>1. \E v : Go([Behind(2) EXCEPT ![Instr.reg] = v])
    BY <1>5 DEF Const, At, Continue
  <2>2. regs.cip + 2 \in Stops /\ calls' = calls
    BY <1>2, <1>5 DEF Const, At, Continue
  <2> QED BY <1>1, <1>3, <2>1, <2>2, AdvanceFaithful
<1>6. CASE IndexAddress
  <2>1. \E n, v : regs.cip + n \in Stops /\ Go([Behind(n) EXCEPT !.pri = v]) /\ calls' = calls
    BY <1>2, <1>6 DEF IndexAddress, At, Continue
  <2> QED BY <1>1, <1>3, <2>1, AdvanceFaithful
<1>7. CASE Move
  <2>1. /\ regs.cip + 1 \in Stops /\ calls' = calls
        /\ \E v, w : Go([Behind(1) EXCEPT ![Instr.reg] = v]) \/ Go([Behind(1) EXCEPT !.pri = v, !.alt = w])
    BY <1>2, <1>7 DEF Move, At, Continue
  <2> QED BY <1>1, <1>3, <2>1, AdvanceFaithful
<1>8. CASE LCtrl
  <2>1. \E v : Go([Behind(2) EXCEPT !.pri = v])
    BY <1>8 DEF LCtrl, At, Continue
  <2>2. regs.cip + 2 \in Stops /\ calls' = calls
    BY <1>2, <1>8 DEF LCtrl, At, Continue
  <2> QED BY <1>1, <1>3, <2>1, <2>2, AdvanceFaithful
<1>9. CASE Swap
  <2>1. (\E v : Go([Behind(1) EXCEPT ![Instr.reg] = v])) /\ regs.cip + 1 \in Stops /\ calls' = calls
    BY <1>2, <1>9 DEF Swap, At
  <2> QED BY <1>1, <1>3, <2>1, AdvanceFaithful
<1>10. CASE Pop
  <2>1. \E v, w : Go([Behind(1) EXCEPT ![Instr.reg] = v, !.stk = w])
    BY <1>10 DEF Pop, At, Continue
  <2>2. regs.cip + 1 \in Stops /\ calls' = calls
    BY <1>2, <1>10 DEF Pop, At, Continue
  <2> QED BY <1>1, <1>3, <2>1, <2>2, AdvanceFaithful
<1> QED BY <1>4, <1>5, <1>6, <1>7, <1>8, <1>9, <1>10

\* (STOR, ZERO, INC, DEC, the indirect ones, MOVS, CMPS, FILL and BOUNDS) They go on or abort.
LEMMA AccessesFaithful ==
  ASSUME AllCompiled, IInv, FaithInv, WithinSegments,
         Store \/ StoreStep \/ LoadIndirect \/ StoreIndirect \/ Block \/ Bounds
  PROVE  FaithInv'
<1>1. where = "run"
  BY DEF Store, StoreStep, LoadIndirect, StoreIndirect, Block, Bounds, At
<1>2. /\ Instr.op \in {"stor", "zero", "inc", "dec", "lidx_b", "movs", "cmps", "fill", "bounds"} => regs.cip + 2 \in Stops
      /\ Instr.op \in {"inc_i", "dec_i", "load_i", "lidx", "stor_i"} => regs.cip + 1 \in Stops
  BY <1>1, NextInstruction DEF OneParam, NoParam
<1>3. "pri" \in RegFields \ {"cip"} /\ where # "host"
  BY <1>1 DEF RegFields
<1>4. CASE Store \/ StoreStep
  <2>1. \E n : regs.cip + n \in Stops /\ Go(Behind(n)) /\ calls' = calls
    BY <1>2, <1>4 DEF Store, StoreStep, At
  <2> QED BY <1>1, <1>3, <2>1, AdvanceFaithful
<1>5. CASE LoadIndirect
  <2>1. \E n : \/ Abort(Behind(n), ErrMemAccess)
               \/ regs.cip + n \in Stops /\ calls' = calls /\ \E v : Go([Behind(n) EXCEPT !.pri = v])
    BY <1>2, <1>5 DEF LoadIndirect, At, Continue
  <2> QED BY <1>1, <1>3, <2>1, AdvanceFaithful, AbortFaithful
<1>6. CASE StoreIndirect
  <2>1. \/ Abort(Behind(1), ErrMemAccess)
        \/ regs.cip + 1 \in Stops /\ calls' = calls /\ Go(Behind(1))
    BY <1>2, <1>6 DEF StoreIndirect, At
  <2> QED BY <1>1, <1>3, <2>1, AdvanceFaithful, AbortFaithful
<1>7. CASE Block
  <2>1. \/ Abort(Behind(2), ErrMemAccess)
        \/ /\ regs.cip + 2 \in Stops /\ calls' = calls
           /\ Go(Behind(2)) \/ \E v : Go([Behind(2) EXCEPT !.pri = v])
    BY <1>2, <1>7 DEF Block, At, Continue
  <2> QED BY <1>1, <1>3, <2>1, AdvanceFaithful, AbortFaithful
<1>8. CASE Bounds
  <2>1. \/ Abort(Behind(2), ErrBounds)
        \/ regs.cip + 2 \in Stops /\ calls' = calls /\ Go(Behind(2))
    BY <1>2, <1>8 DEF Bounds, At, Continue
  <2> QED BY <1>1, <1>3, <2>1, AdvanceFaithful, AbortFaithful
<1> QED BY <1>4, <1>5, <1>6, <1>7, <1>8

\* What computes, SDIV and UDIV among it, which may abort.
LEMMA ComputationsFaithful ==
  ASSUME AllCompiled, IInv, FaithInv, WithinSegments, ShiftOp \/ ArithmeticOp \/ CompareOp \/ RegisterOp \/ Divide
  PROVE  FaithInv'
<1>1. where = "run"
  BY DEF ShiftOp, ArithmeticOp, CompareOp, RegisterOp, Divide, At
<1>2. /\ Instr.op \in {"shl_c", "shr_c", "add_c", "smul_c", "eq_c"} => regs.cip + 2 \in Stops
      /\ Instr.op \in {"shl", "shr", "sshr", "smul", "umul", "add", "sub", "sub_alt", "and", "or", "xor", "not", "neg",
                       "invert", "sign", "inc_reg", "dec_reg", "sdiv", "sdiv_alt", "udiv", "udiv_alt"} \cup Relations =>
           regs.cip + 1 \in Stops
  BY <1>1, NextInstruction DEF OneParam, NoParam
<1>3. Instr.reg \in RegFields \ {"cip"} /\ {"pri", "alt"} \subseteq RegFields \ {"cip"} /\ where # "host"
  BY <1>1, Running DEF RegFields
<1>4. CASE ShiftOp
  <2>1. \E n, v : /\ regs.cip + n \in Stops /\ calls' = calls
                  /\ Go([Behind(n) EXCEPT ![Instr.reg] = v]) \/ Go([Behind(n) EXCEPT !.pri = v])
    BY <1>2, <1>4 DEF ShiftOp, At, Continue
  <2> QED BY <1>1, <1>3, <2>1, AdvanceFaithful
<1>5. CASE ArithmeticOp
  <2>1. \E n, v : regs.cip + n \in Stops /\ calls' = calls /\ Go([Behind(n) EXCEPT !.pri = v])
    BY <1>2, <1>5 DEF ArithmeticOp, At, Continue
  <2> QED BY <1>1, <1>3, <2>1, AdvanceFaithful
<1>6. CASE CompareOp
  <2>1. \E n, v : regs.cip + n \in Stops /\ calls' = calls /\ Go([Behind(n) EXCEPT !.pri = v])
    BY <1>2, <1>6 DEF CompareOp, At, Continue
  <2> QED BY <1>1, <1>3, <2>1, AdvanceFaithful
<1>7. CASE RegisterOp
  <2>1. \E v : regs.cip + 1 \in Stops /\ calls' = calls /\ Go([Behind(1) EXCEPT ![Instr.reg] = v])
    BY <1>2, <1>7 DEF RegisterOp, At, Continue
  <2> QED BY <1>1, <1>3, <2>1, AdvanceFaithful
<1>8. CASE Divide
  <2>1. \/ Abort(Behind(1), ErrDivide)
        \/ regs.cip + 1 \in Stops /\ calls' = calls /\ \E v, w : Go([Behind(1) EXCEPT !.pri = v, !.alt = w])
    BY <1>2, <1>8 DEF Divide, At, Continue
  <2> QED BY <1>1, <1>3, <2>1, AdvanceFaithful, AbortFaithful
<1> QED BY <1>4, <1>5, <1>6, <1>7, <1>8

\* The stack and the heap, also where their margin is looked at.
LEMMA StackFaithful ==
  ASSUME AllCompiled, IInv, FaithInv, WithinSegments, PushOp \/ StackOrHeap \/ Proc
  PROVE  FaithInv'
<1>1. where = "run" /\ where # "host"
  BY DEF PushOp, StackOrHeap, Proc, At
<1>2. /\ Instr.op \in {"push_c", "push_r", "push", "pushaddr", "stack", "heap"} => regs.cip + 2 \in Stops
      /\ Instr.op \in {"push_reg", "proc"} => regs.cip + 1 \in Stops
  BY <1>1, NextInstruction DEF OneParam, NoParam
<1>3. DOMAIN regs = RegFields /\ calls \in Seq(Frames)
  BY <1>1 DEF IInv, CallersInv, RegsInv, FaithInv, AddressInv
<1>4. CASE PushOp
  <2>1. \E n, cells : regs.cip + n \in Stops /\ PushAll(Behind(n), cells) /\ calls' = calls
    BY <1>2, <1>4 DEF PushOp, At
  <2>2. PICK n, cells : regs.cip + n \in Stops /\ Go([Behind(n) EXCEPT !.stk = @ - Len(cells)]) /\ calls' = calls
    BY <2>1 DEF PushAll
  <2>3. [Behind(n) EXCEPT !.stk = @ - Len(cells)].cip = regs.cip + n
    BY <1>3 DEF Behind, RegFields
  <2> QED BY <1>1, <1>3, <2>2, <2>3, GoFaithful
<1>5. CASE StackOrHeap
  <2> DEFINE r == IF Instr.op = "stack" THEN [Behind(2) EXCEPT !.alt = regs.stk, !.stk = @ + Param]
                  ELSE [Behind(2) EXCEPT !.alt = regs.hea, !.hea = @ + Param]
  <2>1. (\E err : Abort(r, err)) \/ (Go(r) /\ calls' = calls)
    BY <1>5 DEF StackOrHeap, Continue
  <2>2. r.cip = regs.cip + 2 /\ regs.cip + 2 \in Stops
    BY <1>2, <1>3, <1>5 DEF Behind, RegFields, StackOrHeap, At
  <2> HIDE DEF r
  <2> QED BY <1>1, <1>3, <2>1, <2>2, GoFaithful, AbortFaithful
<1>6. CASE Proc
  <2> DEFINE r == [Behind(1) EXCEPT !.stk = @ - 1, !.frm = regs.stk - 1]
  <2>1. (\E m : LeaveWith(m, Aborted(r), ErrStack)) \/ (Go(r) /\ calls' = calls)
    BY <1>6 DEF Proc
  <2>2. r.cip = regs.cip + 1 /\ regs.cip + 1 \in Stops
    BY <1>2, <1>3, <1>6 DEF Behind, RegFields, Proc, At
  <2> HIDE DEF r
  <2>3. Aborted(r).reloc = amx.reloc /\ Aborted(r).ntvreg = amx.ntvreg /\ Aborted(r).cip = amx.cip
    BY DEF Aborted, IInv, AmxInv, AmxFields
  <2> QED BY <1>1, <1>3, <2>1, <2>2, <2>3, GoFaithful, LeaveFaithful
<1> QED BY <1>4, <1>5, <1>6

-----------------------------------------------------------------------------
(* Calls, returns and jumps.                                               *)

\* A jump goes to an instruction.
LEMMA JumpedFaithful ==
  ASSUME IInv, FaithInv, where = "run", NEW to \in Stops, NEW v, calls' \in Seq(Frames),
         \/ Go(Jumped(to))
         \/ Go([Jumped(to) EXCEPT !.num = v])
         \/ Go([Jumped(to) EXCEPT !.stk = v])
  PROVE  FaithInv'
<1>1. DOMAIN regs = RegFields
  BY DEF IInv, CallersInv, RegsInv
<1>2. Jumped(to).cip = to /\ [Jumped(to) EXCEPT !.num = v].cip = to /\ [Jumped(to) EXCEPT !.stk = v].cip = to
  BY <1>1 DEF Jumped, RegFields
<1> QED BY <1>2, GoFaithful

\* (SCTRL, which may set cip)
LEMMA SCtrlFaithful ==
  ASSUME AllCompiled, IInv, FaithInv, WithinSegments, ComputedTargets, SCtrl
  PROVE  FaithInv'
<1>1. where = "run" /\ Instr.op = "sctrl" /\ calls' = calls
  BY DEF SCtrl, At, Continue
<1>2. regs.cip + 2 \in Stops /\ calls \in Seq(Frames)
  BY <1>1, NextInstruction, Standing DEF OneParam
<1>3. {"hea", "stk", "frm"} \subseteq RegFields \ {"cip"}
  BY DEF RegFields
<1>4. Param = 6 => regs.pri \in Stops
  BY <1>1 DEF ComputedTargets, ReturnsToCaller, At, Stops
<1>5. \/ Param = 6 /\ Go(Jumped(regs.pri))
      \/ \E f \in {"hea", "stk", "frm"} : \E v : Go([Behind(2) EXCEPT ![f] = v])
      \/ Go(Behind(2))
  BY DEF SCtrl, Continue
<1> QED BY <1>1, <1>2, <1>3, <1>4, <1>5, AdvanceFaithful, JumpedFaithful

\* (CALL and CALL.pri) The return address is that of the instruction behind.
LEMMA CallFaithful ==
  ASSUME AllCompiled, IInv, FaithInv, WithinSegments, ComputedTargets, Call
  PROVE  FaithInv'
<1> DEFINE behind == regs.cip + IF Instr.op = "call" THEN 2 ELSE 1
           to == IF Instr.op = "call" THEN Param - CodeBase ELSE regs.pri
<1>1. /\ where = "run" /\ Instr.op \in {"call", "call_pri"}
      /\ PushAll(Jumped(to), <<behind>>)
      /\ calls' = Append(calls, [entry |-> to, ret |-> behind])
  BY DEF Call, At
<1>2. behind \in Stops /\ calls \in Seq(Frames)
  BY <1>1, NextInstruction, Standing DEF NoParam, Relocated
<1>3. to \in Starts
  <2>1. Instr.op = "call" => Param - CodeBase \in Starts
    BY <1>1, NextInstruction DEF Relocated
  <2>2. Instr.op = "call_pri" => regs.pri \in Starts
    BY <1>1 DEF ComputedTargets, ReturnsToCaller, At
  <2> QED BY <1>1, <2>1, <2>2
<1> HIDE DEF behind, to
<1>4. calls' \in Seq(Frames)
  <2>1. [entry |-> to, ret |-> behind] \in Frames
    BY <1>2, <1>3 DEF Frames
  <2> QED BY <1>1, <1>2, <2>1
<1>5. \E v : Go([Jumped(to) EXCEPT !.stk = v])
  BY <1>1 DEF PushAll
<1> QED BY <1>1, <1>3, <1>4, <1>5, JumpedFaithful DEF Stops

\* (RET and RETN) It goes back where the call has come from.
LEMMA ReturnFaithful ==
  ASSUME AllCompiled, IInv, FaithInv, WithinSegments, ComputedTargets, Return
  PROVE  FaithInv'
<1> DEFINE to == mem[regs.stk + 1]
           r == [regs EXCEPT !.frm = mem[regs.stk], !.stk = @ + 2]
           gone == [r EXCEPT !.cip = to, !.stk = IF Instr.op = "retn" THEN @ + mem[@] + 1 ELSE @]
<1>1. /\ where = "run" /\ Instr.op \in {"ret", "retn"}
      /\ \/ BadReturn(to) /\ Abort(r, ErrMemAccess)
         \/ ~BadReturn(to) /\ Go(gone) /\ calls' = Front(calls)
  BY DEF Return, At
<1>2. calls \in Seq(Frames) /\ DOMAIN regs = RegFields
  BY <1>1, Standing DEF IInv, CallersInv, RegsInv
<1>3. CASE BadReturn(to) /\ Abort(r, ErrMemAccess)
  BY <1>1, <1>3, AbortFaithful
<1>4. CASE ~BadReturn(to) /\ Go(gone) /\ calls' = Front(calls)
  <2>1. calls # <<>> /\ to = Last(calls).ret
    BY <1>1, <1>4 DEF ComputedTargets, ReturnsToCaller, At
  <2>2. Len(calls) \in Nat \ {0}
    BY <1>2, <2>1
  <2>3. Last(calls) \in Frames
    BY <1>2, <2>2 DEF Last
  <2>4. to \in Stops
    BY <2>1, <2>3 DEF Frames
  <2>5. calls' \in Seq(Frames)
    BY <1>2, <1>4, <2>2 DEF Front
  <2>6. gone.cip = to
    BY <1>2 DEF RegFields
  <2> HIDE DEF gone, to
  <2> QED BY <1>1, <1>4, <2>4, <2>5, <2>6, GoFaithful
<1> QED BY <1>1, <1>3, <1>4

\* (JUMP, the conditional ones, JREL and JUMP.pri)
LEMMA JumpFaithful ==
  ASSUME AllCompiled, IInv, FaithInv, WithinSegments, ComputedTargets, Jump
  PROVE  FaithInv'
<1>1. where = "run" /\ calls' = calls
  BY DEF Jump, At, Continue
<1>2. calls \in Seq(Frames) /\ regs.cip \in Starts /\ CodeCompiled(Scripts[script])
  BY <1>1, Standing
<1>3. "stk" \in RegFields \ {"cip"}
  BY DEF RegFields
<1>4. CASE At({"jump"}) /\ Continue(Jumped(Param - CodeBase))
  <2>1. Param - CodeBase \in Starts
    BY <1>1, <1>4, NextInstruction DEF Relocated, At
  <2> QED BY <1>1, <1>2, <1>4, <2>1, JumpedFaithful DEF Continue, Stops
<1>5. CASE At({"jrel"}) /\ Continue(Jumped(regs.cip + 2 + Param))
  <2>1. Param = Scripts[script].code[regs.cip + 1].n /\ Scripts[script].code[regs.cip].op = "jrel"
    BY <1>1, <1>5, NextInstruction DEF OneParam, At
  <2>2. regs.cip + 2 + Param \in Starts
    BY <1>2, <2>1 DEF CodeCompiled, Starts
  <2> QED BY <1>1, <1>2, <1>5, <2>2, JumpedFaithful DEF Continue, Stops
<1>6. CASE At({"jump_pri"}) /\ Continue(Jumped(regs.pri))
  <2>1. regs.pri \in Starts
    BY <1>6 DEF ComputedTargets, ReturnsToCaller, At
  <2> QED BY <1>1, <1>2, <1>6, <2>1, JumpedFaithful DEF Continue, Stops
<1>7. CASE At({"jzer", "jnz"} \cup DOMAIN Conditions) /\ (Continue(Jumped(Param - CodeBase)) \/ Continue(Behind(2)))
  <2>1. Instr.op \in Relocated
    BY <1>7 DEF At, Relocated
  <2>2. Param - CodeBase \in Starts /\ regs.cip + 2 \in Stops
    BY <1>1, <2>1, NextInstruction
  <2> QED BY <1>1, <1>2, <1>3, <1>7, <2>2, JumpedFaithful, AdvanceFaithful DEF Continue, Stops
<1> QED BY <1>4, <1>5, <1>6, <1>7 DEF Jump

\* (SWITCH) The record is one of the case table, and what it says is relocated.
LEMMA SwitchFaithful ==
  ASSUME AllCompiled, IInv, FaithInv, WithinSegments, Switch
  PROVE  FaithInv'
<1> DEFINE p == Scripts[script]
           c == p.code
           first == Param - CodeBase
           table == Param - CodeBase + 1
           matching == {i \in 1..code[table].n : code[table + 2 * i].n = regs.pri}
           record == IF matching = {} THEN 0 ELSE Min(matching)
           to == code[table + 2 * record + 1].n - CodeBase
<1>1. /\ where = "run" /\ Instr.op = "switch" /\ calls' = calls
      /\ \E v : Go([Jumped(to) EXCEPT !.num = v])
  BY DEF Switch, At, Continue
<1>2. /\ calls \in Seq(Frames) /\ CodeCompiled(p) /\ script \in DOMAIN Scripts /\ amx.reloc
      /\ regs.cip \in Starts
  BY <1>1, Standing
<1>3. first = c[regs.cip + 1].n /\ first \in Starts /\ c[regs.cip].op = "switch"
  BY <1>1, NextInstruction DEF Relocated
<1>4. /\ c[first].op = "casetbl" /\ c[first + 1].n \in Nat /\ first \in Nat /\ first \in DOMAIN c
  <2>1. c[first].op = "casetbl"
    BY <1>2, <1>3 DEF CodeCompiled, Starts
  <2>2. first \in Nat /\ first \in DOMAIN c
    BY <1>2, <1>3 DEF CodeCompiled, Starts
  <2> HIDE DEF first
  <2>3. c[first + 1].n \in Nat
    BY <1>2, <1>3, <2>1 DEF CodeCompiled, Starts
  <2> QED BY <2>1, <2>2, <2>3
<1> DEFINE n == c[first + 1].n
           W == BrowseWidth(c, first)
<1>n. n \in Nat
  BY <1>4
<1>5. W = 3 + 2 * n
  BY <1>4 DEF BrowseWidth, NoParam, OneParam, Relocated, Conditions, Relations
<1>6. DOMAIN code = DOMAIN c /\ first \notin Patched
  <2>1. SegmentInv
    BY DEF FaithInv
  <2>2. \A a \in Patched : c[a].op = "sysreq_c"
    BY <1>2, <2>1 DEF SegmentInv
  <2> QED BY <1>2, <1>4, <2>1, <2>2 DEF SegmentInv
<1>7. ASSUME NEW l \in Int, first < l, l < first + W
      PROVE  /\ l \in DOMAIN c
             /\ code[l].n = c[l].n + IF l \in RelocatedCells(c, first) THEN CodeBase ELSE 0
             /\ c[l].n \in Int
  <2>1. W # 0
    <3> HIDE DEF W
    <3> QED BY <1>4, <1>5
  <2>2. l \in DOMAIN c
    BY <1>2, <1>3, <1>7, <2>1, ParameterCell DEF Starts
  <2>3. code[l] = [c[l] EXCEPT !.n = IF l \in RelocatedCells(c, first) THEN @ + CodeBase ELSE @]
    BY <1>2, <1>3, <1>6, <1>7, <2>1, Unpatched DEF FaithInv
  <2>4. c[l] \in [op : STRING, reg : {"pri", "alt"}, mode : STRING, n : Int] /\ CodeBase \in Nat
    BY <1>2, <2>2, CellKnown
  <2> HIDE DEF c, first
  <2> QED BY <2>2, <2>3, <2>4
<1>8. RelocatedCells(c, first) = {first + 2 + 2 * i : i \in 0..n}
  BY <1>4 DEF RelocatedCells, Relocated, Conditions
<1>9. code[table].n = n
  <2>1. first + 1 \notin RelocatedCells(c, first)
    <3> HIDE DEF first, n
    <3> QED BY <1>4, <1>8
  <2>2. first + 1 \in Int /\ first < first + 1 /\ first + 1 < first + W /\ table = first + 1
    <3>1. table = first + 1
      OBVIOUS
    <3> HIDE DEF first, n, W, table
    <3> QED BY <1>4, <1>5, <1>n, <3>1
  <2>3. code[first + 1].n = c[first + 1].n + 0 /\ c[first + 1].n \in Int
    BY <1>7, <2>1, <2>2
  <2> HIDE DEF first, table
  <2> QED BY <2>2, <2>3
<1>10. record \in 0..n
  <2> HIDE DEF first, n, table
  <2>1. matching \subseteq 1..n
    BY <1>9
  <2>2. matching # {} => Min(matching) \in matching
    <3> SUFFICES ASSUME matching # {}
                 PROVE  Min(matching) \in matching
      OBVIOUS
    <3>1. matching \in SUBSET Nat
      BY <2>1
    <3> HIDE DEF matching
    <3>2. \E i \in matching : \A j \in matching : i <= j
      BY <3>1, MinExists
    <3> QED BY <3>2 DEF Min
  <2> HIDE DEF matching
  <2>3. n \in Nat
    BY <1>n
  <2>4. record \in {0} \cup matching
    BY <2>2
  <2> HIDE DEF record
  <2> QED BY <2>1, <2>3, <2>4
<1>11. to \in Starts
  <2> DEFINE l == first + 2 + 2 * record
  <2>1. l \in RelocatedCells(c, first) /\ l \in Int /\ first < l /\ l < first + W
    <3> HIDE DEF record, n, W, first
    <3> QED BY <1>4, <1>5, <1>8, <1>10 DEF n
  <2>2. l \in p.labels
    BY <1>2, <1>3, <2>1, LabelsOf DEF Starts
  <2>3. c[l].n \in Starts
    BY <1>2, <2>2 DEF CodeCompiled, Starts
  <2>4. code[l].n = c[l].n + CodeBase /\ c[l].n \in Int
    BY <1>7, <2>1
  <2>5. l = table + 2 * record + 1
    <3>1. table = first + 1
      OBVIOUS
    <3> HIDE DEF record, first, table
    <3> QED BY <1>4, <1>10, <3>1 DEF n
  <2>6. CodeBase \in Nat
    BY ScriptAssumption
  <2>7. to = code[l].n - CodeBase
    <3> HIDE DEF l, table, record
    <3> QED BY <2>5
  <2> HIDE DEF l, to, c
  <2> QED BY <2>3, <2>4, <2>6, <2>7
<1> HIDE DEF to
<1> QED BY <1>1, <1>2, <1>11, JumpedFaithful DEF Stops

\* (NOP and the opcodes for debuggers)
LEMMA SkipFaithful ==
  ASSUME AllCompiled, IInv, FaithInv, WithinSegments, Skip
  PROVE  FaithInv'
<1>1. where = "run" /\ calls' = calls
  BY DEF Skip, At, Continue
<1>2. /\ Instr.op = "nop" => regs.cip + 1 \in Stops
      /\ Instr.op \in {"line", "srange"} => regs.cip + 3 \in Stops
      /\ Instr.op = "symtag" => regs.cip + 2 \in Stops
      /\ Instr.op = "symbol" => regs.cip + (2 + Param) \in Stops
  <2>1. /\ Instr.op = "nop" => regs.cip + 1 \in Stops
        /\ Instr.op \in {"line", "srange"} => regs.cip + 3 \in Stops
        /\ Instr.op = "symtag" => regs.cip + 2 \in Stops
    BY <1>1, NextInstruction DEF NoParam
  <2>2. Instr.op = "symbol" => regs.cip + (2 + Param) \in Stops
    BY <1>1, NextInstruction
  <2> QED BY <2>1, <2>2
<1>3. \E n : regs.cip + n \in Stops /\ Go(Behind(n))
  BY <1>2 DEF Skip, At, Continue
<1>4. "stk" \in RegFields \ {"cip"}
  BY DEF RegFields
<1> QED BY <1>1, <1>3, <1>4, AdvanceFaithful

-----------------------------------------------------------------------------
(* Instructions that leave the run.                                        *)

\* (HALT) With or without a sleep.
LEMMA HaltFaithful ==
  ASSUME AllCompiled, IInv, FaithInv, WithinSegments, Halt
  PROVE  FaithInv'
<1> DEFINE r == Behind(2)
           dead == [Aborted(r) EXCEPT !.alt = r.alt]
           asleep == [amx EXCEPT !.frm = r.frm, !.pri = r.pri, !.alt = r.alt, !.cip = r.cip,
                                 !.resetStk = r.resetStk, !.resetHea = r.resetHea]
<1>1. /\ where = "run" /\ Instr.op = "halt"
      /\ \E err : LeaveWith(mem, dead, err) \/ LeaveWith(mem, asleep, err)
  BY DEF Halt, At, Leave
<1>2. r.cip = regs.cip + 2 /\ regs.cip + 2 \in Stops
  <2>1. r.cip = regs.cip + 2
    BY DEF Behind, IInv, CallersInv, RegsInv, RegFields
  <2>2. regs.cip + 2 \in Stops
    BY <1>1, NextInstruction DEF OneParam
  <2> QED BY <2>1, <2>2
<1> HIDE DEF r
<1>3. dead.reloc = amx.reloc /\ dead.ntvreg = amx.ntvreg /\ dead.cip = amx.cip
  BY DEF Aborted, IInv, AmxInv, AmxFields
<1>4. asleep.reloc = amx.reloc /\ asleep.ntvreg = amx.ntvreg /\ asleep.cip \in Stops
  BY <1>2 DEF IInv, AmxInv, AmxFields
<1> HIDE DEF dead, asleep
<1>5. where # "host"
  BY <1>1
<1> QED BY <1>1, <1>3, <1>4, <1>5, LeaveFaithful

\* (BREAK) The hook looks at the AMX structure and says how to go on.
LEMMA BreakFaithful ==
  ASSUME AllCompiled, IInv, FaithInv, WithinSegments, Break
  PROVE  FaithInv'
<1> DEFINE a == Saved(regs.cip + 1)
           r(num) == [Behind(1) EXCEPT !.num = num]
           asleep(num) == [a EXCEPT !.pri = r(num).pri, !.alt = r(num).alt, !.resetStk = r(num).resetStk,
                                    !.resetHea = r(num).resetHea]
           dead(num) == [Aborted(r(num)) EXCEPT !.cip = a.cip]
<1>1. where = "run" /\ where # "host" /\ Instr.op = "break"
  BY DEF Break, At
<1>2. regs.cip + 1 \in Stops /\ calls \in Seq(Frames)
  BY <1>1, NextInstruction, Standing DEF NoParam
<1>3. \/ Go(Behind(1)) /\ calls' = calls
      \/ \E num : /\ regs' = r(num) /\ amx' = a
                  /\ UNCHANGED image /\ UNCHANGED <<where, callers, result, calls, slept>>
      \/ \E num : LeaveWith(mem, asleep(num), ErrSleep) \/ LeaveWith(mem, dead(num), num)
  <2>1. CASE ~amx.debug
    BY <2>1 DEF Break, Continue
  <2>2. CASE amx.debug
    <3>1. PICK num \in HookResults :
            CASE num = ErrNone ->
                   regs' = r(num) /\ amx' = a /\ UNCHANGED <<image, mem, control, calls, slept, lost, counters>>
              [] num = ErrSleep -> Leave(asleep(num), ErrSleep) /\ UNCHANGED lost
              [] OTHER -> LeaveWith(mem, dead(num), num) /\ UNCHANGED lost
      BY <2>2 DEF Break
    <3> HIDE DEF r, a, asleep, dead
    <3>2. ErrNone # ErrSleep
      BY DEF ErrNone, ErrSleep
    <3> QED BY <3>1, <3>2 DEF Leave, control
  <2> QED BY <2>1, <2>2
<1>4. DOMAIN regs = RegFields /\ DOMAIN amx = AmxFields
  BY DEF IInv, CallersInv, RegsInv, AmxInv
<1>5. \A num : r(num).cip = regs.cip + 1
  BY <1>4 DEF Behind, RegFields
<1>6. /\ DOMAIN a = AmxFields
      /\ a.reloc = amx.reloc /\ a.ntvreg = amx.ntvreg /\ a.cip = regs.cip + 1
  BY <1>4 DEF Saved, AmxFields
<1> HIDE DEF a, r
<1>7. \A num : /\ asleep(num).reloc = amx.reloc /\ asleep(num).ntvreg = amx.ntvreg
               /\ asleep(num).cip = regs.cip + 1
               /\ dead(num).reloc = amx.reloc /\ dead(num).ntvreg = amx.ntvreg /\ dead(num).cip = regs.cip + 1
  BY <1>4, <1>6 DEF Aborted, AmxFields
<1> HIDE DEF asleep, dead
<1>8. CASE Go(Behind(1)) /\ calls' = calls
  <2>1. "stk" \in RegFields \ {"cip"}
    BY DEF RegFields
  <2> QED BY <1>1, <1>2, <1>8, <2>1, AdvanceFaithful
<1>9. CASE \E num : /\ regs' = r(num) /\ amx' = a
                    /\ UNCHANGED image /\ UNCHANGED <<where, callers, result, calls, slept>>
  <2>1. /\ UNCHANGED image /\ UNCHANGED <<where, callers, result, calls, slept>>
        /\ regs'.cip \in Stops
        /\ amx'.reloc = amx.reloc /\ amx'.ntvreg = amx.ntvreg /\ amx'.cip \in Stops
    BY <1>2, <1>5, <1>6, <1>9
  <2>2. script' = script
    BY <2>1 DEF image
  <2>3. Starts' = Starts /\ Stops' = Stops /\ Frames' = Frames /\ SegmentInv'
    BY <2>1, ImageKept
  <2>4. AddressInv'
    BY <1>2, <2>1, <2>2, <2>3 DEF FaithInv, AddressInv
  <2>5. BoundInv'
    BY <2>1, <2>2, ImageKept DEF FaithInv, BoundInv
  <2> QED BY <2>3, <2>4, <2>5 DEF FaithInv
<1>10. CASE \E num : LeaveWith(mem, asleep(num), ErrSleep) \/ LeaveWith(mem, dead(num), num)
  BY <1>1, <1>2, <1>7, <1>10, LeaveFaithful
<1> QED BY <1>3, <1>8, <1>9, <1>10

\* (SYSREQ) The code is patched where it calls the native, with that native.
LEMMA SysreqFaithful ==
  ASSUME AllCompiled, IInv, FaithInv, WithinSegments, Sysreq
  PROVE  FaithInv'
<1> DEFINE c == Scripts[script].code
           cip == regs.cip
           behind == cip + IF Instr.op = "sysreq_pri" THEN 1 ELSE 2
           f == natives[Param + 1]
<1>1. /\ where = "run" /\ Instr.op \in {"sysreq_pri", "sysreq_c", "sysreq_d"}
      /\ regs' = Jumped(behind)
      /\ amx' = Saved(behind) \/ amx' = [Saved(behind) EXCEPT !.error = ErrNone]
      /\ \/ code' = code
         \/ Instr.op = "sysreq_c" /\ code' = [code EXCEPT ![cip].op = "sysreq_d", ![cip + 1].n = f]
      /\ where' = "native"
      /\ UNCHANGED <<script, natives, callers, result, calls, slept>>
  BY DEF Sysreq, At
<1>2. /\ CodeCompiled(Scripts[script]) /\ script \in DOMAIN Scripts /\ amx.reloc /\ amx.ntvreg
      /\ natives = Scripts[script].natives /\ cip \in Starts /\ cip \in Nat /\ calls \in Seq(Frames)
  BY <1>1, Standing
<1>3. behind \in Stops
  BY <1>1, NextInstruction DEF NoParam, OneParam
<1>4. Starts' = Starts /\ Stops' = Stops /\ Frames' = Frames
  BY <1>1 DEF Starts, Stops, Frames
<1>5. regs'.cip = behind /\ amx'.cip = behind /\ amx'.reloc = amx.reloc /\ amx'.ntvreg = amx.ntvreg
  <2>1. DOMAIN regs = RegFields /\ DOMAIN amx = AmxFields
    BY DEF IInv, CallersInv, RegsInv, AmxInv
  <2>2. regs'.cip = behind
    BY <1>1, <2>1 DEF Jumped, RegFields
  <2>3. DOMAIN Saved(behind) = AmxFields /\ Saved(behind).cip = behind /\ Saved(behind).reloc = amx.reloc
        /\ Saved(behind).ntvreg = amx.ntvreg
    BY <2>1 DEF Saved, AmxFields
  <2> HIDE DEF behind
  <2> QED BY <1>1, <2>2, <2>3 DEF AmxFields
<1> HIDE DEF behind
<1>6. AddressInv'
  BY <1>1, <1>2, <1>3, <1>4, <1>5 DEF FaithInv, AddressInv
<1>7. BoundInv'
  BY <1>1, <1>2, <1>5 DEF FaithInv, BoundInv
<1>8. SegmentInv'
  <2>1. CASE code' = code
    BY <1>1, <1>5, <2>1 DEF FaithInv, SegmentInv, Patched
  <2>2. CASE Instr.op = "sysreq_c" /\ code' = [code EXCEPT ![cip].op = "sysreq_d", ![cip + 1].n = f]
    <3>1. /\ c[cip].op = "sysreq_c" /\ cip \notin Patched
          /\ cip + 1 \in DOMAIN code /\ cip + 1 \notin Starts /\ Param = c[cip + 1].n
      BY <1>1, <2>2, NextInstruction DEF OneParam
    <3>2. /\ DOMAIN code = DOMAIN c /\ cip \in DOMAIN code
          /\ \A a \in Patched : c[a].op = "sysreq_c" /\ code[a].op = "sysreq_d" /\ code[a + 1].n = natives[c[a + 1].n + 1]
          /\ \A a \in DOMAIN code \ (Patched \cup {q + 1 : q \in Patched}) :
               code[a] = [c[a] EXCEPT !.n = IF a \in Scripts[script].labels THEN @ + CodeBase ELSE @]
      BY <1>2, <3>1, Unpatched DEF FaithInv, SegmentInv
    <3>3. \A a \in DOMAIN code : DOMAIN code[a] = CellFields
      BY DEF IInv, CodeInv
    <3>4. \A a \in Patched : a \in Starts /\ a \in Nat /\ a + 1 \in DOMAIN code /\ a + 1 \notin Starts
      <4> SUFFICES ASSUME NEW a \in Patched
                   PROVE  a \in Starts /\ a \in Nat /\ a + 1 \in DOMAIN code /\ a + 1 \notin Starts
        OBVIOUS
      <4>1. a \in DOMAIN c /\ c[a].op = "sysreq_c"
        BY <3>2 DEF Patched
      <4>2. BrowseWidth(c, a) = 2
        BY <4>1 DEF BrowseWidth, NoParam, OneParam, Relations
      <4>3. a \in Starts /\ a \in Nat
        BY <1>2, <4>1, <4>2 DEF CodeCompiled, Starts
      <4>4. a + 1 \in Int /\ a < a + 1 /\ a + 1 < a + BrowseWidth(c, a) /\ BrowseWidth(c, a) # 0
        BY <4>2, <4>3
      <4>5. a + 1 \in DOMAIN c /\ a + 1 \notin Starts
        BY <1>2, <4>3, <4>4, ParameterCell DEF Starts
      <4> QED BY <3>2, <4>3, <4>5
    <3>5. cip + 1 \notin Patched /\ cip + 1 # cip /\ \A a \in Patched : a # cip
      BY <1>2, <3>1, <3>4
    <3> HIDE DEF c, cip, f
    <3>6. DOMAIN code' = DOMAIN code
      BY <2>2
    <3>7. /\ code'[cip].op = "sysreq_d"
          /\ code'[cip + 1].n = f
          /\ code'[cip + 1].op = code[cip + 1].op
          /\ \A a \in DOMAIN code : a # cip /\ a # cip + 1 => code'[a] = code[a]
      BY <2>2, <3>1, <3>2, <3>3, <3>5 DEF CellFields
    <3>8. \A a \in DOMAIN code : a # cip => code'[a].op = code[a].op
      BY <3>7
    <3>9. Patched' = Patched \cup {cip}
      <4>1. Patched = {a \in DOMAIN code : code[a].op # c[a].op}
        BY DEF Patched, c
      <4>2. Patched' = {a \in DOMAIN code : code'[a].op # c[a].op}
        BY <1>1, <3>6 DEF Patched, c
      <4>3. \A a \in DOMAIN code : code'[a].op # c[a].op <=> a = cip \/ code[a].op # c[a].op
        BY <3>1, <3>7, <3>8
      <4> QED BY <3>2, <4>1, <4>2, <4>3
    <3>10. ASSUME NEW a \in Patched'
           PROVE  c[a].op = "sysreq_c" /\ code'[a].op = "sysreq_d" /\ code'[a + 1].n = natives[c[a + 1].n + 1]
      <4>1. CASE a = cip
        BY <3>1, <3>7, <4>1 DEF f
      <4>2. CASE a \in Patched
        <5>1. a # cip /\ a + 1 # cip /\ a + 1 # cip + 1
          BY <1>2, <3>4, <3>5, <4>2
        <5>2. code'[a + 1] = code[a + 1] /\ code'[a].op = code[a].op
          BY <3>2, <3>4, <3>7, <3>8, <4>2, <5>1 DEF Patched
        <5> QED BY <3>2, <4>2, <5>2
      <4> QED BY <3>9, <4>1, <4>2
    <3>11. ASSUME NEW a \in DOMAIN code' \ (Patched' \cup {q + 1 : q \in Patched'})
           PROVE  code'[a] = [c[a] EXCEPT !.n = IF a \in Scripts[script].labels THEN @ + CodeBase ELSE @]
      <4>1. /\ a \in DOMAIN code \ (Patched \cup {q + 1 : q \in Patched})
            /\ a # cip /\ a # cip + 1
        BY <3>6, <3>9
      <4> QED BY <3>2, <3>7, <4>1
    <3>12. /\ DOMAIN code' = DOMAIN Scripts[script'].code /\ natives = Scripts[script'].natives
           /\ c = Scripts[script'].code /\ script' = script
      BY <1>1, <1>2, <3>2, <3>6 DEF c
    <3> QED BY <3>10, <3>11, <3>12 DEF SegmentInv
  <2> QED BY <1>1, <2>1, <2>2
<1> QED BY <1>6, <1>7, <1>8 DEF FaithInv

\* The native returns to the instruction behind, to the caller of a sleeping run, or with an error.
LEMMA NativeReturnFaithful ==
  ASSUME IInv, FaithInv, NEW v, NativeReturn(v)
  PROVE  FaithInv'
<1> DEFINE r == [regs EXCEPT !.pri = v, !.num = IF native.direct THEN @ ELSE amx.error]
<1>1. /\ where = "native" /\ where # "host"
      /\ \/ /\ regs' = r /\ amx' = [amx EXCEPT !.cip = r.cip] /\ where' = "run"
            /\ UNCHANGED image /\ UNCHANGED <<callers, result, calls, slept>>
         \/ \E err : LeaveWith(mem, Asleep(r), err)
         \/ Abort(r, amx.error)
  BY DEF NativeReturn, Leave
<1>2. r.cip = regs.cip /\ regs.cip \in Stops /\ calls \in Seq(Frames)
  BY <1>1 DEF IInv, CallersInv, RegsInv, RegFields, FaithInv, AddressInv
<1> HIDE DEF r
<1>3. Asleep(r).reloc = amx.reloc /\ Asleep(r).ntvreg = amx.ntvreg /\ Asleep(r).cip = amx.cip
  BY DEF Asleep, IInv, AmxInv, AmxFields
<1>4. CASE /\ regs' = r /\ amx' = [amx EXCEPT !.cip = r.cip] /\ where' = "run"
           /\ UNCHANGED image /\ UNCHANGED <<callers, result, calls, slept>>
  <2>1. /\ regs'.cip \in Stops
        /\ amx'.reloc = amx.reloc /\ amx'.ntvreg = amx.ntvreg /\ amx'.cip \in Stops
    BY <1>2, <1>4 DEF IInv, AmxInv, AmxFields
  <2>2. script' = script
    BY <1>4 DEF image
  <2>3. Starts' = Starts /\ Stops' = Stops /\ Frames' = Frames /\ SegmentInv'
    BY <1>4, <2>1, ImageKept
  <2>4. AddressInv'
    BY <1>2, <1>4, <2>1, <2>2, <2>3 DEF FaithInv, AddressInv
  <2>5. BoundInv'
    BY <1>1, <1>4, <2>1, <2>2, ImageKept DEF FaithInv, BoundInv
  <2> QED BY <2>3, <2>4, <2>5 DEF FaithInv
<1> QED BY <1>1, <1>3, <1>4, LeaveFaithful, AbortFaithful

-----------------------------------------------------------------------------

\* Every step of the system.
LEMMA NextFaithful ==
  ASSUME AllCompiled, IInv, FaithInv, WithinSegments, ComputedTargets, [SystemNext]_systemVars
  PROVE  FaithInv'
<1>1. CASE HostStep
  <2>1. ASSUME NEW index, index = ExecMain \/ \E name : index = FindPublic(name), HostExec(index)
        PROVE  FaithInv'
    <3>1. where # "run" /\ script # NoScript /\ ExecFunction(index)
      BY <2>1 DEF HostExec, MayCall
    <3> QED BY <2>1, <3>1, ExecFunctionFaithful
  <2> QED BY <1>1, <2>1, LoadProgramFaithful, RegisterFaithful, DataFaithful, HostContinueFaithful DEF HostStep
<1>2. CASE NativeStep
  <2>1. ASSUME NEW name, NativeExec(FindPublic(name))
        PROVE  FaithInv'
    <3>1. where # "run" /\ script # NoScript /\ ExecFunction(FindPublic(name))
      BY <2>1 DEF NativeExec, MayCall
    <3> QED BY <3>1, ExecFunctionFaithful
  <2> QED BY <1>2, <2>1, DataFaithful, NativeReturnFaithful DEF NativeStep
<1>3. CASE CallerStep
  BY <1>3, DataFaithful DEF CallerStep
<1>4. CASE Instruction
  BY <1>4, MovesFaithful, AccessesFaithful, ComputationsFaithful, StackFaithful, SCtrlFaithful, CallFaithful,
     ReturnFaithful, JumpFaithful, SwitchFaithful, SkipFaithful, HaltFaithful, BreakFaithful, SysreqFaithful
     DEF Instruction
<1>5. CASE RegisterAmx \/ EraseAmx \/ UNCHANGED systemVars
  <2>1. UNCHANGED vars
    BY <1>5 DEF RegisterAmx, EraseAmx, systemVars
  <2> QED BY <2>1, StillFaithful DEF vars, image
<1>6. CASE Unload
  BY <1>6, FreeProgramFaithful DEF Unload
<1> QED BY <1>1, <1>2, <1>3, <1>4, <1>5, <1>6 DEF SystemNext, AmxStep

\* Every address of code that a register, a frame, a sleeping or a waiting run holds is one of an instruction
\* of the script, natives are bound before anything runs, and the code is the relocated and patched one.
THEOREM CodeInvariant ==
  ASSUME AllCompiled
  PROVE  SystemSpec /\ []WithinSegments /\ []ComputedTargets => []FaithInv
<1>1. SystemInit => FaithInv
  BY InitFaithful
<1>2. IInv /\ FaithInv /\ WithinSegments /\ ComputedTargets /\ [SystemNext]_systemVars => FaithInv'
  BY AllCompiled, NextFaithful
<1> QED BY <1>1, <1>2, MachineInvariant, PTL DEF SystemSpec

\* amx_BrowseRelocate has adjusted every address of the code and nothing else, amx_Callback patches calls of
\* natives and nothing else, and the machine runs from instruction to instruction.
THEOREM CodeStaysFaithful ==
  ASSUME AllCompiled
  PROVE  SystemSpec /\ []WithinSegments /\ []ComputedTargets => []CodeFaithful
<1>1. IInv /\ FaithInv /\ WithinSegments => CodeFaithful
  <2> SUFFICES ASSUME IInv, FaithInv, WithinSegments, amx.reloc
               PROVE  CodeFaithful
    BY DEF CodeFaithful
  <2>1. where = "run" => regs.cip \in Scripts[script].starts
    BY AllCompiled, Standing DEF Starts
  <2> QED BY <2>1 DEF FaithInv, SegmentInv, Patched, CodeFaithful
<1> QED BY <1>1, MachineInvariant, CodeInvariant, PTL
=============================================================================
