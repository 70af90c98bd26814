--------------------------- MODULE RuleEditorProofs ---------------------------
(***************************************************************************)
(* What clients prepare is what the daemon accepts, for any rules,         *)
(* addresses, outputs of ssh and selections: previews keep their promise,  *)
(* forms keep what they do not show, and the rules stay valid.             *)
(***************************************************************************)
EXTENDS RuleEditor, RuleSetProofs, FiniteSetTheorems, WellFoundedInduction

-----------------------------------------------------------------------------
\* Numbers and recursion

\* A set of numbers has a least one.
LEMMA LeastNumber ==
    ASSUME NEW T \in SUBSET Nat, T # {}
    PROVE  \E x \in T : \A y \in T : x <= y
<1>1. PICK x \in T : \A y \in T : ~(<<y, x>> \in OpToRel(<, Nat))
  BY NatLessThanWellFounded, WFMin
<1>2. \A y \in T : ~(y < x)
  BY <1>1 DEF OpToRel
<1> QED
  BY <1>2

\* Induction, for a set of numbers.
LEMMA EveryNumber ==
    ASSUME NEW T \in SUBSET Nat, 0 \in T, \A n \in T : n + 1 \in T
    PROVE  T = Nat
<1> SUFFICES ASSUME Nat \ T # {} PROVE FALSE
  OBVIOUS
<1>1. PICK x \in Nat \ T : \A y \in Nat \ T : x <= y
  BY LeastNumber
<1>2. x - 1 \in T /\ (x - 1) + 1 = x
  BY <1>1
<1> QED
  BY <1>1, <1>2

Steps(N, S, a, step) == N \in Nat /\ a \in S /\ step \in [(1 .. N) \X S -> S]

Follows(f, N, a, step) == f[0] = a /\ \A n \in 1 .. N : f[n] = step[<<n, f[n - 1]>>]

\* A function may be defined by its first value and from each value the next.
LEMMA Recursion ==
    ASSUME NEW N, NEW S, NEW a, NEW step, Steps(N, S, a, step)
    PROVE  \E f \in [0 .. N -> S] : Follows(f, N, a, step)
<1> USE DEF Steps
<1> DEFINE Good(k, f) == f[0] = a /\ \A n \in 1 .. k : f[n] = step[<<n, f[n - 1]>>]
           T == {k \in Nat : k <= N => \E f \in [0 .. k -> S] : Good(k, f)}
<1>1. 0 \in T
  <2> DEFINE f == [n \in 0 .. 0 |-> a]
  <2>1. f \in [0 .. 0 -> S] /\ Good(0, f)
    OBVIOUS
  <2> QED
    BY <2>1
<1>2. ASSUME NEW k \in T PROVE k + 1 \in T
  <2> SUFFICES ASSUME k + 1 <= N PROVE \E f \in [0 .. k + 1 -> S] : Good(k + 1, f)
    OBVIOUS
  <2>1. PICK f \in [0 .. k -> S] : Good(k, f)
    BY <1>2
  <2> DEFINE g == [n \in 0 .. k + 1 |-> IF n <= k THEN f[n] ELSE step[<<k + 1, f[k]>>]]
  <2>2. k \in Nat /\ f[k] \in S /\ k + 1 \in 1 .. N
    BY <1>2
  <2>3. step[<<k + 1, f[k]>>] \in S
    BY <2>2
  <2>4. g \in [0 .. k + 1 -> S]
    BY <2>2, <2>3
  <2>5. g[0] = a
    BY <2>1, <2>2
  <2>6. ASSUME NEW n \in 1 .. k + 1 PROVE g[n] = step[<<n, g[n - 1]>>]
    <3>1. CASE n <= k
      <4>1. n \in 1 .. k /\ n - 1 \in 0 .. k /\ n \in 0 .. k + 1 /\ n - 1 \in 0 .. k + 1
        BY <2>2, <3>1
      <4>2. g[n] = f[n] /\ g[n - 1] = f[n - 1]
        BY <3>1, <4>1
      <4> QED
        BY <2>1, <4>1, <4>2
    <3>2. CASE ~(n <= k)
      <4>1. n = k + 1 /\ n - 1 = k /\ k \in 0 .. k + 1
        BY <2>2, <3>2
      <4> QED
        BY <3>2, <4>1
    <3> QED
      BY <3>1, <3>2
  <2> HIDE DEF g
  <2> QED
    BY <2>4, <2>5, <2>6
<1>3. N \in T
  <2> HIDE DEF T
  <2>1. T \in SUBSET Nat
    BY DEF T
  <2> QED
    BY <1>1, <1>2, <2>1, EveryNumber
<1> QED
  BY <1>3 DEF Follows

-----------------------------------------------------------------------------
\* Names

\* The while loop of import_rule_name ends, with a name that is not taken.
LEMMA NameIsFresh ==
    ASSUME NEW f, NEW candidate \in Nat, NEW names, IsFiniteSet(names)
    PROVE  /\ ImportRuleName(f, candidate, names) \notin names
           /\ \E k \in Nat : ImportRuleName(f, candidate, names) = ImportName(f, k)
<1>1. CASE ImportName(f, 0) \notin names
  BY <1>1 DEF ImportRuleName
<1>2. CASE ImportName(f, 0) \in names
  <2> DEFINE last == candidate + Cardinality(names)
             range == candidate .. last
             free == {k \in range : ImportName(f, k) \notin names}
  <2>1. Cardinality(names) \in Nat
    BY FS_CardinalityType
  <2>2. free # {}
    <3> SUFFICES ASSUME free = {} PROVE FALSE
      OBVIOUS
    <3> DEFINE name == [k \in range |-> ImportName(f, k)]
    <3>1. name \in [range -> names]
      OBVIOUS
    <3>2. IsFiniteSet(range) /\ Cardinality(names) < Cardinality(range)
      BY <2>1, FS_Interval
    <3> HIDE DEF name, range
    <3>3. PICK x, y \in range : x # y /\ name[x] = name[y]
      BY <3>1, <3>2, FS_PigeonHole
    <3>4. ImportName(f, x) = ImportName(f, y)
      BY <3>3 DEF name
    <3> QED
      BY <3>3, <3>4 DEF ImportName
  <2>3. free \in SUBSET Nat
    BY <2>1
  <2>4. PICK k \in free : \A j \in free : k <= j
    BY <2>2, <2>3, LeastNumber
  <2> DEFINE First(i) == /\ ImportName(f, i) \notin names
                         /\ \A j \in candidate .. i - 1 : ImportName(f, j) \in names
  <2>5. First(k)
    BY <2>1, <2>3, <2>4
  <2>6. k \in range
    OBVIOUS
  <2> DEFINE chosen == CHOOSE i \in range : First(i)
  <2>7. chosen \in range /\ First(chosen)
    <3> HIDE DEF First, range
    <3> QED
      BY <2>5, <2>6
  <2>8. ImportRuleName(f, candidate, names) = ImportName(f, chosen)
    BY <1>2 DEF ImportRuleName
  <2> QED
    BY <2>1, <2>7, <2>8
<1> QED
  BY <1>1, <1>2

-----------------------------------------------------------------------------
\* The preview

\* Overlap does not care which of two forwards comes first.
LEMMA ConflictSymmetric == \A f, g : ForwardsConflict(f, g) <=> ForwardsConflict(g, f)
BY DEF ForwardsConflict, SameEnd, Overlap

\* The loop keeps what it has accepted: no two supported candidates conflict,
\* and none of them conflicts with an existing rule.
LEMMA ClassesSound ==
    ASSUME NEW L \in Nat, NEW fs, DOMAIN fs = 1 .. L, Len(fs) = L, NEW host, NEW existing
    PROVE  LET class == Classes(fs, host, existing)
           IN  /\ DOMAIN class = 1 .. L
               /\ \A n \in 1 .. L : class[n] = "supported" =>
                     /\ fs[n].kind \in Kinds \/ fs[n].kind = "supported"
                     /\ fs[n].kind \in Kinds =>
                           /\ \A m \in DOMAIN existing :
                                 ~ConflictsRule(host, fs[n], existing[m])
                           /\ \A m \in 1 .. n - 1 :
                                 class[m] = "supported" => ~ForwardsConflict(fs[n], fs[m])
<1> DEFINE Verdict(n, A) == Classify(fs, n, A, host, existing)
           Marks == SUBSET (1 .. L)
           step == [x \in (1 .. L) \X Marks |->
                       IF Verdict(x[1], x[2]) = "supported" THEN x[2] \cup {x[1]} ELSE x[2]]
           Loop(g) == g = [n \in 0 .. L |->
                              IF n = 0 THEN {}
                              ELSE IF Verdict(n, g[n - 1]) = "supported"
                              THEN g[n - 1] \cup {n}
                              ELSE g[n - 1]]
           accepted == CHOOSE g : Loop(g)
           class == Classes(fs, host, existing)
<1>1. \E g : Loop(g)
  <2>1. step \in [(1 .. L) \X Marks -> Marks]
    <3> HIDE DEF Verdict
    <3> QED
      OBVIOUS
  <2>2. {} \in Marks
    OBVIOUS
  <2> HIDE DEF step, Marks
  <2>3. PICK g \in [0 .. L -> Marks] :
           g[0] = {} /\ \A n \in 1 .. L : g[n] = step[<<n, g[n - 1]>>]
    <3>1. Steps(L, Marks, {}, step)
      BY <2>1, <2>2 DEF Steps
    <3>2. \E g \in [0 .. L -> Marks] : Follows(g, L, {}, step)
      BY <3>1, Recursion
    <3> QED
      BY <3>2 DEF Follows
  <2>4. ASSUME NEW n \in 1 .. L
        PROVE  g[n] = IF Verdict(n, g[n - 1]) = "supported" THEN g[n - 1] \cup {n}
                      ELSE g[n - 1]
    <3>1. n - 1 \in 0 .. L /\ g[n - 1] \in Marks
      BY <2>3
    <3>2. step[<<n, g[n - 1]>>] =
             IF Verdict(n, g[n - 1]) = "supported" THEN g[n - 1] \cup {n} ELSE g[n - 1]
      <4> HIDE DEF Verdict
      <4> QED
        BY <3>1 DEF step
    <3> QED
      BY <2>3, <3>2
  <2> HIDE DEF Verdict
  <2>5. Loop(g)
    <3>1. \A n \in 0 .. L : n = 0 \/ n \in 1 .. L
      OBVIOUS
    <3> QED
      BY <2>3, <2>4, <3>1
  <2> QED
    BY <2>5
<1>2. Loop(accepted)
  BY <1>1
<1>3. class = [n \in 1 .. L |-> Verdict(n, accepted[n - 1])]
  BY DEF Classes
<1> HIDE DEF Verdict, class
<1>4. /\ accepted[0] = {}
      /\ \A n \in 1 .. L :
            accepted[n] = IF class[n] = "supported" THEN accepted[n - 1] \cup {n}
                          ELSE accepted[n - 1]
  <2> HIDE DEF accepted
  <2>1. 0 \in 0 .. L /\ \A n \in 1 .. L : n \in 0 .. L /\ n # 0
    OBVIOUS
  <2> QED
    BY <1>2, <1>3, <2>1
<1> HIDE DEF accepted, Loop
<1>5. \A n \in 0 .. L : \A m \in 1 .. n : class[m] = "supported" => m \in accepted[n]
  <2> DEFINE T == {n \in Nat : n <= L =>
                      \A m \in 1 .. n : class[m] = "supported" => m \in accepted[n]}
  <2>1. 0 \in T
    OBVIOUS
  <2>2. ASSUME NEW n \in T PROVE n + 1 \in T
    <3> SUFFICES ASSUME n + 1 <= L, NEW m \in 1 .. n + 1, class[m] = "supported"
                 PROVE  m \in accepted[n + 1]
      OBVIOUS
    <3>1. n \in Nat /\ n + 1 \in 1 .. L /\ (n + 1) - 1 = n /\ (m \in 1 .. n \/ m = n + 1)
      BY <2>2
    <3>2. m \in 1 .. n => m \in accepted[n]
      BY <2>2, <3>1
    <3> QED
      BY <1>4, <3>1, <3>2
  <2>3. T = Nat
    <3> HIDE DEF T
    <3>1. T \in SUBSET Nat
      BY DEF T
    <3> QED
      BY <2>1, <2>2, <3>1, EveryNumber
  <2> QED
    BY <2>3
<1>6. ASSUME NEW n \in 1 .. L, class[n] = "supported"
      PROVE  /\ fs[n].kind \in Kinds \/ fs[n].kind = "supported"
             /\ fs[n].kind \in Kinds =>
                   /\ \A m \in DOMAIN existing : ~ConflictsRule(host, fs[n], existing[m])
                   /\ \A m \in 1 .. n - 1 :
                         class[m] = "supported" => ~ForwardsConflict(fs[n], fs[m])
  <2>1. Classify(fs, n, accepted[n - 1], host, existing) = "supported"
    BY <1>3, <1>6 DEF Verdict
  <2>2. \A m \in 1 .. n - 1 : class[m] = "supported" => m \in accepted[n - 1]
    BY <1>5
  <2>3. fs[n].kind \in Kinds =>
           /\ \A m \in accepted[n - 1] : ~ForwardsConflict(fs[n], fs[m])
           /\ \A m \in DOMAIN existing : ~ConflictsRule(host, fs[n], existing[m])
    BY <2>1 DEF Classify
  <2>4. fs[n].kind \in Kinds \/ fs[n].kind = "supported"
    BY <2>1 DEF Classify
  <2> QED
    BY <2>2, <2>3, <2>4
<1>7. DOMAIN class = 1 .. L
  BY <1>3
<1> QED
  BY <1>6, <1>7 DEF class

-----------------------------------------------------------------------------
\* The selection

\* The names of a list are finitely many.
LEMMA NamesAreFinite ==
    ASSUME NEW rs, IsFiniteSet(DOMAIN rs)
    PROVE  IsFiniteSet(NamesOf(rs))
<1> DEFINE name == [n \in DOMAIN rs |-> rs[n].name]
<1>1. name \in [DOMAIN rs -> NamesOf(rs)]
  BY DEF NamesOf
<1>2. \A x \in NamesOf(rs) : \E n \in DOMAIN rs : name[n] = x
  BY DEF NamesOf
<1> HIDE DEF name
<1>3. name \in Surjection(DOMAIN rs, NamesOf(rs))
  BY <1>1, <1>2 DEF Surjection
<1> QED
  BY <1>3, FS_Surjection

\* What a rule takes from the n-th candidate.
From(r, p, n) ==
    /\ r.host = p.host
    /\ r.kind = p.forwards[n].kind /\ r.address = p.forwards[n].address
    /\ r.port = p.forwards[n].port /\ r.dest = p.forwards[n].dest
    /\ r.dport = p.forwards[n].dport

\* The rules made of a selection are a list, each of another selected candidate
\* and under a name that no other of them and no existing rule has.
LEMMA SelectionSound ==
    ASSUME NEW L \in Nat, NEW p, DOMAIN p.forwards = 1 .. L, Len(p.forwards) = L,
           NEW selected, NEW existing, IsFiniteSet(DOMAIN existing)
    PROVE  LET new == SelectedRules(p, selected, existing)
               chosen == selected \cap (1 .. L)
           IN  /\ \E R : new \in Seq(R)
               /\ \A k \in DOMAIN new :
                     /\ new[k].name \notin NamesOf(existing)
                     /\ \E n \in chosen : From(new[k], p, n)
               /\ \A k, l \in DOMAIN new : k # l =>
                     /\ new[k].name # new[l].name
                     /\ \E m, n \in chosen :
                           m # n /\ From(new[k], p, m) /\ From(new[l], p, n)
<1> DEFINE Made(n, s) ==
               NewRule(FreshId(Len(s) + 1),
                       ImportRuleName(p.forwards[n], n, NamesOf(existing) \cup NamesOf(s)),
                       p.host, p.forwards[n])
           names == {ImportName(p.forwards[n], k) : n \in 1 .. L, k \in Nat}
           R == {NewRule(FreshId(k), name, p.host, p.forwards[n]) :
                    k \in Nat, name \in names, n \in 1 .. L}
           Next1(n, s) == IF n \notin selected THEN s ELSE Append(s, Made(n, s))
           step == [x \in (1 .. L) \X Seq(R) |-> Next1(x[1], x[2])]
           Loop(g) == g = [n \in 0 .. L |->
                              IF n = 0 THEN <<>>
                              ELSE IF n \notin selected THEN g[n - 1]
                              ELSE Append(g[n - 1], Made(n, g[n - 1]))]
           built == CHOOSE g : Loop(g)
           new == SelectedRules(p, selected, existing)
<1>1. ASSUME NEW n \in 1 .. L, NEW s \in Seq(R)
      PROVE  /\ Made(n, s) \in R
             /\ Made(n, s).name \notin NamesOf(existing) \cup NamesOf(s)
             /\ From(Made(n, s), p, n)
  <2> DEFINE taken == NamesOf(existing) \cup NamesOf(s)
             name == ImportRuleName(p.forwards[n], n, taken)
  <2>1. IsFiniteSet(taken)
    <3> HIDE DEF R
    <3>1. DOMAIN s = 1 .. Len(s) /\ Len(s) \in Nat
      OBVIOUS
    <3>2. IsFiniteSet(DOMAIN s)
      BY <3>1, FS_Interval
    <3> QED
      BY <3>2, NamesAreFinite, FS_Union
  <2>2. n \in Nat /\ Len(s) + 1 \in Nat
    <3> HIDE DEF R
    <3> QED
      OBVIOUS
  <2> HIDE DEF taken
  <2>3. name \notin taken /\ \E k \in Nat : name = ImportName(p.forwards[n], k)
    BY <2>1, <2>2, NameIsFresh
  <2>4. name \in names
    BY <2>3
  <2> HIDE DEF name, names
  <2>5. Made(n, s) = NewRule(FreshId(Len(s) + 1), name, p.host, p.forwards[n])
    BY DEF taken, name
  <2>6. NewRule(FreshId(Len(s) + 1), name, p.host, p.forwards[n]) \in R
    BY <2>2, <2>4
  <2>7. From(Made(n, s), p, n) /\ Made(n, s).name = name
    <3>1. \A i, x : /\ From(NewRule(i, x, p.host, p.forwards[n]), p, n)
                    /\ NewRule(i, x, p.host, p.forwards[n]).name = x
      BY DEF From, NewRule
    <3> QED
      BY <2>5, <3>1
  <2> QED
    BY <2>3, <2>5, <2>6, <2>7 DEF taken
<1> HIDE DEF R, Made
<1>2. ASSUME NEW n \in 1 .. L, NEW s \in Seq(R)
      PROVE  Next1(n, s) \in Seq(R)
  <2>1. Made(n, s) \in R
    BY <1>1
  <2>2. Append(s, Made(n, s)) \in Seq(R)
    BY <2>1, AppendProperties
  <2> QED
    BY <2>2
<1>3. \E g : Loop(g) /\ g \in [0 .. L -> Seq(R)]
  <2>1. step \in [(1 .. L) \X Seq(R) -> Seq(R)]
    <3> HIDE DEF Next1
    <3> QED
      BY <1>2
  <2>2. <<>> \in Seq(R)
    OBVIOUS
  <2> HIDE DEF step
  <2>3. Steps(L, Seq(R), <<>>, step)
    BY <2>1, <2>2 DEF Steps
  <2>4. PICK g \in [0 .. L -> Seq(R)] : Follows(g, L, <<>>, step)
    BY <2>3, Recursion
  <2>5. ASSUME NEW n \in 1 .. L PROVE g[n] = Next1(n, g[n - 1])
    <3>1. n - 1 \in 0 .. L /\ g[n - 1] \in Seq(R)
      OBVIOUS
    <3>2. step[<<n, g[n - 1]>>] = Next1(n, g[n - 1])
      <4> HIDE DEF Next1
      <4> QED
        BY <3>1 DEF step
    <3> QED
      BY <2>4, <3>2 DEF Follows
  <2>6. g[0] = <<>>
    BY <2>4 DEF Follows
  <2>7. \A n \in 0 .. L : n = 0 \/ n \in 1 .. L
    OBVIOUS
  <2> QED
    BY <2>5, <2>6, <2>7
<1>4. Loop(built)
  BY <1>3
<1>5. new = built[L]
  BY DEF SelectedRules, Made
<1> HIDE DEF new
<1>6. built[0] = <<>> /\ \A n \in 1 .. L : built[n] = Next1(n, built[n - 1])
  <2> HIDE DEF built
  <2>1. 0 \in 0 .. L /\ \A n \in 1 .. L : n \in 0 .. L /\ n # 0
    OBVIOUS
  <2> QED
    BY <1>4, <2>1
<1> HIDE DEF built, Loop
<1> DEFINE Good(s, n) ==
               /\ s \in Seq(R)
               /\ \A k \in DOMAIN s :
                     /\ s[k].name \notin NamesOf(existing)
                     /\ \E m \in selected \cap (1 .. n) : From(s[k], p, m)
               /\ \A k, l \in DOMAIN s : k # l =>
                     /\ s[k].name # s[l].name
                     /\ \E m, i \in selected \cap (1 .. n) :
                           m # i /\ From(s[k], p, m) /\ From(s[l], p, i)
           T == {n \in Nat : n <= L => Good(built[n], n)}
<1>7. 0 \in T
  <2>1. <<>> \in Seq(R) /\ DOMAIN <<>> = {}
    OBVIOUS
  <2>2. Good(<<>>, 0)
    BY <2>1
  <2> HIDE DEF Good
  <2> QED
    BY <1>6, <2>2
<1>8. ASSUME NEW n \in 1 .. L, NEW s, Good(s, n - 1)
      PROVE  Good(Next1(n, s), n)
  <2>1. 1 .. n - 1 \subseteq 1 .. n /\ n \in 1 .. n /\ n \notin 1 .. n - 1
    OBVIOUS
  <2>2. CASE n \notin selected
    BY <1>8, <2>1, <2>2
  <2>3. CASE n \in selected
    <3> DEFINE r == Made(n, s)
               t == Append(s, r)
    <3>1. /\ r \in R /\ r.name \notin NamesOf(existing) \cup NamesOf(s)
          /\ From(r, p, n)
      BY <1>1, <1>8
    <3> HIDE DEF r
    <3>2. /\ t \in Seq(R) /\ Len(s) \in Nat
          /\ DOMAIN t = DOMAIN s \cup {Len(s) + 1} /\ Len(s) + 1 \notin DOMAIN s
          /\ \A k \in DOMAIN s : t[k] = s[k]
          /\ t[Len(s) + 1] = r
      BY <1>8, <3>1, AppendProperties
    <3> HIDE DEF t
    <3>3. \A k \in DOMAIN s : s[k].name # r.name
      BY <3>1 DEF NamesOf
    <3>4. ASSUME NEW k \in DOMAIN t
          PROVE  /\ t[k].name \notin NamesOf(existing)
                 /\ \E m \in selected \cap (1 .. n) : From(t[k], p, m)
      BY <1>8, <2>1, <2>3, <3>1, <3>2
    <3>5. ASSUME NEW k \in DOMAIN t, NEW l \in DOMAIN t, k # l
          PROVE  /\ t[k].name # t[l].name
                 /\ \E m, i \in selected \cap (1 .. n) :
                       m # i /\ From(t[k], p, m) /\ From(t[l], p, i)
      <4>1. CASE k \in DOMAIN s /\ l \in DOMAIN s
        BY <1>8, <2>1, <3>2, <3>5, <4>1
      <4>2. CASE k \in DOMAIN s /\ l = Len(s) + 1
        <5>1. PICK m \in selected \cap (1 .. n - 1) : From(s[k], p, m)
          BY <1>8, <4>2
        <5> QED
          BY <2>1, <2>3, <3>1, <3>2, <3>3, <4>2, <5>1
      <4>3. CASE l \in DOMAIN s /\ k = Len(s) + 1
        <5>1. PICK m \in selected \cap (1 .. n - 1) : From(s[l], p, m)
          BY <1>8, <4>3
        <5> QED
          BY <2>1, <2>3, <3>1, <3>2, <3>3, <4>3, <5>1
      <4> QED
        BY <3>2, <3>5, <4>1, <4>2, <4>3
    <3>6. Next1(n, s) = t
      BY <2>3 DEF t, r
    <3> HIDE DEF Next1
    <3> QED
      BY <3>2, <3>4, <3>5, <3>6
  <2> QED
    BY <2>2, <2>3
<1>9. ASSUME NEW n \in T PROVE n + 1 \in T
  <2> SUFFICES ASSUME n + 1 <= L PROVE Good(built[n + 1], n + 1)
    OBVIOUS
  <2>1. n \in Nat /\ n + 1 \in 1 .. L /\ (n + 1) - 1 = n
    BY <1>9
  <2>2. Good(built[n], n)
    BY <1>9, <2>1
  <2> HIDE DEF Good, Next1
  <2> QED
    BY <1>6, <1>8, <2>1, <2>2
<1>10. Good(new, L)
  <2> HIDE DEF Good
  <2>1. T \in SUBSET Nat
    OBVIOUS
  <2> HIDE DEF T
  <2>2. T = Nat
    BY <1>7, <1>9, <2>1, EveryNumber
  <2> QED
    BY <1>5, <2>2 DEF T
<1> QED
  BY <1>10 DEF new

-----------------------------------------------------------------------------
\* What a preview promises

\* A preview is what ssh printed for a host, held against some rules.
IsPreview(p) ==
    \E host \in Hosts, output \in Outputs : p = Preview(host, output, p.existing)

\* A rule as the constructors of Rule make it.
IsRule(r) ==
    /\ Listens(r)
    /\ r.dport \in Ports \cup {None}
    /\ r.kind = "dynamic" => r.dest = None

\* A list, whatever its elements.
IsList(s) == s \in Seq({s[n] : n \in DOMAIN s})

\* Any sequence is one.
LEMMA SequencesAreLists == ASSUME NEW R, NEW s \in Seq(R) PROVE IsList(s)
BY DEF IsList

\* The fields of a forwarding.
LEMMA ForwardFields ==
    ASSUME NEW f \in Forwards
    PROVE  /\ Listens(f) /\ f.dport \in Ports \cup {None}
           /\ f.kind = "dynamic" => f.dest = None
           /\ Forward(f.kind, f.address, f.port, f.dest, f.dport) = f
<1>1. PICK kind \in Kinds, address \in BindAddress, port \in Ports, dest \in Dests,
           dport \in Ports : f = Forward(kind, address, port, dest, dport)
  BY DEF Forwards
<1> QED
  BY <1>1 DEF Forward, Listens

\* A rule made of a forwarding is a rule, under any name.
LEMMA NewRuleIsRule ==
    ASSUME NEW f \in Forwards, NEW id, NEW name, NEW host
    PROVE  IsRule(NewRule(id, name, host, f))
BY ForwardFields DEF NewRule, IsRule, Listens

\* parse_forward yields a forwarding or the reason why there is none.
LEMMA ParseSound ==
    ASSUME NEW d \in Directive, NEW gatewayPorts \in BOOLEAN
    PROVE  \/ Parse(d, gatewayPorts) \in Forwards
           \/ Parse(d, gatewayPorts).kind \in {"unsupported", "invalid"}
<1> DEFINE address == IF d.address = None THEN DefaultBind(d.kind, gatewayPorts)
                      ELSE d.address
           Mismatch == (d.kind = "dynamic") # (d.dest = None)
           NoForwarding == \/ d.socket
                           \/ d.port = None
                           \/ d.kind = "remote" /\ d.dest = None
                           \/ Mismatch
                           \/ d.dest # None /\ d.dport = None
<1>1. /\ d.kind \in Kinds /\ d.address \in BindAddress \cup {None}
      /\ d.port \in Ports \cup {None} /\ d.dest \in Dests \cup {None}
      /\ d.dport \in Ports \cup {None}
  BY DEF Directive
<1>2. address \in BindAddress
  BY <1>1 DEF DefaultBind, BindAddress
<1> HIDE DEF address
<1>3. \A why : NoForward(why).kind = why
  BY DEF NoForward, Forward
<1>4. CASE NoForwarding
  BY <1>3, <1>4 DEF Parse
<1>5. CASE ~NoForwarding
  <2>1. /\ ~d.socket /\ ~(d.port = None)
        /\ ~(d.kind = "remote" /\ d.dest = None)
        /\ ~Mismatch
        /\ ~(d.dest # None /\ d.dport = None)
    <3> HIDE DEF Mismatch
    <3> QED
      BY <1>5
  <2>2. Parse(d, gatewayPorts) = Forward(d.kind, address, d.port, d.dest, d.dport)
    BY <2>1, Zenon DEF Parse, address
  <2>3. d.port \in Ports
    BY <1>1, <2>1
  <2>4. d.kind = "dynamic" <=> d.dest = None
    BY <2>1, Zenon
  <2>5. CASE d.kind = "dynamic"
    <3>1. Forward(d.kind, address, d.port, d.dest, d.dport)
             = Forward(d.kind, address, d.port, Lo, d.port)
      BY <2>5 DEF Forward
    <3>2. Lo \in Dests
      BY EditorAssumption
    <3> QED
      BY <1>1, <1>2, <2>2, <2>3, <3>1, <3>2 DEF Forwards
  <2>6. CASE d.kind # "dynamic"
    <3>1. d.dest \in Dests /\ d.dport \in Ports
      BY <1>1, <2>1, <2>6, <2>4
    <3> QED
      BY <1>1, <1>2, <2>2, <2>3, <3>1 DEF Forwards
  <2> QED
    BY <2>5, <2>6
<1> QED
  BY <1>4, <1>5

\* The supported candidates of a preview are forwardings that conflict neither
\* with each other nor with the rules the preview was made of.
LEMMA PreviewSound ==
    ASSUME NEW p, IsPreview(p)
    PROVE  \E L \in Nat :
              /\ DOMAIN p.forwards = 1 .. L /\ Len(p.forwards) = L
              /\ Supported(p) \subseteq 1 .. L
              /\ \A n \in Supported(p) :
                    /\ p.forwards[n] \in Forwards
                    /\ \A m \in DOMAIN p.existing :
                          ~ConflictsRule(p.host, p.forwards[n], p.existing[m])
                    /\ \A m \in Supported(p) :
                          m # n => ~ForwardsConflict(p.forwards[n], p.forwards[m])
<1>1. PICK host \in Hosts, o \in Outputs : p = Preview(host, o, p.existing)
  BY DEF IsPreview
<1> DEFINE L == Len(o.lines)
           fs == [n \in DOMAIN o.lines |-> Parse(o.lines[n], o.gatewayPorts)]
<1>2. o.lines \in Seq(Directive) /\ o.gatewayPorts \in BOOLEAN
  BY OutputsAssumption
<1>3. L \in Nat /\ DOMAIN o.lines = 1 .. L /\ \A n \in 1 .. L : o.lines[n] \in Directive
  BY <1>2
<1>4. p.host = host /\ p.forwards = fs /\ p.class = Classes(fs, host, p.existing)
  BY <1>1 DEF Preview
<1>5. \A n \in 1 .. L : fs[n] \in Forwards \/ fs[n].kind \in {"unsupported", "invalid"}
  BY <1>2, <1>3, ParseSound
<1>6. DOMAIN fs = 1 .. L /\ Len(fs) = L
  BY <1>3
<1> HIDE DEF fs, L
<1>7. /\ DOMAIN p.class = 1 .. L
      /\ \A n \in 1 .. L : p.class[n] = "supported" =>
            /\ fs[n].kind \in Kinds \/ fs[n].kind = "supported"
            /\ fs[n].kind \in Kinds =>
                  /\ \A m \in DOMAIN p.existing : ~ConflictsRule(host, fs[n], p.existing[m])
                  /\ \A m \in 1 .. n - 1 :
                        p.class[m] = "supported" => ~ForwardsConflict(fs[n], fs[m])
  BY <1>3, <1>4, <1>6, ClassesSound
<1>8. \A n \in Supported(p) : n \in 1 .. L /\ p.class[n] = "supported"
  BY <1>7 DEF Supported
<1>9. ASSUME NEW n \in Supported(p)
      PROVE  /\ fs[n] \in Forwards /\ fs[n].kind \in Kinds
             /\ \A m \in DOMAIN p.existing : ~ConflictsRule(host, fs[n], p.existing[m])
             /\ \A m \in 1 .. n - 1 :
                   p.class[m] = "supported" => ~ForwardsConflict(fs[n], fs[m])
  <2>1. fs[n] \in Forwards => fs[n].kind \in Kinds
    BY ForwardFields DEF Listens
  <2>2. fs[n].kind \in Kinds \/ fs[n].kind = "supported"
    BY <1>7, <1>8
  <2>3. fs[n] \in Forwards
    BY <1>5, <1>8, <2>2 DEF Kinds
  <2> QED
    BY <1>7, <1>8, <2>1, <2>3
<1>10. ASSUME NEW n \in Supported(p), NEW m \in Supported(p), m # n
       PROVE  ~ForwardsConflict(fs[n], fs[m])
  <2>1. n \in 1 .. L /\ m \in 1 .. L /\ (m \in 1 .. n - 1 \/ n \in 1 .. m - 1)
    BY <1>3, <1>8, <1>10
  <2> QED
    BY <1>8, <1>9, <2>1, ConflictSymmetric
<1> QED
  BY <1>3, <1>4, <1>6, <1>8, <1>9, <1>10

\* What is made of supported candidates are rules.
LEMMA NewAreRules ==
    ASSUME NEW p, IsPreview(p), NEW selected \in SUBSET Supported(p), NEW existing,
           IsFiniteSet(DOMAIN existing)
    PROVE  LET new == SelectedRules(p, selected, existing)
           IN  IsList(new) /\ \A k \in DOMAIN new : IsRule(new[k])
<1> DEFINE new == SelectedRules(p, selected, existing)
<1>1. PICK L \in Nat :
         /\ DOMAIN p.forwards = 1 .. L /\ Len(p.forwards) = L
         /\ \A n \in Supported(p) : p.forwards[n] \in Forwards
  BY PreviewSound
<1>2. /\ \E R : new \in Seq(R)
      /\ \A k \in DOMAIN new : \E n \in selected \cap (1 .. L) : From(new[k], p, n)
  BY <1>1, SelectionSound
<1>3. ASSUME NEW k \in DOMAIN new PROVE IsRule(new[k])
  <2>1. PICK n \in selected : From(new[k], p, n)
    BY <1>2
  <2>2. p.forwards[n] \in Forwards
    BY <1>1
  <2> QED
    BY <2>1, <2>2, ForwardFields DEF From, IsRule, Listens
<1> QED
  BY <1>2, <1>3, SequencesAreLists

\* A preview that is not outdated keeps its promise, for any selection.
LEMMA PromiseKept ==
    ASSUME NEW p, IsPreview(p), IsList(rules), Valid(rules), NEW selected, NEW existing
    PROVE  Promise(p, selected, existing)
<1> SUFFICES ASSUME selected \subseteq Supported(p), p.existing = rules, existing = rules
             PROVE  LET new == SelectedRules(p, selected, existing)
                        all == rules \o new
                    IN  /\ Valid(all)
                        /\ \A n \in Len(rules) + 1 .. Len(all) : \A m \in 1 .. n - 1 :
                              ~ConflictsRule(p.host, ForwardOf(all[n]), all[m])
  BY DEF Promise
<1> DEFINE new == SelectedRules(p, selected, existing)
           all == rules \o new
           M == Len(rules)
<1>1. PICK R : rules \in Seq(R)
  BY DEF IsList
<1>2. M \in Nat /\ DOMAIN rules = 1 .. M /\ IsFiniteSet(DOMAIN rules)
  BY <1>1, FS_Interval
<1>3. PICK L \in Nat :
         /\ DOMAIN p.forwards = 1 .. L /\ Len(p.forwards) = L
         /\ \A n \in Supported(p) :
               /\ p.forwards[n] \in Forwards
               /\ \A m \in 1 .. M : ~ConflictsRule(p.host, p.forwards[n], rules[m])
               /\ \A m \in Supported(p) :
                     m # n => ~ForwardsConflict(p.forwards[n], p.forwards[m])
  BY <1>2, PreviewSound
<1>4. /\ \E Q : new \in Seq(Q)
      /\ \A k \in DOMAIN new :
            /\ new[k].name \notin NamesOf(rules)
            /\ \E n \in selected : From(new[k], p, n)
      /\ \A k, l \in DOMAIN new : k # l =>
            /\ new[k].name # new[l].name
            /\ \E m, n \in selected : m # n /\ From(new[k], p, m) /\ From(new[l], p, n)
  BY <1>2, <1>3, SelectionSound
<1>5. PICK Q : new \in Seq(Q)
  BY <1>4
<1> HIDE DEF new
<1>6. /\ all \in Seq(R \cup Q) /\ Len(all) = M + Len(new) /\ Len(new) \in Nat
      /\ DOMAIN new = 1 .. Len(new)
      /\ \A k \in 1 .. M : all[k] = rules[k]
      /\ \A k \in M + 1 .. Len(all) : k - M \in DOMAIN new /\ all[k] = new[k - M]
  <2>1. rules \in Seq(R \cup Q) /\ new \in Seq(R \cup Q)
    BY <1>1, <1>5
  <2>2. /\ all \in Seq(R \cup Q) /\ Len(all) = M + Len(new)
        /\ \A k \in 1 .. M + Len(new) : all[k] = IF k <= M THEN rules[k] ELSE new[k - M]
    BY <2>1, ConcatProperties
  <2>3. Len(new) \in Nat /\ DOMAIN new = 1 .. Len(new)
    BY <1>5
  <2> HIDE DEF all, M
  <2> QED
    BY <1>2, <2>2, <2>3
<1> HIDE DEF all, M
<1>7. ASSUME NEW k \in DOMAIN new, NEW n \in selected, From(new[k], p, n)
      PROVE  /\ ForwardOf(new[k]) = p.forwards[n] /\ new[k].host = p.host
             /\ p.forwards[n] \in Forwards
  <2>1. p.forwards[n] \in Forwards
    BY <1>3
  <2> QED
    BY <1>7, <2>1, ForwardFields DEF From, ForwardOf
\* Two listeners on this host are a conflict.
<1>8. ASSUME NEW r, NEW s, SameListener(r, s)
      PROVE  ForwardsConflict(r, s) /\ r.kind # "remote"
  BY <1>8 DEF SameListener, ForwardsConflict, SameEnd, HasLocalListener
<1>10. ASSUME NEW k \in DOMAIN new, NEW m \in 1 .. M
       PROVE  /\ ~ConflictsRule(p.host, ForwardOf(new[k]), rules[m])
              /\ Pair(new[k], rules[m])
  <2>1. PICK n \in selected : From(new[k], p, n)
    BY <1>4
  <2>2. ~ConflictsRule(p.host, ForwardOf(new[k]), rules[m])
    BY <1>3, <1>7, <2>1
  <2>3. ~SameListener(new[k], rules[m])
    <3>1. /\ ForwardOf(new[k]).kind = new[k].kind
          /\ ForwardOf(new[k]).address = new[k].address
          /\ ForwardOf(new[k]).port = new[k].port
      BY DEF ForwardOf, Forward
    <3>2. ForwardsConflict(new[k], rules[m])
             => ForwardsConflict(ForwardOf(new[k]), rules[m])
      BY <3>1 DEF ForwardsConflict, SameEnd
    <3> QED
      BY <1>8, <2>2, <3>1, <3>2 DEF ConflictsRule
  <2>4. new[k].name # rules[m].name
    BY <1>2, <1>4 DEF NamesOf
  <2> QED
    BY <2>2, <2>3, <2>4 DEF Pair
<1>11. ASSUME NEW k \in DOMAIN new, NEW l \in DOMAIN new, k # l
       PROVE  /\ ~ConflictsRule(p.host, ForwardOf(new[k]), new[l])
              /\ Pair(new[k], new[l])
  <2>1. PICK m \in selected, n \in selected :
           m # n /\ From(new[k], p, m) /\ From(new[l], p, n)
    BY <1>4, <1>11
  <2>2. ~ForwardsConflict(p.forwards[m], p.forwards[n])
    BY <1>3, <2>1
  <2>3. ~ForwardsConflict(ForwardOf(new[k]), new[l])
    BY <1>7, <2>1, <2>2 DEF From, ForwardsConflict, SameEnd
  <2>4. ~SameListener(new[k], new[l])
    BY <1>8, <2>1, <2>2 DEF From, ForwardsConflict, SameEnd
  <2> QED
    BY <1>4, <1>11, <2>3, <2>4 DEF Pair, ConflictsRule
<1>12. \A k \in DOMAIN all :
          k \in 1 .. M \/ (k \in M + 1 .. Len(all) /\ k - M \in DOMAIN new)
  BY <1>2, <1>6
<1>13. Valid(all)
  <2>1. \A k, l \in DOMAIN rules : k # l => Pair(rules[k], rules[l])
    BY <1>1, ValidIsPairwise
  <2>2. ASSUME NEW k \in DOMAIN all, NEW l \in DOMAIN all, k # l
        PROVE  Pair(all[k], all[l])
    <3>1. CASE k \in 1 .. M /\ l \in 1 .. M
      BY <1>2, <1>6, <2>1, <2>2, <3>1
    <3>2. CASE k \in M + 1 .. Len(all) /\ l \in 1 .. M
      BY <1>6, <1>10, <3>2
    <3>3. CASE k \in 1 .. M /\ l \in M + 1 .. Len(all)
      BY <1>6, <1>10, <3>3, SameListenerSymmetric DEF Pair
    <3>4. CASE k \in M + 1 .. Len(all) /\ l \in M + 1 .. Len(all)
      <4>1. k - M # l - M
        BY <1>2, <1>6, <2>2, <3>4
      <4> QED
        BY <1>6, <1>11, <3>4, <4>1
    <3> QED
      BY <1>12, <3>1, <3>2, <3>3, <3>4
  <2> QED
    BY <1>6, <2>2, ValidIsPairwise
<1>14. ASSUME NEW n \in M + 1 .. Len(all), NEW m \in 1 .. n - 1
       PROVE  ~ConflictsRule(p.host, ForwardOf(all[n]), all[m])
  <2>1. CASE m \in 1 .. M
    BY <1>6, <1>10, <2>1
  <2>2. CASE m \in M + 1 .. Len(all)
    <3>1. n - M # m - M
      BY <1>2, <1>6, <1>14
    <3> QED
      BY <1>6, <1>11, <2>2, <3>1
  <2>3. m \in 1 .. M \/ m \in M + 1 .. Len(all)
    BY <1>2, <1>6
  <2> QED
    BY <2>1, <2>2, <2>3
<1> QED
  BY <1>13, <1>14 DEF new, all, M

-----------------------------------------------------------------------------
\* The inductive invariant

\* The daemon's rules are rules, and validate_rule_set accepts them.
RulesOK ==
    /\ IsList(rules) /\ Valid(rules)
    /\ \A n \in DOMAIN rules : IsRule(rules[n])

\* What the TUI shows are rules, however old.
ViewOK ==
    /\ IsFiniteSet(DOMAIN view)
    /\ \A n \in DOMAIN view : IsRule(view[n].rule)

\* A form knows the rule it edits if that was active, and keeps its host.
IsForm(f) ==
    /\ DOMAIN f = {"type", "id", "original", "host", "name", "kind", "remote", "local"}
    /\ f.kind \in Kinds
    /\ f.remote \in Ports \cup {None} /\ f.local \in Ports \cup {None}
    /\ f.original # None => IsRule(f.original) /\ f.host = f.original.host

\* The panel holds the preview it was opened with.
IsPanel(d) ==
    /\ DOMAIN d = {"type", "id", "selected", "confirming", "preview"}
    /\ IsPreview(d.preview)
    /\ d.selected \subseteq Supported(d.preview)

DialogOK ==
    /\ dialog # None /\ dialog.type \in {"form", "saved"} => IsForm(dialog)
    /\ InPanel => IsPanel(dialog)

PlanOK == plan # None => IsPreview(plan) /\ IsFiniteSet(DOMAIN plan.existing)

EditorInv == RulesOK /\ ViewOK /\ DialogOK /\ PlanOK

\* A list has finitely many places.
LEMMA ListsAreFinite ==
    ASSUME NEW s, IsList(s)
    PROVE  IsFiniteSet(DOMAIN s)
<1>1. Len(s) \in Nat /\ DOMAIN s = 1 .. Len(s)
  BY DEF IsList
<1> QED
  BY <1>1, FS_Interval

\* What load_rules shows of rules that are rules.
LEMMA LoadedOK ==
    ASSUME NEW rs, IsList(rs), \A n \in DOMAIN rs : IsRule(rs[n]), NEW running
    PROVE  LET v == Loaded(rs, running)
           IN  IsFiniteSet(DOMAIN v) /\ \A n \in DOMAIN v : IsRule(v[n].rule)
<1>1. DOMAIN Loaded(rs, running) = DOMAIN rs
  BY DEF Loaded
<1>2. \A n \in DOMAIN rs : Loaded(rs, running)[n].rule = rs[n]
  BY DEF Loaded
<1> QED
  BY <1>1, <1>2, ListsAreFinite

-----------------------------------------------------------------------------
\* The requests

\* ForwardAdd keeps the rules valid, in place of another one or not.
LEMMA AddKeepsRules ==
    ASSUME RulesOK, NEW r, IsRule(r), ForwardAdd(r)
    PROVE  RulesOK'
<1>1. PICK R : rules \in Seq(R)
  BY DEF RulesOK, IsList
<1> DEFINE all == R \cup {r}
<1>2. rules \in Seq(all) /\ r \in all
  BY <1>1
<1>3. CASE r.id \in IdsOf(rules)
  <2>1. At(rules, r.id) \in DOMAIN rules
    BY <1>3 DEF IdsOf, At
  <2>2. rules' = [rules EXCEPT ![At(rules, r.id)] = r] /\ Valid(rules')
    BY <1>3 DEF ForwardAdd, Replace
  <2>3. rules' \in Seq(all) /\ DOMAIN rules' = DOMAIN rules
    BY <1>2, <2>1, <2>2
  <2>4. \A n \in DOMAIN rules' : rules'[n] = r \/ rules'[n] = rules[n]
    BY <2>2
  <2> HIDE DEF all
  <2>5. IsList(rules')
    BY <2>3, SequencesAreLists
  <2> QED
    BY <2>2, <2>3, <2>4, <2>5 DEF RulesOK
<1>4. CASE r.id \notin IdsOf(rules)
  <2>1. rules' = Append(rules, r) /\ Valid(rules')
    BY <1>4 DEF ForwardAdd, Append1
  <2>2. /\ rules' \in Seq(all) /\ DOMAIN rules' = 1 .. Len(rules) + 1
        /\ \A n \in DOMAIN rules : rules'[n] = rules[n]
        /\ rules'[Len(rules) + 1] = r
    BY <1>2, <2>1, AppendProperties
  <2>3. \A n \in DOMAIN rules' : n \in DOMAIN rules \/ n = Len(rules) + 1
    BY <1>1, <2>2
  <2> HIDE DEF all
  <2>4. IsList(rules')
    BY <2>2, SequencesAreLists
  <2> QED
    BY <2>1, <2>2, <2>3, <2>4 DEF RulesOK
<1> QED
  BY <1>3, <1>4

\* ForwardImport keeps them valid.
LEMMA ImportKeepsRules ==
    ASSUME RulesOK, NEW new, IsList(new), \A k \in DOMAIN new : IsRule(new[k]),
           ForwardImport(new)
    PROVE  RulesOK'
<1>1. PICK R : rules \in Seq(R)
  BY DEF RulesOK, IsList
<1>2. /\ \A k \in 1 .. Len(new) : IsRule(new[k])
      /\ Len(new) = 1 \/ Len(new) = 2
  BY DEF IsList, ForwardImport
<1>3. CASE Len(new) = 1
  <2> DEFINE r == new[1]
             all == R \cup {r}
  <2>1. Append1(r)
    BY <1>3 DEF ForwardImport
  <2>2. rules' = Append(rules, r) /\ Valid(rules') /\ IsRule(r)
    <3> HIDE DEF r
    <3>1. rules' = Append(rules, r) /\ Valid(rules')
      BY <2>1 DEF Append1
    <3>2. IsRule(r)
      BY <1>2, <1>3 DEF r
    <3> QED
      BY <3>1, <3>2
  <2>3. rules \in Seq(all) /\ r \in all
    BY <1>1
  <2> HIDE DEF r, all
  <2>4. /\ rules' \in Seq(all) /\ DOMAIN rules' = 1 .. Len(rules) + 1
        /\ \A n \in DOMAIN rules : rules'[n] = rules[n]
        /\ rules'[Len(rules) + 1] = r
    BY <2>2, <2>3, AppendProperties
  <2>5. \A n \in DOMAIN rules' : n \in DOMAIN rules \/ n = Len(rules) + 1
    BY <1>1, <2>4
  <2>6. IsList(rules')
    BY <2>4, SequencesAreLists
  <2> QED
    BY <2>2, <2>4, <2>5, <2>6 DEF RulesOK
<1>4. CASE Len(new) = 2
  <2> DEFINE r == new[1]
             s == new[2]
             all == R \cup {r, s}
  <2>1. Import(r, s)
    BY <1>4 DEF ForwardImport
  <2>2. rules' = rules \o <<r, s>> /\ Valid(rules') /\ IsRule(r) /\ IsRule(s)
    <3> HIDE DEF r, s
    <3>1. rules' = rules \o <<r, s>> /\ Valid(rules')
      BY <2>1 DEF Import
    <3>2. IsRule(r) /\ IsRule(s)
      BY <1>2, <1>4 DEF r, s
    <3> QED
      BY <3>1, <3>2
  <2>3. rules \in Seq(all) /\ <<r, s>> \in Seq(all)
    BY <1>1
  <2> HIDE DEF r, s, all
  <2>4. /\ rules' \in Seq(all) /\ Len(rules) \in Nat
        /\ DOMAIN rules = 1 .. Len(rules)
        /\ DOMAIN rules' = 1 .. Len(rules) + 2
        /\ \A n \in DOMAIN rules' :
              rules'[n] = IF n <= Len(rules) THEN rules[n] ELSE <<r, s>>[n - Len(rules)]
    BY <2>2, <2>3, ConcatProperties
  <2>5. ASSUME NEW n \in DOMAIN rules'
        PROVE  IsRule(rules'[n])
    <3>1. \/ n \in DOMAIN rules /\ rules'[n] = rules[n]
          \/ rules'[n] = r \/ rules'[n] = s
      BY <2>4
    <3> QED
      BY <2>2, <3>1 DEF RulesOK
  <2>6. IsList(rules')
    BY <2>4, SequencesAreLists
  <2> QED
    BY <2>2, <2>5, <2>6 DEF RulesOK
<1> QED
  BY <1>2, <1>3, <1>4

\* ForwardRemove keeps them valid without looking.
LEMMA RemoveKeepsRules ==
    ASSUME RulesOK, NEW i, ForwardRemove(i)
    PROVE  RulesOK'
<1> DEFINE n == At(rules, i)
<1>1. PICK R : rules \in Seq(R)
  BY DEF RulesOK, IsList
<1>2. n \in DOMAIN rules
  BY DEF ForwardRemove, IdsOf, At
<1>3. rules' = SubSeq(rules, 1, n - 1) \o SubSeq(rules, n + 1, Len(rules))
  BY DEF ForwardRemove, Remove
<1> HIDE DEF n
<1>4. Valid(rules')
  BY <1>1, <1>2, <1>3, RemovalKeepsValid DEF RulesOK
<1>5. /\ rules' \in Seq(R) /\ DOMAIN rules' = 1 .. Len(rules) - 1
      /\ \A k \in DOMAIN rules' : rules'[k] = IF k < n THEN rules[k] ELSE rules[k + 1]
  BY <1>1, <1>2, <1>3, Removal
<1>6. \A k \in DOMAIN rules' : k \in DOMAIN rules /\ k + 1 \in DOMAIN rules
  BY <1>1, <1>5
<1> QED
  BY <1>4, <1>5, <1>6, SequencesAreLists DEF RulesOK

\* ForwardEditActive too.
LEMMA EditKeepsRules ==
    ASSUME RulesOK, NEW expected, NEW r, IsRule(r), ForwardEditActive(expected, r)
    PROVE  RulesOK'
<1> DEFINE n == At(rules, r.id)
<1>1. PICK R : rules \in Seq(R)
  BY DEF RulesOK, IsList
<1>2. rules' = [rules EXCEPT ![n] = r] /\ Valid(rules')
  BY DEF ForwardEditActive, Replace
<1> HIDE DEF n
<1>3. rules' \in Seq(R \cup {r}) /\ DOMAIN rules' = DOMAIN rules
  <2> DEFINE all == R \cup {r}
  <2>1. rules \in Seq(all) /\ r \in all
    BY <1>1
  <2> HIDE DEF all
  <2>2. Len(rules) \in Nat /\ rules \in [1 .. Len(rules) -> all]
    BY <2>1
  <2>3. rules' \in [1 .. Len(rules) -> all]
    BY <1>2, <2>1, <2>2
  <2>4. rules' \in Seq(all) /\ DOMAIN rules' = DOMAIN rules
    BY <2>2, <2>3
  <2> QED
    BY <2>4 DEF all
<1>4. \A k \in DOMAIN rules' : rules'[k] = r \/ rules'[k] = rules[k]
  BY <1>2
<1>5. IsList(rules')
  BY <1>3, SequencesAreLists
<1> QED
  BY <1>2, <1>3, <1>4, <1>5 DEF RulesOK

-----------------------------------------------------------------------------
\* The clients

\* The keys leave the form's identity, host and original alone.
LEMMA TypedIsForm ==
    ASSUME NEW f, IsForm(f), NEW g \in Typed(f)
    PROVE  /\ IsForm(g)
           /\ g.id = f.id /\ g.original = f.original /\ g.host = f.host
<1>1. PICK name \in Names \cup {f.name}, kind \in Kinds,
           remote \in Ports \cup {f.remote}, local \in Ports \cup {f.local} :
         g = Filled(f, name, kind, remote, local)
  BY DEF Typed
<1>2. /\ DOMAIN g = DOMAIN f
      /\ g.id = f.id /\ g.original = f.original /\ g.host = f.host
      /\ g.kind = kind /\ g.remote = remote /\ g.local = local
  BY <1>1 DEF IsForm, Filled
<1> QED
  BY <1>2 DEF IsForm

\* Form::payload makes a rule of a complete form.
LEMMA PayloadIsRule ==
    ASSUME NEW f, IsForm(f), Complete(f)
    PROVE  /\ IsRule(Payload(f)) /\ Payload(f).host = f.host
           /\ f.original # None /\ Payload(f).kind = f.original.kind
                 => /\ Payload(f).address = f.original.address
                    /\ Payload(f).dest = f.original.dest
<1> DEFINE kept == f.original # None /\ f.original.kind = f.kind
           address == IF kept THEN f.original.address ELSE Lo
           dest == IF kept THEN f.original.dest ELSE Lo
           port == IF f.kind = "remote" THEN f.remote ELSE f.local
           dport == IF f.kind = "remote" THEN f.local ELSE f.remote
           r == Payload(f)
<1>1. /\ r.host = f.host /\ r.kind = f.kind /\ r.address = address /\ r.port = port
      /\ r.dest = IF f.kind = "dynamic" THEN None ELSE dest
      /\ r.dport = IF f.kind = "dynamic" THEN None ELSE dport
  BY DEF Payload, NewRule, Forward
<1>2. address \in BindAddress
  BY EditorAssumption DEF IsForm, IsRule, Listens, BindAddress
<1>3. port \in Ports /\ dport \in Ports \cup {None}
  BY DEF IsForm, Complete, Kinds
<1>4. f.kind \in Kinds
  BY DEF IsForm
<1>5. kept /\ f.kind = "dynamic" => dest = None
  BY DEF IsForm, IsRule
<1> HIDE DEF address, dest, port, dport, r
<1>6. IsRule(r)
  BY <1>1, <1>2, <1>3, <1>4 DEF IsRule, Listens
<1>7. ASSUME f.original # None, r.kind = f.original.kind
      PROVE  r.address = f.original.address /\ r.dest = f.original.dest
  BY <1>1, <1>5, <1>7 DEF address, dest
<1> QED
  BY <1>1, <1>6, <1>7 DEF r

\* Initially the invariant holds.
LEMMA EditorInvInit == EditorInit => EditorInv
<1> SUFFICES ASSUME EditorInit PROVE EditorInv
  OBVIOUS
<1>1. view = <<>> /\ dialog = None /\ plan = None
  BY DEF EditorInit
<1>2. ViewOK
  <2>1. DOMAIN view = {}
    BY <1>1
  <2> QED
    BY <2>1, FS_EmptySet DEF ViewOK
<1>3. DialogOK /\ PlanOK
  BY <1>1 DEF DialogOK, PlanOK, InPanel
<1>4. RulesOK
  <2>1. CASE Init
    <3>1. rules = <<>>
      BY <2>1 DEF Init
    <3> QED
      BY <3>1 DEF RulesOK, IsList, Valid
  <2>2. ASSUME NEW f \in Adds, NEW id, NEW name \in Names, NEW host \in Hosts,
               rules = <<NewRule(id, name, host, f)>>
        PROVE  RulesOK
    <3> DEFINE r == NewRule(id, name, host, f)
    <3>1. IsRule(r)
      BY AddsAssumption, NewRuleIsRule
    <3> HIDE DEF r
    <3>2. rules = <<r>>
      BY <2>2 DEF r
    <3>3. rules \in Seq({r}) /\ DOMAIN rules = {1} /\ rules[1] = r
      BY <3>2
    <3>4. Valid(rules)
      BY <3>3 DEF Valid
    <3> QED
      BY <3>1, <3>3, <3>4, SequencesAreLists DEF RulesOK
  <2> QED
    BY <2>1, <2>2 DEF EditorInit
<1> QED
  BY <1>2, <1>3, <1>4 DEF EditorInv

\* The dialogs that are opened are what they should be.
LEMMA OpenedForms ==
    ASSUME NEW r, IsRule(r), NEW isActive, NEW i
    PROVE  /\ IsForm(FormOf(r, isActive)) /\ FormOf(r, isActive).type = "form"
           /\ LET f == [FormOf(r, isActive) EXCEPT !.id = i, !.name = None]
              IN  IsForm(f) /\ f.type = "form"
<1> DEFINE f == FormOf(r, isActive)
           g == [f EXCEPT !.id = i, !.name = None]
<1>1. /\ DOMAIN f = {"type", "id", "original", "host", "name", "kind", "remote", "local"}
      /\ f.type = "form" /\ f.kind = r.kind /\ f.host = r.host
      /\ f.original = IF isActive THEN r ELSE None
      /\ f.remote = IF r.kind = "remote" THEN r.port ELSE r.dport
      /\ f.local = IF r.kind = "remote" THEN r.dport ELSE r.port
  BY DEF FormOf
<1> HIDE DEF f
<1>2. IsForm(f)
  BY <1>1 DEF IsForm, IsRule, Listens
<1>3. /\ DOMAIN g = DOMAIN f /\ g.type = f.type /\ g.kind = f.kind /\ g.host = f.host
      /\ g.original = f.original /\ g.remote = f.remote /\ g.local = f.local
  BY <1>1
<1> HIDE DEF g
<1>4. IsForm(g)
  BY <1>2, <1>3 DEF IsForm
<1> QED
  BY <1>1, <1>2, <1>3, <1>4 DEF f, g

\* What stays as it is stays right.
LEMMA DialogStays == DialogOK /\ UNCHANGED dialog => DialogOK'
BY DEF DialogOK, InPanel

LEMMA PlanStays == PlanOK /\ UNCHANGED plan => PlanOK'
BY DEF PlanOK

LEMMA ViewStays == ViewOK /\ UNCHANGED view => ViewOK'
BY DEF ViewOK

LEMMA RulesStay == RulesOK /\ UNCHANGED rules => RulesOK'
BY DEF RulesOK

\* What the TUI loads is right if the rules are.
LEMMA ViewLoads ==
    ASSUME RulesOK, NEW running, view' = Loaded(rules, running)
    PROVE  ViewOK'
BY LoadedOK DEF RulesOK, ViewOK

LEMMA NewViewLoads ==
    ASSUME RulesOK', NEW running, view' = Loaded(rules', running)
    PROVE  ViewOK'
BY LoadedOK DEF RulesOK, ViewOK

\* Each step of the form keeps the invariant.
LEMMA FormKeepsInv == EditorInv /\ Form => EditorInv'
<1> SUFFICES ASSUME EditorInv, Form PROVE EditorInv'
  OBVIOUS
<1> USE DEF EditorInv
<1>1. ASSUME NEW host \in Hosts, NewForm(host)
      PROVE  EditorInv'
  <2>1. DialogOK'
    <3>1. dialog' = [type |-> "form", id |-> FreshId(1), original |-> None, host |-> host,
                     name |-> None, kind |-> "local", remote |-> None, local |-> None]
      BY <1>1 DEF NewForm
    <3>2. IsForm(dialog') /\ dialog'.type = "form"
      BY <3>1 DEF IsForm, Kinds
    <3> QED
      BY <3>2 DEF DialogOK, InPanel
  <2> QED
    BY <1>1, <2>1, RulesStay, ViewStays, PlanStays DEF NewForm
<1>2. ASSUME NEW n \in DOMAIN view, EditForm(n)
      PROVE  EditorInv'
  <2>1. IsForm(dialog') /\ dialog'.type = "form"
    BY <1>2, OpenedForms DEF EditForm, ViewOK
  <2>2. DialogOK'
    BY <2>1 DEF DialogOK, InPanel
  <2> QED
    BY <1>2, <2>2, RulesStay, ViewStays, PlanStays DEF EditForm
<1>3. ASSUME NEW n \in DOMAIN view, DuplicateForm(n)
      PROVE  EditorInv'
  <2>1. dialog' = [FormOf(view[n].rule, FALSE) EXCEPT !.id = FreshId(1), !.name = None]
    BY <1>3 DEF DuplicateForm
  <2>2. IsForm(dialog') /\ dialog'.type = "form"
    BY <2>1, OpenedForms DEF ViewOK
  <2>3. DialogOK'
    BY <2>2 DEF DialogOK, InPanel
  <2> QED
    BY <1>3, <2>3, RulesStay, ViewStays, PlanStays DEF DuplicateForm
<1>4. CASE Cancel
  <2>1. DialogOK'
    BY <1>4 DEF Cancel, DialogOK, InPanel
  <2> QED
    BY <1>4, <2>1, RulesStay, ViewStays, PlanStays DEF Cancel
<1>5. CASE SubmitEdit
  <2>1. IsForm(dialog)
    BY <1>5 DEF SubmitEdit, InForm, DialogOK
  <2>2. RulesOK'
    <3>1. PICK f \in Typed(dialog) :
             Complete(f) /\ (ForwardEditActive(f.original, Payload(f)) \/ Refused)
      BY <1>5 DEF SubmitEdit
    <3>2. IsRule(Payload(f))
      BY <2>1, <3>1, TypedIsForm, PayloadIsRule
    <3>3. CASE ForwardEditActive(f.original, Payload(f))
      BY <3>2, <3>3, EditKeepsRules
    <3>4. CASE Refused
      BY <3>4, RulesStay DEF Refused
    <3> QED
      BY <3>1, <3>3, <3>4
  <2>3. ViewOK'
    <3>1. view' = view \/ view' = Loaded(rules', active')
      BY <1>5 DEF SubmitEdit
    <3> QED
      BY <2>2, <3>1, ViewStays, NewViewLoads
  <2>4. DialogOK' /\ PlanOK'
    BY <1>5, PlanStays DEF SubmitEdit, DialogOK, InPanel
  <2> QED
    BY <2>2, <2>3, <2>4
<1>6. CASE SubmitAdd
  <2>1. IsForm(dialog)
    BY <1>6 DEF SubmitAdd, InForm, DialogOK
  <2>2. RulesOK'
    <3>1. PICK f \in Typed(dialog) : Complete(f) /\ ForwardAdd(Payload(f))
      BY <1>6 DEF SubmitAdd
    <3>2. IsRule(Payload(f))
      BY <2>1, <3>1, TypedIsForm, PayloadIsRule
    <3> QED
      BY <3>1, <3>2, AddKeepsRules
  <2>3. DialogOK'
    <3>1. CASE dialog' = dialog
      BY <3>1, DialogStays
    <3>2. CASE dialog' = [dialog EXCEPT !.type = "saved"]
      <4>1. IsForm(dialog') /\ dialog'.type = "saved"
        BY <2>1, <3>2 DEF IsForm
      <4> QED
        BY <4>1 DEF DialogOK, InPanel
    <3> QED
      BY <1>6, <3>1, <3>2 DEF SubmitAdd
  <2> QED
    BY <1>6, <2>2, <2>3, ViewStays, PlanStays DEF SubmitAdd
<1>7. CASE StartSaved
  <2>1. IsForm(dialog)
    BY <1>7 DEF StartSaved, DialogOK
  <2>2. CASE dialog' = None /\ view' = Loaded(rules, active')
    <3>1. DialogOK'
      BY <2>2 DEF DialogOK, InPanel
    <3>2. ViewOK'
      BY <2>2, ViewLoads
    <3> QED
      BY <1>7, <3>1, <3>2, RulesStay, PlanStays DEF StartSaved
  <2>3. CASE dialog' = [dialog EXCEPT !.type = "form"] /\ view' = view
    <3>1. IsForm(dialog') /\ dialog'.type = "form"
      BY <2>1, <2>3 DEF IsForm
    <3>2. DialogOK'
      BY <3>1 DEF DialogOK, InPanel
    <3> QED
      BY <1>7, <2>3, <3>2, RulesStay, ViewStays, PlanStays DEF StartSaved
  <2> QED
    BY <1>7, <2>2, <2>3 DEF StartSaved
<1>8. CASE Refresh
  <2>1. ViewOK'
    BY <1>8, ViewLoads DEF Refresh
  <2> QED
    BY <1>8, <2>1, RulesStay, DialogStays, PlanStays DEF Refresh
<1> QED
  BY <1>1, <1>2, <1>3, <1>4, <1>5, <1>6, <1>7, <1>8 DEF Form

\* Each step of the import panel keeps it.
LEMMA PanelKeepsInv == EditorInv /\ Panel => EditorInv'
<1> SUFFICES ASSUME EditorInv, Panel PROVE EditorInv'
  OBVIOUS
<1> USE DEF EditorInv
<1>1. ASSUME NEW host \in Hosts, NEW output \in Outputs, OpenImport(host, output)
      PROVE  EditorInv'
  <2> DEFINE p == Preview(host, output, ViewRules)
  <2>1. dialog' = [type |-> "import", id |-> None, selected |-> {}, confirming |-> FALSE,
                   preview |-> p]
    BY <1>1 DEF OpenImport
  <2>2. p.existing = ViewRules
    BY DEF Preview
  <2>3. IsPreview(p)
    BY <2>2 DEF IsPreview
  <2> HIDE DEF p
  <2>4. /\ DOMAIN dialog' = {"type", "id", "selected", "confirming", "preview"}
        /\ dialog'.type = "import" /\ dialog'.preview = p /\ dialog'.selected = {}
    BY <2>1
  <2>5. IsPanel(dialog')
    BY <2>3, <2>4 DEF IsPanel
  <2>6. DialogOK'
    BY <2>4, <2>5 DEF DialogOK, InPanel
  <2> QED
    BY <1>1, <2>6, RulesStay, ViewStays, PlanStays DEF OpenImport
<1>2. ASSUME NEW n, ToggleCandidate(n)
      PROVE  EditorInv'
  <2>1. IsPanel(dialog) /\ dialog.type = "import" /\ n \in Supported(dialog.preview)
    BY <1>2 DEF ToggleCandidate, InPanel, DialogOK
  <2>2. /\ DOMAIN dialog' = DOMAIN dialog /\ dialog'.type = dialog.type
        /\ dialog'.preview = dialog.preview
        /\ dialog'.selected = IF n \in dialog.selected THEN dialog.selected \ {n}
                              ELSE dialog.selected \cup {n}
    BY <1>2, <2>1 DEF ToggleCandidate, IsPanel
  <2>3. IsPanel(dialog')
    BY <2>1, <2>2 DEF IsPanel
  <2>4. DialogOK'
    BY <2>1, <2>2, <2>3 DEF DialogOK, InPanel
  <2> QED
    BY <1>2, <2>4, RulesStay, ViewStays, PlanStays DEF ToggleCandidate
<1>3. ASSUME InPanel, NEW b, dialog' = [dialog EXCEPT !.confirming = b]
      PROVE  DialogOK'
  <2>1. IsPanel(dialog) /\ dialog.type = "import"
    BY <1>3 DEF InPanel, DialogOK
  <2>2. /\ DOMAIN dialog' = DOMAIN dialog /\ dialog'.type = dialog.type
        /\ dialog'.preview = dialog.preview /\ dialog'.selected = dialog.selected
    BY <1>3, <2>1 DEF IsPanel
  <2>3. IsPanel(dialog')
    BY <2>1, <2>2 DEF IsPanel
  <2> QED
    BY <2>1, <2>2, <2>3 DEF DialogOK, InPanel
<1>4. CASE ConfirmImport
  <2>1. DialogOK'
    BY <1>3, <1>4 DEF ConfirmImport
  <2> QED
    BY <1>4, <2>1, RulesStay, ViewStays, PlanStays DEF ConfirmImport
<1>5. CASE SaveImport
  <2> DEFINE new == SelectedRules(dialog.preview, dialog.selected, ViewRules)
  <2>1. InPanel /\ IsPanel(dialog)
    BY <1>5 DEF SaveImport, DialogOK
  <2>2. DialogOK'
    <3>1. dialog' = None \/ dialog' = [dialog EXCEPT !.confirming = FALSE]
      BY <1>5 DEF SaveImport
    <3>2. CASE dialog' = None
      BY <3>2 DEF DialogOK, InPanel
    <3> QED
      BY <1>3, <2>1, <3>1, <3>2
  <2>3. RulesOK'
    <3>1. CASE ForwardImport(new)
      <4>1. DOMAIN ViewRules = DOMAIN view
        BY DEF ViewRules
      <4>2. IsList(new) /\ \A k \in DOMAIN new : IsRule(new[k])
        BY <2>1, <4>1, NewAreRules DEF IsPanel, ViewOK
      <4> HIDE DEF new
      <4> QED
        BY <3>1, <4>2, ImportKeepsRules
    <3>2. CASE Refused
      BY <3>2, RulesStay DEF Refused
    <3> QED
      BY <1>5, <3>1, <3>2 DEF SaveImport
  <2>4. ViewOK'
    <3>1. view' = view \/ view' = Loaded(rules', active)
      BY <1>5 DEF SaveImport
    <3> QED
      BY <2>3, <3>1, ViewStays, NewViewLoads
  <2> QED
    BY <1>5, <2>2, <2>3, <2>4, PlanStays DEF SaveImport
<1> QED
  BY <1>1, <1>2, <1>4, <1>5 DEF Panel

\* Each step of the command line, and of other clients, keeps it.
LEMMA CliKeepsInv == EditorInv /\ Cli => EditorInv'
<1> SUFFICES ASSUME EditorInv, Cli PROVE EditorInv'
  OBVIOUS
<1> USE DEF EditorInv
<1>1. ASSUME NEW host \in Hosts, NEW output \in Outputs, CliPreview(host, output)
      PROVE  EditorInv'
  <2> DEFINE p == Preview(host, output, rules)
  <2>1. plan' = p
    BY <1>1 DEF CliPreview
  <2>2. p.existing = rules
    BY DEF Preview
  <2>3. IsPreview(p)
    BY <2>2 DEF IsPreview
  <2>4. IsFiniteSet(DOMAIN p.existing)
    BY <2>2, ListsAreFinite DEF RulesOK
  <2> HIDE DEF p
  <2>5. PlanOK'
    BY <2>1, <2>3, <2>4 DEF PlanOK
  <2> QED
    BY <1>1, <2>5, RulesStay, ViewStays, DialogStays DEF CliPreview
<1>2. ASSUME NEW selected, CliImport(selected)
      PROVE  EditorInv'
  <2> DEFINE new == SelectedRules(plan, selected, plan.existing)
  <2>1. RulesOK'
    <3>1. CASE selected \subseteq Supported(plan) /\ ForwardImport(new)
      <4>1. IsPreview(plan) /\ IsFiniteSet(DOMAIN plan.existing)
        BY <1>2 DEF CliImport, PlanOK
      <4>2. IsList(new) /\ \A k \in DOMAIN new : IsRule(new[k])
        BY <3>1, <4>1, NewAreRules
      <4> HIDE DEF new
      <4> QED
        BY <3>1, <4>2, ImportKeepsRules
    <3>2. CASE Refused
      BY <3>2, RulesStay DEF Refused
    <3> QED
      BY <1>2, <3>1, <3>2 DEF CliImport
  <2>2. PlanOK'
    BY <1>2 DEF CliImport, PlanOK
  <2> QED
    BY <1>2, <2>1, <2>2, ViewStays, DialogStays DEF CliImport
<1>3. CASE CliAdd
  <2>1. PICK name \in Names, host \in Hosts, f \in Adds :
           ForwardAdd(NewRule(FreshId(1), name, host, f))
    BY <1>3 DEF CliAdd
  <2>2. IsRule(NewRule(FreshId(1), name, host, f))
    BY AddsAssumption, NewRuleIsRule
  <2>3. RulesOK'
    BY <2>1, <2>2, AddKeepsRules
  <2> QED
    BY <1>3, <2>3, ViewStays, DialogStays, PlanStays DEF CliAdd
<1>4. ASSUME NEW i, CliRemove(i)
      PROVE  EditorInv'
  <2>1. RulesOK'
    BY <1>4, RemoveKeepsRules DEF CliRemove
  <2> QED
    BY <1>4, <2>1, ViewStays, DialogStays, PlanStays DEF CliRemove
<1>5. ASSUME NEW i, StartOrStop(i)
      PROVE  EditorInv'
  BY <1>5, RulesStay, ViewStays, DialogStays, PlanStays DEF StartOrStop
<1>6. ASSUME NEW i, OtherReplaces(i)
      PROVE  EditorInv'
  <2> DEFINE name == rules[At(rules, i)].name
             host == rules[At(rules, i)].host
  <2>1. PICK f \in Adds : ForwardAdd(NewRule(i, name, host, f))
    BY <1>6 DEF OtherReplaces
  <2> HIDE DEF name, host
  <2>2. IsRule(NewRule(i, name, host, f))
    BY AddsAssumption, NewRuleIsRule
  <2>3. RulesOK'
    BY <2>1, <2>2, AddKeepsRules
  <2> QED
    BY <1>6, <2>3, ViewStays, DialogStays, PlanStays DEF OtherReplaces
<1> QED
  BY <1>1, <1>2, <1>3, <1>4, <1>5, <1>6 DEF Cli

-----------------------------------------------------------------------------
\* Theorems

\* Whatever the clients do with their copies of the rules, the daemon's list
\* stays valid, forms and panels hold what they were opened with, and previews
\* are what ssh printed held against a list of rules.
THEOREM EditorInvariant == EditorSpec => []EditorInv
<1>1. EditorInv /\ [EditorNext]_editorVars => EditorInv'
  <2>1. EditorInv /\ UNCHANGED editorVars => EditorInv'
    BY RulesStay, ViewStays, DialogStays, PlanStays DEF EditorInv, editorVars
  <2> QED
    BY <2>1, FormKeepsInv, PanelKeepsInv, CliKeepsInv DEF EditorNext
<1> QED
  BY <1>1, EditorInvInit, PTL DEF EditorSpec

\* Rules that clients made of forms, directives and arguments compete for a
\* socket only on one family's wildcard address.
THEOREM EditorClashes == EditorSpec => []ClashesAreWildcardPairs
<1>1. EditorInv => ClashesAreWildcardPairs
  <2> SUFFICES ASSUME EditorInv PROVE ClashesAreWildcardPairs
    OBVIOUS
  <2> DEFINE R == {rules[n] : n \in DOMAIN rules}
  <2>1. rules \in Seq(R) /\ (\A r \in R : Listens(r)) /\ Valid(rules)
    BY DEF EditorInv, RulesOK, IsList, IsRule
  <2> HIDE DEF R
  <2> QED
    BY <2>1, ValidClashes
<1> QED
  BY <1>1, EditorInvariant, PTL

\* And a rule that shares neither name nor socket with them is accepted.
THEOREM EditorRefusals == EditorSpec => []OnlyClashesAreRefused
<1>1. EditorInv => OnlyClashesAreRefused
  <2> SUFFICES ASSUME EditorInv PROVE OnlyClashesAreRefused
    OBVIOUS
  <2> DEFINE R == {rules[n] : n \in DOMAIN rules}
  <2>1. rules \in Seq(R) /\ (\A r \in R : Listens(r)) /\ Valid(rules)
    BY DEF EditorInv, RulesOK, IsList, IsRule
  <2> HIDE DEF R
  <2> QED
    BY <2>1, ValidAccepts
<1> QED
  BY <1>1, EditorInvariant, PTL

\* While the rules are those a preview was made of, any selection of supported
\* candidates, under the names import_rule_name gives, passes validate_rule_set
\* and meets no listener, here or on the server.
THEOREM PromiseCorrect == EditorSpec => []ImportKeepsPromise
<1>1. EditorInv => ImportKeepsPromise
  <2> SUFFICES ASSUME EditorInv PROVE ImportKeepsPromise
    OBVIOUS
  <2>1. IsList(rules) /\ Valid(rules)
    BY DEF EditorInv, RulesOK
  <2>2. InPanel => Promise(dialog.preview, dialog.selected, ViewRules)
    BY <2>1, PromiseKept DEF EditorInv, DialogOK, IsPanel
  <2>3. plan # None => \A selected : Promise(plan, selected, plan.existing)
    BY <2>1, PromiseKept DEF EditorInv, PlanOK
  <2> QED
    BY <2>2, <2>3 DEF ImportKeepsPromise
<1> QED
  BY <1>1, EditorInvariant, PTL

\* What the form of an active rule does not show changes only with the rule's
\* kind: edit_active compares the whole rule before it replaces it.
THEOREM HiddenFieldsCorrect == EditorSpec => HiddenFieldsSurvive
<1> DEFINE Survive ==
               InForm /\ dialog.original # None /\ dialog' = None =>
                  \A n \in DOMAIN rules :
                     /\ rules'[n].host = rules[n].host
                     /\ rules'[n].kind = rules[n].kind =>
                           /\ rules'[n].address = rules[n].address
                           /\ rules'[n].dest = rules[n].dest
<1>1. EditorInv /\ [EditorNext]_editorVars => [Survive]_editorVars
  <2> SUFFICES ASSUME EditorInv, EditorNext, InForm, dialog.original # None, dialog' = None,
                      NEW n \in DOMAIN rules
               PROVE  /\ rules'[n].host = rules[n].host
                      /\ rules'[n].kind = rules[n].kind =>
                            /\ rules'[n].address = rules[n].address
                            /\ rules'[n].dest = rules[n].dest
    BY DEF editorVars
  <2>1. CASE UNCHANGED rules
    BY <2>1
  <2>2. CASE SubmitEdit
    <3>1. PICK f \in Typed(dialog) :
             Complete(f) /\ (ForwardEditActive(f.original, Payload(f)) \/ Refused)
      BY <2>2 DEF SubmitEdit
    <3>2. CASE Refused
      BY <2>1, <3>2 DEF Refused
    <3>3. CASE ForwardEditActive(f.original, Payload(f))
      <4> DEFINE r == Payload(f)
                 k == At(rules, r.id)
      <4>1. IsForm(dialog)
        BY DEF InForm, EditorInv, DialogOK
      <4>2. IsForm(f) /\ f.original # None
        BY <3>1, <4>1, TypedIsForm
      <4>3. /\ r.host = f.host
            /\ r.kind = f.original.kind
                  => r.address = f.original.address /\ r.dest = f.original.dest
        BY <3>1, <4>2, PayloadIsRule
      <4>4. f.host = f.original.host
        BY <4>2 DEF IsForm
      <4>5. rules[k] = f.original /\ rules' = [rules EXCEPT ![k] = r]
        BY <3>3 DEF ForwardEditActive, Replace
      <4> HIDE DEF r, k
      <4>6. CASE n = k
        BY <4>3, <4>4, <4>5, <4>6
      <4>7. CASE n # k
        BY <4>5, <4>7
      <4> QED
        BY <4>6, <4>7
    <3> QED
      BY <3>1, <3>2, <3>3
  <2>3. dialog # None /\ dialog.type = "form"
    BY DEF InForm
  <2>4. CASE Form
    BY <2>1, <2>2, <2>3, <2>4 DEF Form, NewForm, EditForm, DuplicateForm, Cancel, SubmitAdd,
       StartSaved, Refresh
  <2>5. CASE Panel
    BY <2>3, <2>5 DEF Panel, OpenImport, ToggleCandidate, ConfirmImport, SaveImport, InPanel
  <2>6. CASE Cli
    BY <2>3, <2>6 DEF Cli, CliPreview, CliImport, CliAdd, CliRemove, StartOrStop,
       OtherReplaces
  <2> QED
    BY <2>4, <2>5, <2>6 DEF EditorNext
<1> QED
  BY <1>1, EditorInvariant, PTL DEF EditorSpec, HiddenFieldsSurvive
=============================================================================
