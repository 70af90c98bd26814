---------------------------- MODULE RuleSetProofs ----------------------------
(***************************************************************************)
(* What validate_rule_set guarantees for every set of names, ports and     *)
(* addresses: the accepted rules stay valid through every request, valid   *)
(* rules compete for a socket only on one family's wildcard address, and   *)
(* nothing else is refused.                                                *)
(***************************************************************************)
EXTENDS RuleSet, SequenceTheorems, TLAPS

Pair(r, s) == r.name # s.name /\ ~SameListener(r, s)

\* What the validator looks at, in a rule that may have more fields.
Listens(r) == r.kind \in Kinds /\ r.address \in BindAddress /\ r.port \in Ports

\* The order in which bind_addresses_overlap gets its arguments is irrelevant.
LEMMA SameListenerSymmetric ==
    \A r, s : SameListener(r, s) <=> SameListener(s, r)
  BY DEF SameListener, Overlap

\* The rules of RuleSet listen.
LEMMA RuleListens == \A r \in Rule : Listens(r)
  BY DEF Rule, Listens

\* validate_rule_set holds the rules against each other pairwise, whatever the
\* order of the list.
LEMMA ValidIsPairwise ==
    ASSUME NEW R, NEW s \in Seq(R)
    PROVE  Valid(s) <=> \A m, n \in DOMAIN s : m # n => Pair(s[m], s[n])
<1>1. ASSUME Valid(s), NEW m \in DOMAIN s, NEW n \in DOMAIN s, m # n
      PROVE  Pair(s[m], s[n])
  <2>1. m \in Nat /\ n \in Nat /\ m >= 1 /\ n >= 1
    OBVIOUS
  <2>2. CASE m < n
    <3>1. m \in 1 .. n - 1
      BY <2>1, <2>2
    <3> QED
      BY <1>1, <2>1, <3>1, SameListenerSymmetric DEF Valid, Pair
  <2>3. CASE n < m
    <3>1. n \in 1 .. m - 1
      BY <2>1, <2>3
    <3> QED
      BY <1>1, <2>1, <3>1, SameListenerSymmetric DEF Valid, Pair
  <2> QED
    BY <1>1, <2>1, <2>2, <2>3
<1>2. ASSUME \A m, n \in DOMAIN s : m # n => Pair(s[m], s[n])
      PROVE  Valid(s)
  <2> SUFFICES ASSUME NEW n \in DOMAIN s, NEW m \in 1 .. n - 1
               PROVE  s[m].name # s[n].name /\ ~SameListener(s[n], s[m])
    BY DEF Valid
  <2>1. m \in DOMAIN s /\ n \in DOMAIN s /\ m # n
    OBVIOUS
  <2> QED
    BY <1>2, <2>1 DEF Pair
<1> QED
  BY <1>1, <1>2

\* The addresses two rules share are those the classes say they share, but for
\* the two wildcard pairs: both directions for every pair of rules.
LEMMA OverlapMeansSockets ==
    ASSUME NEW r, NEW s, Listens(r), Listens(s)
    PROVE  /\ SameListener(r, s) => Sockets(r) \cap Sockets(s) # {}
           /\ Sockets(r) \cap Sockets(s) # {}
                => \/ SameListener(r, s)
                   \/ r.address = s.address /\ r.address \in Wildcards
<1> DEFINE a == r.address
           b == s.address
           Named == {"*", "localhost", "0.0.0.0", "::"}
<1>1. /\ a \in BindAddress /\ b \in BindAddress
      /\ r.kind \in Kinds /\ s.kind \in Kinds
      /\ r.port \in Ports /\ s.port \in Ports
  BY DEF Listens
<1>2. \A x \in V4 \cup V6 : x \notin Named
  BY AddressAssumption
<1>3. /\ Addresses("*") = V4 \cup V6
      /\ Addresses("0.0.0.0") = V4
      /\ Addresses("::") = V6
      /\ Addresses("localhost") = Loopback
      /\ \A x \in V4 \cup V6 : Addresses(x) = {x}
  BY <1>2 DEF Addresses
<1>4. Covers(a, b) => Addresses(a) \cap Addresses(b) # {}
  BY <1>1, <1>2, <1>3, AddressAssumption DEF Covers, BindAddress
<1>5. Covers(b, a) => Addresses(a) \cap Addresses(b) # {}
  BY <1>1, <1>2, <1>3, AddressAssumption DEF Covers, BindAddress
<1>6. Addresses(a) \cap Addresses(b) # {}
      => Covers(a, b) \/ Covers(b, a) \/ (a = b /\ a \in Wildcards)
  BY <1>1, <1>2, <1>3, AddressAssumption DEF Covers, BindAddress, Wildcards
<1>7. Sockets(r) \cap Sockets(s) # {}
      <=> /\ HasLocalListener(r) /\ HasLocalListener(s)
          /\ r.port = s.port
          /\ Addresses(a) \cap Addresses(b) # {}
  <2>1. HasLocalListener(r) <=> r.kind # "remote"
    BY <1>1 DEF HasLocalListener, Kinds
  <2>2. HasLocalListener(s) <=> s.kind # "remote"
    BY <1>1 DEF HasLocalListener, Kinds
  <2>3. Sockets(r) = IF HasLocalListener(r) THEN Addresses(a) \X {r.port} ELSE {}
    BY <2>1 DEF Sockets
  <2>4. Sockets(s) = IF HasLocalListener(s) THEN Addresses(b) \X {s.port} ELSE {}
    BY <2>2 DEF Sockets
  <2>5. (Addresses(a) \X {r.port}) \cap (Addresses(b) \X {s.port}) # {}
        <=> r.port = s.port /\ Addresses(a) \cap Addresses(b) # {}
    <3> DEFINE A == Addresses(a)
               B == Addresses(b)
               p == r.port
               q == s.port
    <3> HIDE DEF A, B, p, q
    <3>1. ASSUME NEW x \in A \cap B, p = q
          PROVE  <<x, p>> \in (A \X {p}) \cap (B \X {q})
      BY <3>1
    <3>2. ASSUME NEW x \in (A \X {p}) \cap (B \X {q})
          PROVE  p = q /\ x[1] \in A \cap B
      BY <3>2
    <3>3. (A \X {p}) \cap (B \X {q}) # {} <=> p = q /\ A \cap B # {}
      BY <3>1, <3>2
    <3> QED
      BY <3>3 DEF A, B, p, q
  <2> QED
    BY <2>3, <2>4, <2>5
<1> QED
  BY <1>4, <1>5, <1>6, <1>7 DEF SameListener, Overlap

\* What Remove leaves are rules of the list, each where it was or one earlier.
LEMMA Removal ==
    ASSUME NEW R, NEW s \in Seq(R), NEW n \in DOMAIN s
    PROVE  LET t == SubSeq(s, 1, n - 1) \o SubSeq(s, n + 1, Len(s))
           IN  /\ t \in Seq(R)
               /\ DOMAIN t = 1 .. Len(s) - 1
               /\ \A k \in DOMAIN t : t[k] = IF k < n THEN s[k] ELSE s[k + 1]
<1> DEFINE u == SubSeq(s, 1, n - 1)
           v == SubSeq(s, n + 1, Len(s))
<1>1. n \in Nat /\ Len(s) \in Nat /\ n >= 1 /\ n <= Len(s)
  OBVIOUS
<1>2. /\ u \in Seq(R) /\ Len(u) = n - 1
      /\ \A k \in 1 .. n - 1 : u[k] = s[k]
  BY <1>1, SubSeqProperties
<1>3. /\ v \in Seq(R) /\ Len(v) = Len(s) - n
      /\ \A k \in 1 .. Len(s) - n : v[k] = s[k + n]
  BY <1>1, SubSeqProperties
<1>4. /\ u \o v \in Seq(R) /\ Len(u \o v) = Len(s) - 1
      /\ \A k \in 1 .. Len(s) - 1 :
            (u \o v)[k] = IF k <= n - 1 THEN u[k] ELSE v[k - (n - 1)]
  <2> HIDE DEF u, v
  <2>1. /\ u \o v \in Seq(R) /\ Len(u \o v) = Len(u) + Len(v)
        /\ \A k \in 1 .. Len(u) + Len(v) :
              (u \o v)[k] = IF k <= Len(u) THEN u[k] ELSE v[k - Len(u)]
    BY <1>2, <1>3, ConcatProperties
  <2>2. Len(u) = n - 1 /\ Len(u) + Len(v) = Len(s) - 1
    BY <1>1, <1>2, <1>3
  <2> QED
    BY <2>1, <2>2
<1>5. \A k \in 1 .. Len(s) - 1 : (u \o v)[k] = IF k < n THEN s[k] ELSE s[k + 1]
  <2> SUFFICES ASSUME NEW k \in 1 .. Len(s) - 1
               PROVE  (u \o v)[k] = IF k < n THEN s[k] ELSE s[k + 1]
    OBVIOUS
  <2>1. CASE k < n
    BY <1>1, <1>2, <1>4, <2>1
  <2>2. CASE ~(k < n)
    <3> HIDE DEF u, v
    <3>1. k - (n - 1) \in 1 .. Len(s) - n
      BY <1>1, <2>2
    <3>2. v[k - (n - 1)] = s[(k - (n - 1)) + n]
      BY <1>3, <3>1
    <3>3. (k - (n - 1)) + n = k + 1
      BY <1>1
    <3>4. (u \o v)[k] = v[k - (n - 1)]
      BY <1>1, <1>4, <2>2
    <3> QED
      BY <2>2, <3>2, <3>3, <3>4
  <2> QED
    BY <2>1, <2>2
<1> HIDE DEF u, v
<1>6. DOMAIN (u \o v) = 1 .. Len(s) - 1
  BY <1>4
<1>7. /\ u \o v \in Seq(R)
      /\ DOMAIN (u \o v) = 1 .. Len(s) - 1
      /\ \A k \in DOMAIN (u \o v) :
            (u \o v)[k] = IF k < n THEN s[k] ELSE s[k + 1]
  BY <1>4, <1>5, <1>6
<1> QED
  BY <1>7 DEF u, v

\* Removing a rule leaves a valid list.
LEMMA RemovalKeepsValid ==
    ASSUME NEW R, NEW s \in Seq(R), NEW n \in DOMAIN s, Valid(s)
    PROVE  Valid(SubSeq(s, 1, n - 1) \o SubSeq(s, n + 1, Len(s)))
<1> DEFINE t == SubSeq(s, 1, n - 1) \o SubSeq(s, n + 1, Len(s))
<1>1. /\ t \in Seq(R)
      /\ DOMAIN t = 1 .. Len(s) - 1
      /\ \A k \in DOMAIN t : t[k] = IF k < n THEN s[k] ELSE s[k + 1]
  BY Removal
<1>2. \A l, k \in DOMAIN s : l # k => Pair(s[l], s[k])
  BY ValidIsPairwise
<1> HIDE DEF t
<1>3. ASSUME NEW l \in DOMAIN t, NEW k \in DOMAIN t, l # k
      PROVE  Pair(t[l], t[k])
  <2> DEFINE from(i) == IF i < n THEN i ELSE i + 1
  <2>1. from(l) \in DOMAIN s /\ from(k) \in DOMAIN s /\ from(l) # from(k)
    BY <1>1, <1>3
  <2>2. t[l] = s[from(l)] /\ t[k] = s[from(k)]
    BY <1>1
  <2> HIDE DEF from
  <2> QED
    BY <1>2, <2>1, <2>2
<1>4. Valid(t)
  BY <1>1, <1>3, ValidIsPairwise
<1> QED
  BY <1>4 DEF t

\* Two rules of a valid list compete for a socket only on one wildcard.
LEMMA ValidClashes ==
    ASSUME NEW R, \A r \in R : Listens(r), rules \in Seq(R), Valid(rules)
    PROVE  ClashesAreWildcardPairs
<1> SUFFICES ASSUME NEW m \in DOMAIN rules, NEW n \in DOMAIN rules, m # n,
                    Sockets(rules[m]) \cap Sockets(rules[n]) # {}
             PROVE  /\ rules[m].address = rules[n].address
                    /\ rules[m].address \in Wildcards
  BY DEF ClashesAreWildcardPairs
<1>1. Listens(rules[m]) /\ Listens(rules[n])
  OBVIOUS
<1>2. Pair(rules[m], rules[n])
  BY ValidIsPairwise
<1> QED
  BY <1>1, <1>2, OverlapMeansSockets DEF Pair

\* A rule that shares neither name nor socket may join a valid list.
LEMMA ValidAccepts ==
    ASSUME NEW R, \A r \in R : Listens(r), rules \in Seq(R), Valid(rules)
    PROVE  OnlyClashesAreRefused
<1> SUFFICES ASSUME NEW r \in Rule,
                    \A n \in DOMAIN rules :
                       /\ rules[n].name # r.name
                       /\ Sockets(rules[n]) \cap Sockets(r) = {}
             PROVE  Valid(Append(rules, r))
  BY DEF OnlyClashesAreRefused
<1> DEFINE t == Append(rules, r)
           all == R \cup {r}
<1>1. rules \in Seq(all) /\ r \in all
  OBVIOUS
<1>2. /\ t \in Seq(all)
      /\ DOMAIN t = 1 .. Len(rules) + 1
      /\ \A k \in DOMAIN rules : t[k] = rules[k]
      /\ t[Len(rules) + 1] = r
  BY <1>1, AppendProperties
<1>3. \A k \in DOMAIN rules : Pair(rules[k], r) /\ Pair(r, rules[k])
  BY RuleListens, OverlapMeansSockets, SameListenerSymmetric DEF Pair
<1>4. \A l, k \in DOMAIN rules : l # k => Pair(rules[l], rules[k])
  BY ValidIsPairwise
<1> HIDE DEF t, all
<1>5. ASSUME NEW l \in DOMAIN t, NEW k \in DOMAIN t, l # k
      PROVE  Pair(t[l], t[k])
  <2>1. /\ l \in DOMAIN rules \/ l = Len(rules) + 1
        /\ k \in DOMAIN rules \/ k = Len(rules) + 1
    BY <1>2
  <2> QED
    BY <1>2, <1>3, <1>4, <1>5, <2>1
<1>6. Valid(t)
  BY <1>2, <1>5, ValidIsPairwise
<1> QED
  BY <1>6 DEF t

\* The inductive invariant: the daemon's list is one validate_rule_set accepts,
\* also after ForwardRemove, which does not validate what it leaves.
Inv == TypeOK /\ Valid(rules)

LEMMA InvInit == Init => Inv
  BY DEF Init, Inv, TypeOK, Valid

LEMMA InvNext == Inv /\ [Next]_rules => Inv'
<1> SUFFICES ASSUME Inv, [Next]_rules
             PROVE  Inv'
  OBVIOUS
<1> USE DEF Inv, TypeOK
<1>1. ASSUME NEW r \in Rule, Append1(r)
      PROVE  Inv'
  BY <1>1 DEF Append1
<1>2. ASSUME NEW r \in Rule, NEW s \in Rule, Import(r, s)
      PROVE  Inv'
  <2>1. <<r, s>> \in Seq(Rule)
    OBVIOUS
  <2> QED
    BY <1>2, <2>1, ConcatProperties DEF Import
<1>3. ASSUME NEW n \in DOMAIN rules, NEW r \in Rule, Replace(n, r)
      PROVE  Inv'
  BY <1>3 DEF Replace
<1>4. ASSUME NEW n \in DOMAIN rules, Remove(n)
      PROVE  Inv'
  BY <1>4, Removal, RemovalKeepsValid DEF Remove
<1>5. CASE UNCHANGED rules
  BY <1>5
<1> QED
  BY <1>1, <1>2, <1>3, <1>4, <1>5 DEF Next

\* Whatever requests are served, the daemon holds a list of rules that
\* validate_rule_set accepts, so that its file can be loaded again.
THEOREM InvariantCorrect == Spec => []Inv
<1> QED
  BY InvInit, InvNext, PTL DEF Spec

\* Two accepted rules compete for a socket only when both are on the wildcard
\* address of one family (bind_addresses_overlap has no arm for that pair).
THEOREM ClashesCorrect == Spec => []ClashesAreWildcardPairs
<1>1. Inv => ClashesAreWildcardPairs
  BY RuleListens, ValidClashes DEF Inv, TypeOK
<1> QED
  BY <1>1, InvariantCorrect, PTL

\* ForwardAdd refuses a new rule as a duplicate only for the name or a socket
\* of a rule that is there.
THEOREM RefusalsCorrect == Spec => []OnlyClashesAreRefused
<1>1. Inv => OnlyClashesAreRefused
  BY RuleListens, ValidAccepts DEF Inv, TypeOK
<1> QED
  BY <1>1, InvariantCorrect, PTL
=============================================================================
