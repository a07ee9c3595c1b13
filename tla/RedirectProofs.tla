--------------------------- MODULE RedirectProofs ---------------------------
(***************************************************************************)
(* RedirectDriver keeps its types and its refs apart, whatever calls, late *)
(* requests and the dashboard do, and what a write may not undo it does    *)
(* not undo.                                                               *)
(***************************************************************************)
EXTENDS RedirectSafety, WellFoundedInduction, SequenceTheorems, TLAPS

-----------------------------------------------------------------------------
(* Induction over numbers and sequences, with a set in the place of a      *)
(* predicate: a nonempty set of numbers has a least member.                *)

\* A nonempty set of natural numbers has a least member.
LEMMA LeastMember ==
    ASSUME NEW T \in SUBSET Nat, T # {}
    PROVE  \E n \in T : n \in Nat /\ \A k \in T : n <= k
<1> DEFINE R == OpToRel(<, Nat)
<1>1. IsWellFoundedOn(R, Nat)
  BY NatLessThanWellFounded
<1>2. \A j, k \in Nat : <<j, k>> \in R <=> j < k
  BY DEF OpToRel
<1> HIDE DEF R
<1>3. PICK n \in T : \A k \in T : <<k, n>> \notin R
  BY <1>1, WFMin
<1>4. n \in Nat /\ \A k \in T : k \in Nat /\ ~(k < n)
  BY <1>2, <1>3
<1> QED BY <1>4

\* A set with 0 and with the successor of each number in it has every number.
LEMMA NumberInduction ==
    ASSUME NEW T, 0 \in T, \A n \in Nat : n \in T => n + 1 \in T
    PROVE  Nat \subseteq T
<1> SUFFICES ASSUME Nat \ T # {} PROVE FALSE
  OBVIOUS
<1>1. PICK n \in Nat \ T : n \in Nat /\ \A k \in Nat \ T : n <= k
  BY LeastMember
<1>2. n # 0 /\ n - 1 \in Nat /\ ~(n <= n - 1) /\ n = (n - 1) + 1
  BY <1>1
<1>3. n - 1 \in T
  BY <1>1, <1>2
<1> QED BY <1>1, <1>2, <1>3

\* A set with the empty sequence and with what appending to each sequence in
\* it makes has every sequence.
LEMMA SequenceInduction ==
    ASSUME NEW S, NEW T, <<>> \in T,
           \A s \in Seq(S), e \in S : s \in T => Append(s, e) \in T
    PROVE  Seq(S) \subseteq T
<1> DEFINE N == {n \in Nat : \A s \in Seq(S) : Len(s) = n => s \in T}
<1>1. 0 \in N
  BY EmptySeq
<1>2. ASSUME NEW n \in Nat, n \in N PROVE n + 1 \in N
  <2> SUFFICES ASSUME NEW s \in Seq(S), Len(s) = n + 1 PROVE s \in T
    OBVIOUS
  <2> DEFINE front == [i \in 1..n |-> s[i]]
  <2>1. front \in Seq(S) /\ Len(front) = n /\ s[n + 1] \in S
    OBVIOUS
  <2>2. s = Append(front, s[n + 1])
    OBVIOUS
  <2>3. front \in T
    BY <1>2, <2>1
  <2> HIDE DEF front
  <2> QED BY <2>1, <2>2, <2>3
<1> HIDE DEF N
<1>3. Nat \subseteq N
  BY <1>1, <1>2, NumberInduction
<1> QED BY <1>3, LenProperties DEF N

-----------------------------------------------------------------------------
(* The filter of Delete *)

\* f is what the filter has kept after each of the first n rules.
Keeping(f, s, refs, n) ==
    f = [i \in 0..n |-> IF i = 0 THEN <<>>
                        ELSE IF s[i].ref \in refs THEN f[i - 1]
                        ELSE Append(f[i - 1], s[i])]

\* The filter's recursion has a solution.
LEMMA KeepingExists ==
    ASSUME NEW s, NEW refs
    PROVE  \A n \in Nat : \E f : Keeping(f, s, refs, n)
<1> DEFINE T == {n \in Nat : \E f : Keeping(f, s, refs, n)}
<1>1. 0 \in T
  <2>1. Keeping([i \in 0..0 |-> <<>>], s, refs, 0)
    BY DEF Keeping
  <2> QED BY <2>1
<1>2. ASSUME NEW n \in Nat, n \in T PROVE n + 1 \in T
  <2>1. PICK f : Keeping(f, s, refs, n)
    BY <1>2
  <2> DEFINE last == IF s[n + 1].ref \in refs THEN f[n] ELSE Append(f[n], s[n + 1])
             g == [i \in 0..(n + 1) |-> IF i <= n THEN f[i] ELSE last]
  <2>2. /\ DOMAIN g = 0..(n + 1)
        /\ \A i \in 0..n : g[i] = f[i]
        /\ g[n + 1] = last
    OBVIOUS
  <2>3. g = [i \in 0..(n + 1) |-> g[i]]
    BY <2>2
  <2>4. \A i \in 0..n : f[i] = IF i = 0 THEN <<>>
                               ELSE IF s[i].ref \in refs THEN f[i - 1]
                               ELSE Append(f[i - 1], s[i])
    BY <2>1 DEF Keeping
  <2> HIDE DEF g
  <2>5. ASSUME NEW i \in 0..(n + 1)
        PROVE  g[i] = IF i = 0 THEN <<>>
                      ELSE IF s[i].ref \in refs THEN g[i - 1]
                      ELSE Append(g[i - 1], s[i])
    <3>1. CASE i = 0
      BY <2>2, <2>4, <3>1
    <3>2. CASE i \in 1..n
      <4>1. i \in 0..n /\ i - 1 \in 0..n /\ i # 0
        BY <3>2
      <4> QED BY <2>2, <2>4, <4>1
    <3>3. CASE i = n + 1
      <4>1. n \in 0..n /\ n + 1 # 0 /\ (n + 1) - 1 = n
        OBVIOUS
      <4> QED BY <2>2, <3>3, <4>1
    <3> QED BY <3>1, <3>2, <3>3
  <2>6. Keeping(g, s, refs, n + 1)
    BY <2>3, <2>5 DEF Keeping
  <2> QED BY <2>6
<1> HIDE DEF T
<1>3. Nat \subseteq T
  BY <1>1, <1>2, NumberInduction
<1> QED BY <1>3 DEF T

\* RulesBut is the last value of that solution.
LEMMA RulesButKept ==
    ASSUME NEW S, NEW s \in Seq(S), NEW refs
    PROVE  \E f : Keeping(f, s, refs, Len(s)) /\ RulesBut(s, refs) = f[Len(s)]
<1> DEFINE h == CHOOSE f :
                  f = [i \in 0..Len(s) |-> IF i = 0 THEN <<>>
                                           ELSE IF s[i].ref \in refs THEN f[i - 1]
                                           ELSE Append(f[i - 1], s[i])]
<1>1. Keeping(h, s, refs, Len(s))
  <2>1. PICK g : Keeping(g, s, refs, Len(s))
    BY KeepingExists, LenProperties
  <2>2. \E f : f = [i \in 0..Len(s) |-> IF i = 0 THEN <<>>
                                        ELSE IF s[i].ref \in refs THEN f[i - 1]
                                        ELSE Append(f[i - 1], s[i])]
    BY <2>1 DEF Keeping
  <2>3. h = [i \in 0..Len(s) |-> IF i = 0 THEN <<>>
                                 ELSE IF s[i].ref \in refs THEN h[i - 1]
                                 ELSE Append(h[i - 1], s[i])]
    BY <2>2, Zenon
  <2> QED BY <2>3 DEF Keeping
<1>2. RulesBut(s, refs) = h[Len(s)]
  BY DEF RulesBut
<1> QED BY <1>1, <1>2

\* Two solutions for lists with a common beginning agree on it.
LEMMA KeepingAgree ==
    ASSUME NEW n \in Nat, NEW m \in Nat, n <= m, NEW s, NEW t, NEW refs,
           \A i \in 1..n : s[i] = t[i],
           NEW f, Keeping(f, s, refs, n), NEW g, Keeping(g, t, refs, m)
    PROVE  f[n] = g[n]
<1> DEFINE T == {k \in Nat : k <= n => f[k] = g[k]}
<1>1. \A i \in 0..n : f[i] = IF i = 0 THEN <<>>
                              ELSE IF s[i].ref \in refs THEN f[i - 1]
                              ELSE Append(f[i - 1], s[i])
  BY DEF Keeping
<1>2. \A i \in 0..m : g[i] = IF i = 0 THEN <<>>
                              ELSE IF t[i].ref \in refs THEN g[i - 1]
                              ELSE Append(g[i - 1], t[i])
  BY DEF Keeping
<1>3. 0 \in T
  BY <1>1, <1>2
<1>4. ASSUME NEW k \in Nat, k \in T PROVE k + 1 \in T
  <2> SUFFICES ASSUME k + 1 <= n PROVE f[k + 1] = g[k + 1]
    OBVIOUS
  <2>1. /\ k + 1 \in 0..n /\ k + 1 \in 0..m /\ k + 1 \in 1..n
        /\ k + 1 # 0 /\ (k + 1) - 1 = k /\ k <= n
    OBVIOUS
  <2>2. f[k] = g[k]
    BY <1>4, <2>1
  <2>3. s[k + 1] = t[k + 1]
    BY <2>1
  <2> QED BY <1>1, <1>2, <2>1, <2>2, <2>3
<1> HIDE DEF T
<1>5. Nat \subseteq T
  BY <1>3, <1>4, NumberInduction
<1> QED BY <1>5 DEF T

\* The filter, one rule at a time.
LEMMA RulesButEmpty ==
    ASSUME NEW refs
    PROVE  RulesBut(<<>>, refs) = <<>>
<1>1. <<>> \in Seq({}) /\ Len(<<>>) = 0
  BY EmptySeq
<1>2. PICK f : Keeping(f, <<>>, refs, Len(<<>>)) /\ RulesBut(<<>>, refs) = f[Len(<<>>)]
  BY <1>1, RulesButKept
<1>3. f[0] = <<>>
  BY <1>1, <1>2 DEF Keeping
<1> QED BY <1>1, <1>2, <1>3

LEMMA RulesButAppend ==
    ASSUME NEW S, NEW s \in Seq(S), NEW r \in S, NEW refs
    PROVE  RulesBut(Append(s, r), refs) =
               IF r.ref \in refs THEN RulesBut(s, refs)
               ELSE Append(RulesBut(s, refs), r)
<1> DEFINE n == Len(s)
           t == Append(s, r)
<1>1. /\ n \in Nat /\ t \in Seq(S) /\ Len(t) = n + 1 /\ t[n + 1] = r
      /\ \A i \in 1..n : s[i] = t[i]
  OBVIOUS
<1> HIDE DEF n, t
<1>2. PICK f : Keeping(f, s, refs, n) /\ RulesBut(s, refs) = f[n]
  BY RulesButKept DEF n
<1>3. PICK g : Keeping(g, t, refs, n + 1) /\ RulesBut(t, refs) = g[n + 1]
  BY <1>1, RulesButKept
<1>4. f[n] = g[n]
  BY <1>1, <1>2, <1>3, KeepingAgree, n + 1 \in Nat, n <= n + 1
<1>5. n + 1 \in 0..(n + 1) /\ n + 1 # 0 /\ (n + 1) - 1 = n
  BY <1>1
<1>6. g[n + 1] = IF r.ref \in refs THEN g[n] ELSE Append(g[n], r)
  BY <1>1, <1>3, <1>5 DEF Keeping
<1> QED BY <1>2, <1>3, <1>4, <1>6 DEF t

-----------------------------------------------------------------------------
(* What the filter promises *)

\* It keeps rules of the list, those with none of the refs, and no ref twice
\* that the list does not have twice.
LEMMA RulesButTyped ==
    ASSUME NEW S, NEW refs
    PROVE  \A s \in Seq(S) :
              /\ RulesBut(s, refs) \in Seq(S)
              /\ \A i \in DOMAIN RulesBut(s, refs) :
                    /\ RulesBut(s, refs)[i].ref \notin refs
                    /\ \E j \in DOMAIN s : RulesBut(s, refs)[i] = s[j]
<1> DEFINE Good(s) ==
              /\ RulesBut(s, refs) \in Seq(S)
              /\ \A i \in DOMAIN RulesBut(s, refs) :
                    /\ RulesBut(s, refs)[i].ref \notin refs
                    /\ \E j \in DOMAIN s : RulesBut(s, refs)[i] = s[j]
           T == {s \in Seq(S) : Good(s)}
<1>1. <<>> \in T
  <2>1. <<>> \in Seq(S) /\ DOMAIN <<>> = {}
    OBVIOUS
  <2>2. Good(<<>>)
    BY <2>1, RulesButEmpty
  <2> QED BY <2>1, <2>2
<1>2. ASSUME NEW s \in Seq(S), NEW r \in S, s \in T PROVE Append(s, r) \in T
  <2> DEFINE t == Append(s, r)
             b == RulesBut(s, refs)
  <2>1. /\ t \in Seq(S) /\ Len(t) = Len(s) + 1 /\ t[Len(s) + 1] = r
        /\ Len(s) \in Nat /\ DOMAIN s = 1..Len(s) /\ DOMAIN t = 1..Len(t)
        /\ \A i \in DOMAIN s : i \in DOMAIN t /\ t[i] = s[i]
    OBVIOUS
  <2>2. b \in Seq(S) /\ Good(s)
    BY <1>2
  <2>3. RulesBut(t, refs) = IF r.ref \in refs THEN b ELSE Append(b, r)
    BY RulesButAppend
  <2> HIDE DEF t, b
  <2>4. CASE r.ref \in refs
    <3>1. RulesBut(t, refs) = b
      BY <2>3, <2>4
    <3> QED BY <2>1, <2>2, <3>1 DEF b, t
  <2>5. CASE r.ref \notin refs
    <3>1. RulesBut(t, refs) = Append(b, r)
      BY <2>3, <2>5
    <3>2. Append(b, r) \in Seq(S)
      BY <2>2
    <3>3. ASSUME NEW i \in DOMAIN Append(b, r)
          PROVE  /\ Append(b, r)[i].ref \notin refs
                 /\ \E j \in DOMAIN t : Append(b, r)[i] = t[j]
      <4>1. i \in DOMAIN b \/ i = Len(b) + 1
        BY <2>2
      <4>2. CASE i \in DOMAIN b
        <5>1. Append(b, r)[i] = b[i]
          BY <2>2, <4>2
        <5>2. b[i].ref \notin refs /\ \E j \in DOMAIN s : b[i] = s[j]
          BY <2>2, <4>2 DEF b
        <5> QED BY <2>1, <5>1, <5>2
      <4>3. CASE i = Len(b) + 1
        <5>1. Append(b, r)[i] = r
          BY <2>2, <4>3
        <5>2. Len(s) + 1 \in DOMAIN t
          BY <2>1
        <5> QED BY <2>1, <2>5, <5>1, <5>2
      <4> QED BY <4>1, <4>2, <4>3
    <3>4. Good(t)
      BY <3>1, <3>2, <3>3
    <3> QED BY <2>1, <3>4 DEF t
  <2> QED BY <2>4, <2>5
<1> HIDE DEF T
<1>3. Seq(S) \subseteq T
  BY <1>1, <1>2, SequenceInduction
<1> QED BY <1>3 DEF T

LEMMA RulesButUnique ==
    ASSUME NEW S, NEW refs
    PROVE  \A s \in Seq(S) : RefsUnique(s) => RefsUnique(RulesBut(s, refs))
<1> DEFINE T == {s \in Seq(S) : RefsUnique(s) => RefsUnique(RulesBut(s, refs))}
<1>1. <<>> \in T
  BY RulesButEmpty, EmptySeq
<1>2. ASSUME NEW s \in Seq(S), NEW r \in S, s \in T PROVE Append(s, r) \in T
  <2> DEFINE t == Append(s, r)
             b == RulesBut(s, refs)
  <2> SUFFICES ASSUME RefsUnique(t) PROVE RefsUnique(RulesBut(t, refs))
    OBVIOUS
  <2>1. /\ t \in Seq(S) /\ Len(t) = Len(s) + 1 /\ t[Len(s) + 1] = r
        /\ Len(s) \in Nat /\ DOMAIN s = 1..Len(s) /\ DOMAIN t = 1..Len(t)
        /\ \A i \in DOMAIN s : i \in DOMAIN t /\ t[i] = s[i]
    OBVIOUS
  <2>2. /\ b \in Seq(S)
        /\ \A i \in DOMAIN b : \E j \in DOMAIN s : b[i] = s[j]
    BY RulesButTyped
  <2>3. RulesBut(t, refs) = IF r.ref \in refs THEN b ELSE Append(b, r)
    BY RulesButAppend
  <2> HIDE DEF t, b
  <2>4. RefsUnique(s)
    BY <2>1 DEF RefsUnique
  <2>5. RefsUnique(b)
    BY <1>2, <2>4 DEF b
  <2>6. \A j \in DOMAIN s : s[j].ref # r.ref
    BY <2>1 DEF RefsUnique
  <2>7. \A i \in DOMAIN b : b[i].ref # r.ref
    BY <2>2, <2>6
  <2>8. RefsUnique(Append(b, r))
    <3>1. \A i \in DOMAIN Append(b, r) :
             \/ i \in DOMAIN b /\ Append(b, r)[i] = b[i]
             \/ i = Len(b) + 1 /\ Append(b, r)[i] = r
      BY <2>2
    <3> QED BY <2>5, <2>7, <3>1 DEF RefsUnique
  <2> QED BY <2>3, <2>5, <2>8
<1> HIDE DEF T
<1>3. Seq(S) \subseteq T
  BY <1>1, <1>2, SequenceInduction
<1> QED BY <1>3 DEF T

\* Rules that differ only where they are filtered out make no difference.
LEMMA RulesButAlike ==
    ASSUME NEW S, NEW refs
    PROVE  \A s, t \in Seq(S) :
              /\ Len(s) = Len(t)
              /\ \A i \in 1..Len(s) : /\ s[i].ref = t[i].ref
                                      /\ s[i].ref \notin refs => s[i] = t[i]
              => RulesBut(s, refs) = RulesBut(t, refs)
<1> DEFINE Alike(s, t) ==
              /\ Len(s) = Len(t)
              /\ \A i \in 1..Len(s) : /\ s[i].ref = t[i].ref
                                      /\ s[i].ref \notin refs => s[i] = t[i]
           T == {s \in Seq(S) : \A t \in Seq(S) :
                     Alike(s, t) => RulesBut(s, refs) = RulesBut(t, refs)}
<1>1. <<>> \in T
  <2>1. <<>> \in Seq(S) /\ \A t \in Seq(S) : Len(<<>>) = Len(t) => t = <<>>
    OBVIOUS
  <2> QED BY <2>1
<1>2. ASSUME NEW s \in Seq(S), NEW r \in S, s \in T PROVE Append(s, r) \in T
  <2> DEFINE n == Len(s)
  <2>0. Append(s, r) \in Seq(S)
    OBVIOUS
  <2> SUFFICES ASSUME NEW t \in Seq(S), Alike(Append(s, r), t)
               PROVE  RulesBut(Append(s, r), refs) = RulesBut(t, refs)
    BY <2>0
  <2>1. /\ n \in Nat /\ n + 1 \in 1..(n + 1) /\ Len(Append(s, r)) = n + 1
        /\ Append(s, r)[n + 1] = r /\ \A i \in 1..n : Append(s, r)[i] = s[i]
    OBVIOUS
  <2>2. Len(t) = n + 1
    BY <2>1
  <2> DEFINE front == [i \in 1..n |-> t[i]]
             e == t[n + 1]
  <2>3. front \in Seq(S) /\ Len(front) = n /\ e \in S
    BY <2>1, <2>2
  <2>4. t = Append(front, e)
    BY <2>1, <2>2
  <2>5. /\ r.ref = e.ref
        /\ r.ref \notin refs => r = e
    BY <2>1
  <2>6. Alike(s, front)
    <3>1. ASSUME NEW i \in 1..n
          PROVE  s[i].ref = front[i].ref /\ (s[i].ref \notin refs => s[i] = front[i])
      <4>1. i \in 1..(n + 1) /\ front[i] = t[i] /\ Append(s, r)[i] = s[i]
        BY <2>1
      <4> QED BY <2>1, <4>1
    <3> QED BY <2>3, <3>1
  <2> HIDE DEF front, e
  <2>7. RulesBut(s, refs) = RulesBut(front, refs)
    BY <1>2, <2>3, <2>6
  <2>8. RulesBut(Append(s, r), refs) =
            IF r.ref \in refs THEN RulesBut(s, refs)
            ELSE Append(RulesBut(s, refs), r)
    BY RulesButAppend
  <2>9. RulesBut(t, refs) =
            IF e.ref \in refs THEN RulesBut(front, refs)
            ELSE Append(RulesBut(front, refs), e)
    BY <2>3, <2>4, RulesButAppend
  <2> QED BY <2>5, <2>7, <2>8, <2>9
<1> HIDE DEF T
<1>3. Seq(S) \subseteq T
  BY <1>1, <1>2, SequenceInduction
<1> QED BY <1>3 DEF T

\* Filtering out a part first makes no difference either.
LEMMA RulesButTwice ==
    ASSUME NEW S, NEW refs, NEW some, some \subseteq refs
    PROVE  \A s \in Seq(S) : RulesBut(RulesBut(s, some), refs) = RulesBut(s, refs)
<1> DEFINE T == {s \in Seq(S) : RulesBut(RulesBut(s, some), refs) = RulesBut(s, refs)}
<1>1. <<>> \in T
  BY RulesButEmpty, EmptySeq
<1>2. ASSUME NEW s \in Seq(S), NEW r \in S, s \in T PROVE Append(s, r) \in T
  <2> DEFINE b == RulesBut(s, some)
  <2>1. b \in Seq(S)
    BY RulesButTyped
  <2>2. RulesBut(Append(s, r), some) = IF r.ref \in some THEN b ELSE Append(b, r)
    BY RulesButAppend
  <2>3. RulesBut(Append(s, r), refs) =
            IF r.ref \in refs THEN RulesBut(s, refs)
            ELSE Append(RulesBut(s, refs), r)
    BY RulesButAppend
  <2>4. RulesBut(b, refs) = RulesBut(s, refs)
    BY <1>2
  <2> HIDE DEF b
  <2>5. RulesBut(Append(b, r), refs) =
            IF r.ref \in refs THEN RulesBut(b, refs)
            ELSE Append(RulesBut(b, refs), r)
    BY <2>1, RulesButAppend
  <2>6. RulesBut(RulesBut(Append(s, r), some), refs) = RulesBut(Append(s, r), refs)
    BY <2>2, <2>3, <2>4, <2>5
  <2>7. Append(s, r) \in Seq(S)
    OBVIOUS
  <2> QED BY <2>6, <2>7
<1> HIDE DEF T
<1>3. Seq(S) \subseteq T
  BY <1>1, <1>2, SequenceInduction
<1> QED BY <1>3 DEF T

-----------------------------------------------------------------------------
(* Rules on their way *)

LEMMA ParamTyped ==
    ASSUME NEW r \in DriverRule
    PROVE  redirectRuleParam(r) \in ServiceRule /\ redirectRuleParam(r).ref = r.ref
BY DEF DriverRule, ServiceRule, redirectRuleParam

LEMMA FromPhaseTyped ==
    ASSUME NEW r \in ServiceRule
    PROVE  redirectRuleFromPhase(r) \in DriverRule /\ redirectRuleFromPhase(r).ref = r.ref
BY DEF DriverRule, ServiceRule, redirectRuleFromPhase

\* What is sent comes back as it was.
LEMMA ParamBack ==
    ASSUME NEW r \in DriverRule
    PROVE  redirectRuleFromPhase(redirectRuleParam(r)) = r
<1>1. r.preservePath \in BOOLEAN
  BY DEF DriverRule
<1>2. ((IF r.preservePath THEN "concat" ELSE "value") = "concat") = r.preservePath
  BY <1>1
<1>3. r = [ref |-> r.ref, host |-> r.host, target |-> r.target,
           preservePath |-> r.preservePath, options |-> r.options]
  BY DEF DriverRule
<1> QED BY <1>2, <1>3 DEF redirectRuleFromPhase, redirectRuleParam

\* What was fetched goes back as it was, unless its target is dynamic.
LEMMA FromPhaseBack ==
    ASSUME NEW r \in ServiceRule, r.form # "dynamic"
    PROVE  redirectRuleParam(redirectRuleFromPhase(r)) = r
<1>1. r = [ref |-> r.ref, host |-> r.host, target |-> r.target,
           form |-> r.form, options |-> r.options]
  BY DEF ServiceRule
<1>2. (IF r.form = "concat" THEN "concat" ELSE "value") = r.form
  BY DEF ServiceRule
<1> QED BY <1>1, <1>2 DEF redirectRuleFromPhase, redirectRuleParam

LEMMA SentTyped ==
    ASSUME NEW s \in Seq(DriverRule)
    PROVE  /\ Sent(s) \in Seq(ServiceRule) /\ Len(Sent(s)) = Len(s)
           /\ DOMAIN Sent(s) = DOMAIN s
           /\ \A i \in DOMAIN s : /\ Sent(s)[i] = redirectRuleParam(s[i])
                                  /\ Sent(s)[i].ref = s[i].ref
<1>1. Len(s) \in Nat /\ DOMAIN s = 1..Len(s) /\ \A i \in 1..Len(s) : s[i] \in DriverRule
  OBVIOUS
<1>2. Sent(s) = [i \in 1..Len(s) |-> redirectRuleParam(s[i])]
  BY <1>1 DEF Sent
<1>3. \A i \in 1..Len(s) : /\ redirectRuleParam(s[i]) \in ServiceRule
                           /\ redirectRuleParam(s[i]).ref = s[i].ref
  BY <1>1, ParamTyped
<1> QED BY <1>1, <1>2, <1>3

LEMMA FetchedTyped ==
    ASSUME NEW s \in Seq(ServiceRule)
    PROVE  /\ Fetched(s) \in Seq(DriverRule) /\ Len(Fetched(s)) = Len(s)
           /\ DOMAIN Fetched(s) = DOMAIN s
           /\ \A i \in DOMAIN s : /\ Fetched(s)[i] = redirectRuleFromPhase(s[i])
                                  /\ Fetched(s)[i].ref = s[i].ref
<1>1. Len(s) \in Nat /\ DOMAIN s = 1..Len(s) /\ \A i \in 1..Len(s) : s[i] \in ServiceRule
  OBVIOUS
<1>2. Fetched(s) = [i \in 1..Len(s) |-> redirectRuleFromPhase(s[i])]
  BY <1>1 DEF Fetched
<1>3. \A i \in 1..Len(s) : /\ redirectRuleFromPhase(s[i]) \in DriverRule
                           /\ redirectRuleFromPhase(s[i]).ref = s[i].ref
  BY <1>1, FromPhaseTyped
<1> QED BY <1>1, <1>2, <1>3

LEMMA SentBack ==
    ASSUME NEW s \in Seq(DriverRule)
    PROVE  Fetched(Sent(s)) = s
<1>1. /\ Fetched(Sent(s)) \in Seq(DriverRule) /\ Len(Fetched(Sent(s))) = Len(s)
      /\ DOMAIN Sent(s) = DOMAIN s /\ DOMAIN s = 1..Len(s)
  BY SentTyped, FetchedTyped
<1>2. ASSUME NEW i \in 1..Len(s) PROVE Fetched(Sent(s))[i] = s[i]
  <2>1. i \in DOMAIN s /\ s[i] \in DriverRule
    OBVIOUS
  <2>2. Fetched(Sent(s))[i] = redirectRuleFromPhase(redirectRuleParam(s[i]))
    BY <1>1, <2>1, SentTyped, FetchedTyped
  <2> QED BY <2>1, <2>2, ParamBack
<1> QED BY <1>1, <1>2, SeqEqual

\* Sending what is left of a list is what is left of sending it.
LEMMA SentBut ==
    ASSUME NEW refs
    PROVE  \A s \in Seq(DriverRule) : Sent(RulesBut(s, refs)) = RulesBut(Sent(s), refs)
<1> DEFINE T == {s \in Seq(DriverRule) : Sent(RulesBut(s, refs)) = RulesBut(Sent(s), refs)}
<1>1. <<>> \in T
  <2>1. Sent(<<>>) = <<>> /\ <<>> \in Seq(DriverRule)
    BY DEF Sent
  <2> QED BY <2>1, RulesButEmpty
<1>2. ASSUME NEW s \in Seq(DriverRule), NEW r \in DriverRule, s \in T
      PROVE  Append(s, r) \in T
  <2> DEFINE b == RulesBut(s, refs)
             e == redirectRuleParam(r)
  <2>1. \A u \in Seq(DriverRule) : Sent(Append(u, r)) = Append(Sent(u), e)
    <3> SUFFICES ASSUME NEW u \in Seq(DriverRule)
                 PROVE  Sent(Append(u, r)) = Append(Sent(u), e)
      OBVIOUS
    <3>1. e \in ServiceRule
      BY ParamTyped
    <3>2. Sent(u) \in Seq(ServiceRule) /\ Len(Sent(u)) = Len(u)
      BY SentTyped
    <3>3. Append(u, r) \in Seq(DriverRule) /\ Len(Append(u, r)) = Len(u) + 1
      OBVIOUS
    <3>4. Sent(Append(u, r)) \in Seq(ServiceRule) /\ Len(Sent(Append(u, r))) = Len(u) + 1
      BY <3>3, SentTyped
    <3>5. ASSUME NEW i \in 1..(Len(u) + 1)
          PROVE  Sent(Append(u, r))[i] = Append(Sent(u), e)[i]
      <4>1. Sent(Append(u, r))[i] = redirectRuleParam(Append(u, r)[i])
        <5>1. i \in DOMAIN Append(u, r)
          OBVIOUS
        <5> QED BY <3>3, <5>1, SentTyped
      <4>2. CASE i \in 1..Len(u)
        <5>1. Append(u, r)[i] = u[i] /\ Sent(u)[i] = redirectRuleParam(u[i])
          BY <4>2, SentTyped
        <5> HIDE DEF e
        <5>2. Append(Sent(u), e)[i] = Sent(u)[i]
          BY <3>1, <3>2, <4>2
        <5> QED BY <4>1, <5>1, <5>2
      <4>3. CASE i = Len(u) + 1
        <5>1. Append(u, r)[i] = r
          BY <4>3
        <5>2. redirectRuleParam(Append(u, r)[i]) = e
          BY <5>1
        <5> HIDE DEF e
        <5>3. Append(Sent(u), e)[i] = e
          BY <3>1, <3>2, <4>3
        <5> QED BY <4>1, <5>2, <5>3
      <4>4. i \in 1..Len(u) \/ i = Len(u) + 1
        OBVIOUS
      <4> QED BY <4>2, <4>3, <4>4
    <3> HIDE DEF e
    <3>6. Append(Sent(u), e) \in Seq(ServiceRule) /\ Len(Append(Sent(u), e)) = Len(u) + 1
      BY <3>1, <3>2
    <3> QED BY <3>4, <3>5, <3>6, SeqEqual
  <2>2. b \in Seq(DriverRule)
    BY RulesButTyped
  <2>3. Sent(s) \in Seq(ServiceRule) /\ e \in ServiceRule /\ e.ref = r.ref
    BY SentTyped, ParamTyped
  <2>4. RulesBut(Append(s, r), refs) = IF r.ref \in refs THEN b ELSE Append(b, r)
    BY RulesButAppend
  <2>5. Sent(b) = RulesBut(Sent(s), refs)
    BY <1>2
  <2> HIDE DEF b, e
  <2>6. RulesBut(Append(Sent(s), e), refs) =
            IF r.ref \in refs THEN Sent(b) ELSE Append(Sent(b), e)
    BY <2>3, <2>5, RulesButAppend
  <2>7. Sent(RulesBut(Append(s, r), refs)) = RulesBut(Sent(Append(s, r)), refs)
    BY <2>1, <2>2, <2>4, <2>6
  <2>8. Append(s, r) \in Seq(DriverRule)
    OBVIOUS
  <2> QED BY <2>7, <2>8
<1> HIDE DEF T
<1>3. Seq(DriverRule) \subseteq T
  BY <1>1, <1>2, SequenceInduction
<1> QED BY <1>3 DEF T

-----------------------------------------------------------------------------
(* The edit of Create and Update *)

LEMMA UpsertTyped ==
    ASSUME NEW s \in Seq(DriverRule), NEW r \in DriverRule
    PROVE  /\ upsertRedirectRule(s, r) \in Seq(DriverRule)
           /\ RefsUnique(s) => RefsUnique(upsertRedirectRule(s, r))
<1>1. Len(s) \in Nat /\ DOMAIN s = 1..Len(s) /\ \A i \in 1..Len(s) : s[i] \in DriverRule
  OBVIOUS
<1>2. CASE RefIn(r.ref, s)
  <2> DEFINE t == [i \in 1..Len(s) |-> IF s[i].ref = r.ref THEN r ELSE s[i]]
  <2>1. upsertRedirectRule(s, r) = t
    BY <1>1, <1>2 DEF upsertRedirectRule
  <2>2. t \in Seq(DriverRule) /\ DOMAIN t = DOMAIN s
    BY <1>1
  <2>3. \A i \in DOMAIN s : t[i].ref = s[i].ref
    BY <1>1
  <2> QED BY <2>1, <2>2, <2>3 DEF RefsUnique
<1>3. CASE ~RefIn(r.ref, s)
  <2>1. upsertRedirectRule(s, r) = Append(s, r)
    BY <1>3 DEF upsertRedirectRule
  <2>2. \A i \in DOMAIN Append(s, r) :
           \/ i \in DOMAIN s /\ Append(s, r)[i] = s[i]
           \/ i = Len(s) + 1 /\ Append(s, r)[i] = r
    OBVIOUS
  <2>3. RefsUnique(s) => RefsUnique(Append(s, r))
    BY <1>3, <2>2 DEF RefsUnique, RefIn
  <2> QED BY <2>1, <2>3
<1> QED BY <1>2, <1>3

\* The edited list has the desired rule, and no other of its ref.
LEMMA UpsertHas ==
    ASSUME NEW s \in Seq(DriverRule), NEW r \in DriverRule
    PROVE  LET t == upsertRedirectRule(s, r)
           IN  /\ RefIn(r.ref, t)
               /\ \A i \in DOMAIN t : t[i].ref = r.ref => t[i] = r
<1>1. CASE RefIn(r.ref, s)
  <2>1. upsertRedirectRule(s, r) =
            [i \in DOMAIN s |-> IF s[i].ref = r.ref THEN r ELSE s[i]]
    BY <1>1 DEF upsertRedirectRule
  <2>2. PICK i \in DOMAIN s : s[i].ref = r.ref
    BY <1>1 DEF RefIn
  <2> QED BY <2>1, <2>2 DEF RefIn
<1>2. CASE ~RefIn(r.ref, s)
  <2>1. upsertRedirectRule(s, r) = Append(s, r)
    BY <1>2 DEF upsertRedirectRule
  <2>2. \A i \in DOMAIN Append(s, r) :
           \/ i \in DOMAIN s /\ Append(s, r)[i] = s[i]
           \/ i = Len(s) + 1 /\ Append(s, r)[i] = r
    OBVIOUS
  <2>3. Len(s) + 1 \in DOMAIN Append(s, r) /\ Append(s, r)[Len(s) + 1] = r
    OBVIOUS
  <2> QED BY <1>2, <2>1, <2>2, <2>3 DEF RefIn
<1> QED BY <1>1, <1>2

\* The rules of other refs stay.
LEMMA UpsertBut ==
    ASSUME NEW s \in Seq(DriverRule), NEW r \in DriverRule, NEW refs, r.ref \in refs
    PROVE  RulesBut(upsertRedirectRule(s, r), refs) = RulesBut(s, refs)
<1>1. Len(s) \in Nat /\ DOMAIN s = 1..Len(s) /\ \A i \in 1..Len(s) : s[i] \in DriverRule
  OBVIOUS
<1>2. CASE RefIn(r.ref, s)
  <2> DEFINE t == [i \in 1..Len(s) |-> IF s[i].ref = r.ref THEN r ELSE s[i]]
  <2>1. upsertRedirectRule(s, r) = t
    BY <1>1, <1>2 DEF upsertRedirectRule
  <2>2. t \in Seq(DriverRule) /\ Len(t) = Len(s)
    BY <1>1
  <2>3. \A i \in 1..Len(t) : t[i].ref = s[i].ref /\ (t[i].ref \notin refs => t[i] = s[i])
    BY <1>1, <2>2
  <2> HIDE DEF t
  <2>4. RulesBut(t, refs) = RulesBut(s, refs)
    BY <2>2, <2>3, RulesButAlike
  <2> QED BY <2>1, <2>4
<1>3. CASE ~RefIn(r.ref, s)
  <2>1. upsertRedirectRule(s, r) = Append(s, r)
    BY <1>3 DEF upsertRedirectRule
  <2> QED BY <2>1, RulesButAppend
<1> QED BY <1>2, <1>3

\* The first rule of a ref is found exactly when the list has one.
LEMMA FindFirst ==
    ASSUME NEW S, NEW s \in Seq(S), NEW ref
    PROVE  /\ \A r \in findRedirectRule(s, ref) :
                 \E i \in DOMAIN s : r = s[i] /\ s[i].ref = ref
           /\ RefIn(ref, s) => findRedirectRule(s, ref) # {}
<1>1. \A r \in findRedirectRule(s, ref) : \E i \in DOMAIN s : r = s[i] /\ s[i].ref = ref
  BY DEF findRedirectRule
<1>2. ASSUME RefIn(ref, s) PROVE findRedirectRule(s, ref) # {}
  <2> DEFINE T == {i \in DOMAIN s : s[i].ref = ref}
  <2>1. DOMAIN s = 1..Len(s) /\ T \in SUBSET Nat
    OBVIOUS
  <2>2. T # {}
    BY <1>2 DEF RefIn
  <2>3. PICK n \in T : n \in Nat /\ \A k \in T : n <= k
    BY <2>1, <2>2, LeastMember
  <2>4. ASSUME NEW k \in 1..(n - 1) PROVE s[k].ref # ref
    <3>1. k \in DOMAIN s /\ ~(n <= k)
      BY <2>1, <2>3
    <3> QED BY <2>3, <3>1
  <2>5. n \in {j \in DOMAIN s : /\ s[j].ref = ref
                                /\ \A k \in 1..(j - 1) : s[k].ref # ref}
    BY <2>3, <2>4
  <2> QED BY <2>5 DEF findRedirectRule
<1> QED BY <1>1, <1>2

-----------------------------------------------------------------------------
(* The invariant *)

\* A Create or Update is about the rule of its spec.  A call that writes is no
\* Read, only a Create writes without a ruleset, and unless somebody has come
\* between, what the call fetched is still what the service has.
CallOK(p) ==
    /\ pc[p] # "ready" /\ kind[p] \in {"Create", "Update"} => refID[p] = spec[p].ref
    /\ pc[p] = "WriteRedirectRuleset" =>
          /\ kind[p] \in {"Create", "Update", "Delete"}
          /\ found[p] \/ kind[p] = "Create"
          /\ ~disturbed[p] => fetched[p] = Fetched(rules)

CallsOK == \A p \in Ops : CallOK(p)

RedirectInv == TypeOK /\ NoSharedRef /\ CallsOK

LEMMA InitRedirect == Init => RedirectInv
<1> SUFFICES ASSUME Init PROVE RedirectInv
  OBVIOUS
<1> USE DEF Init
<1>1. <<>> \in Seq(ServiceRule) /\ <<>> \in Seq(DriverRule) /\ <<>> \in Seq(STRING)
  OBVIOUS
<1>2. RefsUnique(<<>>)
  BY DEF RefsUnique
<1>3. rules \in Seq(ServiceRule) /\ RefsUnique(rules)
  BY <1>1, <1>2, ZoneAssumption
<1>4. AnyRule \in DriverRule
  <2>1. Zone \in Hosts /\ "" \in STRING /\ Defaults \in STRING
    BY HostAssumption, StringAssumption
  <2> HIDE DEF Hosts
  <2> QED BY <1>1, <2>1 DEF AnyRule, DriverRule
<1>5. TypeOK
  BY <1>1, <1>3, <1>4 DEF TypeOK, Labels, Results
<1>6. NoSharedRef
  BY <1>2, <1>3 DEF NoSharedRef
<1>7. CallsOK
  BY DEF CallsOK, CallOK
<1> QED BY <1>5, <1>6, <1>7 DEF RedirectInv

\* What a call sends back is a ruleset without a shared ref.
LEMMA WriteTyped ==
    ASSUME RedirectInv, NEW p \in Ops
    PROVE  /\ WriteRequest(p).rules \in Seq(ServiceRule)
           /\ RefsUnique(WriteRequest(p).rules)
<1>1. fetched[p] \in Seq(DriverRule) /\ RefsUnique(fetched[p]) /\ spec[p] \in DriverRule
  BY DEF RedirectInv, TypeOK, NoSharedRef
<1>2. \A s \in Seq(DriverRule) :
         RefsUnique(s) => Sent(s) \in Seq(ServiceRule) /\ RefsUnique(Sent(s))
  BY SentTyped DEF RefsUnique
<1>3. CASE kind[p] = "Delete"
  <2>1. WriteRequest(p).rules = Sent(RulesBut(fetched[p], {refID[p]}))
    BY <1>3 DEF WriteRequest, Request, withoutRule
  <2>2. /\ RulesBut(fetched[p], {refID[p]}) \in Seq(DriverRule)
        /\ RefsUnique(RulesBut(fetched[p], {refID[p]}))
    BY <1>1, RulesButTyped, RulesButUnique
  <2> QED BY <1>2, <2>1, <2>2
<1>4. CASE kind[p] # "Delete"
  <2>1. WriteRequest(p).rules = Sent(upsertRedirectRule(fetched[p], spec[p]))
    BY <1>4 DEF WriteRequest, Request
  <2>2. /\ upsertRedirectRule(fetched[p], spec[p]) \in Seq(DriverRule)
        /\ RefsUnique(upsertRedirectRule(fetched[p], spec[p]))
    BY <1>1, UpsertTyped
  <2> QED BY <1>2, <2>1, <2>2
<1> QED BY <1>3, <1>4

\* A step that leaves the service and a call alone leaves the call in order.
LEMMA OthersOK ==
    ASSUME RedirectInv, NEW q \in Ops, rules' = rules,
           pc'[q] = pc[q], kind'[q] = kind[q], spec'[q] = spec[q],
           refID'[q] = refID[q], fetched'[q] = fetched[q], found'[q] = found[q],
           disturbed'[q] = disturbed[q]
    PROVE  CallOK(q)'
BY DEF RedirectInv, CallsOK, CallOK

\* A disturbed call is in order whatever the service has.
LEMMA DisturbedOK ==
    ASSUME RedirectInv, NEW q \in Ops, disturbed'[q],
           pc'[q] = pc[q], kind'[q] = kind[q], spec'[q] = spec[q],
           refID'[q] = refID[q], found'[q] = found[q]
    PROVE  CallOK(q)'
BY DEF RedirectInv, CallsOK, CallOK

\* A call that ends is in order.
LEMMA ReturnKeeps ==
    ASSUME RedirectInv, NEW p \in Ops, NEW how \in Results, NEW rule,
           Return(p, how, rule)
    PROVE  /\ pc' \in [Ops -> Labels] /\ result' \in [Ops -> Results]
           /\ fetched' \in [Ops -> Seq(DriverRule)] /\ found' \in [Ops -> BOOLEAN]
           /\ kind' = kind /\ spec' = spec /\ refID' = refID
           /\ \A q \in Ops : RefsUnique(fetched'[q])
           /\ pc'[p] = "ready"
           /\ \A q \in Ops \ {p} : /\ pc'[q] = pc[q] /\ found'[q] = found[q]
                                   /\ fetched'[q] = fetched[q]
<1> USE DEF RedirectInv, TypeOK, NoSharedRef, Return
<1>1. <<>> \in Seq(DriverRule) /\ RefsUnique(<<>>)
  BY DEF RefsUnique
<1>2. pc' \in [Ops -> Labels] /\ pc'[p] = "ready"
  BY DEF Labels
<1>3. result' \in [Ops -> Results] /\ found' \in [Ops -> BOOLEAN]
  OBVIOUS
<1>4. fetched' \in [Ops -> Seq(DriverRule)] /\ fetched'[p] = <<>>
  BY <1>1
<1>5. \A q \in Ops \ {p} : /\ pc'[q] = pc[q] /\ found'[q] = found[q]
                           /\ fetched'[q] = fetched[q]
  OBVIOUS
<1>6. \A q \in Ops : RefsUnique(fetched'[q])
  BY <1>1, <1>4, <1>5
<1> QED BY <1>2, <1>3, <1>4, <1>5, <1>6

\* A call that ends without a word to the service, or with a request whose
\* fate is open.
LEMMA QuietEndKeeps ==
    ASSUME RedirectInv, NEW p \in Ops, NEW how \in Results, NEW rule,
           Return(p, how, rule),
           UNCHANGED <<serviceVars, known, disturbed>>,
           \A req \in limbo' : /\ req.rules \in Seq(ServiceRule)
                               /\ RefsUnique(req.rules)
    PROVE  RedirectInv'
<1> USE DEF serviceVars
<1>1. TypeOK'
  BY ReturnKeeps DEF RedirectInv, TypeOK
<1>2. NoSharedRef'
  BY ReturnKeeps DEF RedirectInv, NoSharedRef
<1>3. CallsOK'
  <2> SUFFICES ASSUME NEW q \in Ops PROVE CallOK(q)'
    BY DEF CallsOK
  <2>1. CASE q = p
    BY <2>1, ReturnKeeps DEF CallOK
  <2>2. CASE q # p
    BY <2>2, ReturnKeeps, OthersOK
  <2> QED BY <2>1, <2>2
<1> QED BY <1>1, <1>2, <1>3 DEF RedirectInv

-----------------------------------------------------------------------------
(* Every step keeps it *)

LEMMA BeginKeeps ==
    ASSUME RedirectInv, NEW p \in Ops, NEW k \in Kinds \cup {"Read"},
           NEW rule \in DriverRule, NEW ref \in Seq(STRING) \cup {NoRef},
           k \in {"Create", "Update"} => (pc' = pc \/ ref = rule.ref),
           Begin(p, k, rule, ref),
           NEW how \in Results, result' = [result EXCEPT ![p] = how],
           pc' = pc \/ pc' = [pc EXCEPT ![p] = "GetZone"]
    PROVE  RedirectInv'
<1> USE DEF serviceVars
<1>1. /\ UNCHANGED <<exists, rules, limbo, fetched, found, known, disturbed>>
      /\ pc[p] = "ready"
      /\ kind' = [kind EXCEPT ![p] = k]
      /\ spec' = [spec EXCEPT ![p] = rule]
      /\ refID' = [refID EXCEPT ![p] = ref]
  BY DEF Begin
<1>2. TypeOK'
  BY <1>1 DEF RedirectInv, TypeOK, Labels
<1>3. NoSharedRef'
  BY <1>1 DEF RedirectInv, NoSharedRef
<1>4. CallsOK'
  <2> SUFFICES ASSUME NEW q \in Ops PROVE CallOK(q)'
    BY DEF CallsOK
  <2>1. CASE q = p
    <3>1. /\ kind'[p] = k /\ spec'[p] = rule /\ refID'[p] = ref
          /\ pc'[p] \in {"ready", "GetZone"} /\ (pc' = pc => pc'[p] = "ready")
      BY <1>1 DEF RedirectInv, TypeOK
    <3> QED BY <2>1, <3>1 DEF CallOK
  <2>2. CASE q # p
    <3>1. /\ kind'[q] = kind[q] /\ spec'[q] = spec[q] /\ refID'[q] = refID[q]
          /\ pc'[q] = pc[q]
      BY <1>1, <2>2 DEF RedirectInv, TypeOK
    <3> QED BY <1>1, <3>1, OthersOK
  <2> QED BY <2>1, <2>2
<1> QED BY <1>2, <1>3, <1>4 DEF RedirectInv

LEMMA StartApplyKeeps ==
    ASSUME RedirectInv, NEW p \in Ops, StartApply(p)
    PROVE  RedirectInv'
<1>1. PICK k \in Kinds \cap {"Create", "Update"}, c \in Configs :
         LET rule == parseRedirectSpec(c)
         IN  IF rule = ParseError
             THEN /\ Begin(p, k, spec[p], NoRef)
                  /\ result' = [result EXCEPT ![p] = "failed"]
                  /\ UNCHANGED pc
             ELSE /\ Begin(p, k, rule, rule.ref)
                  /\ result' = [result EXCEPT ![p] = "none"]
                  /\ pc' = [pc EXCEPT ![p] = "GetZone"]
  BY DEF StartApply
<1> DEFINE rule == parseRedirectSpec(c)
<1>2. rule \in DriverRule \cup {ParseError}
  BY ConfigsAssumption
<1>3. spec[p] \in DriverRule /\ "failed" \in Results /\ "none" \in Results
  BY DEF RedirectInv, TypeOK, Results
<1> HIDE DEF rule
<1>4. CASE rule = ParseError
  <2>1. /\ Begin(p, k, spec[p], NoRef) /\ UNCHANGED pc
        /\ result' = [result EXCEPT ![p] = "failed"]
    BY <1>1, <1>4 DEF rule
  <2> QED BY <1>3, <2>1, BeginKeeps
<1>5. CASE rule # ParseError
  <2>1. /\ Begin(p, k, rule, rule.ref) /\ pc' = [pc EXCEPT ![p] = "GetZone"]
        /\ result' = [result EXCEPT ![p] = "none"]
    BY <1>1, <1>5 DEF rule
  <2>2. rule \in DriverRule /\ rule.ref \in Seq(STRING)
    BY <1>2, <1>5 DEF DriverRule
  <2> QED BY <1>3, <2>1, <2>2, BeginKeeps
<1> QED BY <1>4, <1>5

LEMMA StartByRefKeeps ==
    ASSUME RedirectInv, NEW p \in Ops, StartByRef(p)
    PROVE  RedirectInv'
<1>1. PICK k \in Kinds \cap {"Read", "Delete"}, by \in {"name", "id", "neither"} :
         /\ Begin(p, k, spec[p],
                  IF known[p] # NoRef THEN known[p]
                  ELSE IF by = "name" \/ (by = "id" /\ k = "Read")
                       THEN redirectRefForHost(Zone)
                  ELSE NoRef)
         /\ IF known[p] = NoRef /\ by = "neither"
            THEN result' = [result EXCEPT ![p] = "failed"] /\ UNCHANGED pc
            ELSE /\ result' = [result EXCEPT ![p] = "none"]
                 /\ pc' = [pc EXCEPT ![p] = "GetZone"]
  BY DEF StartByRef
<1> DEFINE ref == IF known[p] # NoRef THEN known[p]
                  ELSE IF by = "name" \/ (by = "id" /\ k = "Read")
                       THEN redirectRefForHost(Zone)
                  ELSE NoRef
<1>2. redirectRefForHost(Zone) \in Seq(STRING)
  <2>1. Zone.words \in Seq(STRING)
    BY HostAssumption DEF Hosts
  <2>2. "workflow_redirect" \in STRING
    BY StringAssumption
  <2>3. <<"workflow_redirect">> \in Seq(STRING)
    BY <2>2
  <2> QED BY <2>1, <2>3, ConcatProperties DEF redirectRefForHost
<1>3. ref \in Seq(STRING) \cup {NoRef}
  BY <1>2 DEF RedirectInv, TypeOK
<1>4. spec[p] \in DriverRule /\ "failed" \in Results /\ "none" \in Results
  BY DEF RedirectInv, TypeOK, Results
<1>5. Begin(p, k, spec[p], ref)
  BY <1>1
<1>6. PICK how \in Results : /\ result' = [result EXCEPT ![p] = how]
                             /\ pc' = pc \/ pc' = [pc EXCEPT ![p] = "GetZone"]
  BY <1>1, <1>4
<1>7. k \notin {"Create", "Update"}
  OBVIOUS
<1> HIDE DEF ref
<1> QED BY <1>3, <1>4, <1>5, <1>6, <1>7, BeginKeeps

LEMMA GetZoneKeeps ==
    ASSUME RedirectInv, NEW p \in Ops, GetZone(p)
    PROVE  RedirectInv'
<1> USE DEF GetZone, serviceVars, callVars
<1>1. TypeOK'
  BY DEF RedirectInv, TypeOK, Labels
<1>2. NoSharedRef'
  BY DEF RedirectInv, NoSharedRef
<1>3. CallsOK'
  BY DEF RedirectInv, TypeOK, CallsOK, CallOK
<1> QED BY <1>1, <1>2, <1>3 DEF RedirectInv

LEMMA GetRedirectRulesetKeeps ==
    ASSUME RedirectInv, NEW p \in Ops, GetRedirectRuleset(p)
    PROVE  RedirectInv'
<1> USE DEF GetRedirectRuleset, serviceVars
<1>1. Fetched(rules) \in Seq(DriverRule) /\ RefsUnique(Fetched(rules))
  <2>1. rules \in Seq(ServiceRule) /\ RefsUnique(rules)
    BY DEF RedirectInv, TypeOK, NoSharedRef
  <2> QED BY <2>1, FetchedTyped DEF RefsUnique
<1>2. /\ fetched' = [fetched EXCEPT ![p] = Fetched(rules)]
      /\ found' = [found EXCEPT ![p] = exists]
      /\ disturbed' = [disturbed EXCEPT ![p] = FALSE]
      /\ pc' = [pc EXCEPT ![p] = "WriteRedirectRuleset"]
      /\ UNCHANGED <<exists, rules, limbo, kind, spec, refID, known, out, result>>
  OBVIOUS
<1>3. TypeOK'
  <2>1. fetched' \in [Ops -> Seq(DriverRule)]
    BY <1>1, <1>2 DEF RedirectInv, TypeOK
  <2>2. pc' \in [Ops -> Labels]
    BY <1>2 DEF RedirectInv, TypeOK, Labels
  <2>3. found' \in [Ops -> BOOLEAN] /\ disturbed' \in [Ops -> BOOLEAN]
    BY <1>2 DEF RedirectInv, TypeOK
  <2> QED BY <1>2, <2>1, <2>2, <2>3 DEF RedirectInv, TypeOK
<1>4. NoSharedRef'
  BY <1>1, <1>2 DEF RedirectInv, NoSharedRef, TypeOK
<1>5. CallsOK'
  <2> SUFFICES ASSUME NEW q \in Ops PROVE CallOK(q)'
    BY DEF CallsOK
  <2>1. CASE q = p
    <3>1. /\ fetched'[p] = Fetched(rules) /\ found'[p] = exists
          /\ pc'[p] = "WriteRedirectRuleset"
      BY <1>2 DEF RedirectInv, TypeOK
    <3>2. pc[p] # "ready"
      OBVIOUS
    <3> QED BY <1>2, <2>1, <3>1, <3>2 DEF RedirectInv, CallsOK, CallOK
  <2>2. CASE q # p
    <3>1. /\ fetched'[q] = fetched[q] /\ found'[q] = found[q]
          /\ pc'[q] = pc[q] /\ disturbed'[q] = disturbed[q]
      BY <1>2, <2>2 DEF RedirectInv, TypeOK
    <3> QED BY <1>2, <3>1, OthersOK
  <2> QED BY <2>1, <2>2
<1> QED BY <1>3, <1>4, <1>5 DEF RedirectInv

\* A Read, a refusal and a failure end a call and no more.
LEMMA EndsKeep ==
    ASSUME RedirectInv, NEW p \in Ops,
           ReadRule(p) \/ RefuseFetch(p) \/ RefuseWrite(p) \/ Fail(p)
    PROVE  RedirectInv'
<1>1. /\ \E how \in Results : \E rule : Return(p, how, rule)
      /\ UNCHANGED <<serviceVars, limbo, known, disturbed>>
  <2>1. CASE ReadRule(p)
    <3> DEFINE rule == findRedirectRule(Fetched(rules), refID[p])
               how == IF rule = {} THEN "missing" ELSE "ok"
    <3>1. how \in Results
      BY DEF Results
    <3>2. Return(p, how, rule)
      BY <2>1 DEF ReadRule
    <3> HIDE DEF how, rule
    <3> QED BY <2>1, <3>1, <3>2 DEF ReadRule
  <2>2. CASE RefuseFetch(p)
    <3> DEFINE how == IF kind[p] = "Read" THEN "missing" ELSE "failed"
    <3>1. how \in Results
      BY DEF Results
    <3>2. Return(p, how, {})
      BY <2>2 DEF RefuseFetch
    <3> HIDE DEF how
    <3> QED BY <2>2, <3>1, <3>2 DEF RefuseFetch
  <2>3. CASE RefuseWrite(p)
    BY <2>3 DEF RefuseWrite, Results
  <2>4. CASE Fail(p)
    BY <2>4 DEF Fail, Results
  <2> QED BY <2>1, <2>2, <2>3, <2>4
<1>2. PICK how, rule : how \in Results /\ Return(p, how, rule)
  BY <1>1
<1>3. \A req \in limbo' : req.rules \in Seq(ServiceRule) /\ RefsUnique(req.rules)
  BY <1>1 DEF RedirectInv, TypeOK, NoSharedRef
<1> QED BY <1>1, <1>2, <1>3, QuietEndKeeps

LEMMA LoseKeeps ==
    ASSUME RedirectInv, NEW p \in Ops, Lose(p)
    PROVE  RedirectInv'
<1>1. /\ Return(p, "failed", {}) /\ "failed" \in Results
      /\ UNCHANGED <<serviceVars, known, disturbed>>
      /\ limbo' = limbo \cup {WriteRequest(p)}
  BY DEF Lose, Results
<1>2. \A req \in limbo' : req.rules \in Seq(ServiceRule) /\ RefsUnique(req.rules)
  BY <1>1, WriteTyped DEF RedirectInv, TypeOK, NoSharedRef
<1> QED BY <1>1, <1>2, QuietEndKeeps

LEMMA WriteKeeps ==
    ASSUME RedirectInv, NEW p \in Ops, WriteRedirectRuleset(p)
    PROVE  RedirectInv'
<1> DEFINE how == "ok"
           rule == IF kind[p] = "Delete" THEN {} ELSE {spec[p]}
<1>1. /\ Return(p, how, rule) /\ how \in Results
      /\ exists' = TRUE /\ rules' = WriteRequest(p).rules /\ limbo' = limbo
      /\ disturbed' = [q \in Ops |-> disturbed[q] \/ q # p]
      /\ known' = [known EXCEPT ![p] = IF kind[p] = "Delete" THEN NoRef
                                       ELSE spec[p].ref]
  BY DEF WriteRedirectRuleset, Serve, Disturb, Results
<1> HIDE DEF how, rule
<1>2. rules' \in Seq(ServiceRule) /\ RefsUnique(rules')
  BY <1>1, WriteTyped
<1>3. known' \in [Ops -> Seq(STRING) \cup {NoRef}] /\ disturbed' \in [Ops -> BOOLEAN]
  <2>1. (IF kind[p] = "Delete" THEN NoRef ELSE spec[p].ref) \in Seq(STRING) \cup {NoRef}
    BY DEF RedirectInv, TypeOK, DriverRule
  <2> QED BY <1>1, <2>1 DEF RedirectInv, TypeOK
<1>4. TypeOK'
  BY <1>1, <1>2, <1>3, ReturnKeeps DEF RedirectInv, TypeOK
<1>5. NoSharedRef'
  BY <1>1, <1>2, ReturnKeeps DEF RedirectInv, NoSharedRef
<1>6. CallsOK'
  <2> SUFFICES ASSUME NEW q \in Ops PROVE CallOK(q)'
    BY DEF CallsOK
  <2>1. CASE q = p
    BY <1>1, <2>1, ReturnKeeps DEF CallOK
  <2>2. CASE q # p
    BY <1>1, <2>2, ReturnKeeps, DisturbedOK
  <2> QED BY <2>1, <2>2
<1> QED BY <1>4, <1>5, <1>6 DEF RedirectInv

\* A step of nobody's that replaces the ruleset, or leaves it alone.
LEMMA ServiceKeeps ==
    ASSUME RedirectInv, UNCHANGED <<pc, callVars, known, out, result>>,
           limbo' \subseteq limbo,
           \/ /\ exists' = TRUE /\ DisturbAll
              /\ rules' \in Seq(ServiceRule) /\ RefsUnique(rules')
           \/ UNCHANGED <<serviceVars, disturbed>>
    PROVE  RedirectInv'
<1> USE DEF callVars, serviceVars
<1>1. /\ exists' \in BOOLEAN /\ rules' \in Seq(ServiceRule) /\ RefsUnique(rules')
      /\ ~exists' => rules' = <<>>
      /\ disturbed' \in [Ops -> BOOLEAN]
  BY DEF DisturbAll, RedirectInv, TypeOK, NoSharedRef
<1>2. TypeOK'
  BY <1>1 DEF RedirectInv, TypeOK
<1>3. NoSharedRef'
  BY <1>1 DEF RedirectInv, NoSharedRef
<1>4. CallsOK'
  <2> SUFFICES ASSUME NEW q \in Ops PROVE CallOK(q)'
    BY DEF CallsOK
  <2>1. CASE DisturbAll
    BY <2>1, DisturbedOK DEF DisturbAll
  <2>2. CASE UNCHANGED <<serviceVars, disturbed>>
    BY <2>2, OthersOK
  <2> QED BY <2>1, <2>2
<1> QED BY <1>2, <1>3, <1>4 DEF RedirectInv

LEMMA ArriveKeeps ==
    ASSUME RedirectInv, NEW req \in limbo, Arrive(req)
    PROVE  RedirectInv'
<1>1. req.rules \in Seq(ServiceRule) /\ RefsUnique(req.rules)
  BY DEF RedirectInv, TypeOK, NoSharedRef
<1> QED BY <1>1, ServiceKeeps DEF Arrive, Serve

LEMMA OutsideKeeps ==
    ASSUME RedirectInv, Outside
    PROVE  RedirectInv'
<1>1. rules \in Seq(ServiceRule) /\ RefsUnique(rules)
  BY DEF RedirectInv, TypeOK, NoSharedRef
<1>2. UNCHANGED <<pc, callVars, known, out, result>> /\ limbo' \subseteq limbo /\ DisturbAll
  BY DEF Outside
<1>3. ASSUME NEW r \in OutsideRules, ~RefIn(r.ref, rules),
             exists' = TRUE, rules' = Append(rules, r)
      PROVE  RedirectInv'
  <2>1. r \in ServiceRule
    BY ZoneAssumption
  <2>2. \A i \in DOMAIN Append(rules, r) :
           \/ i \in DOMAIN rules /\ Append(rules, r)[i] = rules[i]
           \/ i = Len(rules) + 1 /\ Append(rules, r)[i] = r
    BY <1>1
  <2>3. rules' \in Seq(ServiceRule)
    BY <1>1, <1>3, <2>1
  <2>4. RefsUnique(rules')
    BY <1>1, <1>3, <2>2 DEF RefsUnique, RefIn
  <2> QED BY <1>2, <1>3, <2>3, <2>4, ServiceKeeps
<1>4. ASSUME NEW i \in DOMAIN rules, rules' = withoutRule(rules, rules[i].ref),
             UNCHANGED exists
      PROVE  RedirectInv'
  <2>1. exists = TRUE
    BY DEF RedirectInv, TypeOK
  <2>2. rules' \in Seq(ServiceRule) /\ RefsUnique(rules')
    BY <1>1, <1>4, RulesButTyped, RulesButUnique DEF withoutRule
  <2> QED BY <1>2, <1>4, <2>1, <2>2, ServiceKeeps
<1> QED BY <1>3, <1>4 DEF Outside

LEMMA NextRedirect == RedirectInv /\ [Next]_vars => RedirectInv'
<1> SUFFICES ASSUME RedirectInv, [Next]_vars PROVE RedirectInv'
  OBVIOUS
<1>1. ASSUME NEW p \in Ops,
             StartApply(p) \/ StartByRef(p) \/ Step(p) \/ Fail(p) \/ Lose(p)
      PROVE  RedirectInv'
  BY <1>1, StartApplyKeeps, StartByRefKeeps, GetZoneKeeps, GetRedirectRulesetKeeps,
     EndsKeep, WriteKeeps, LoseKeeps DEF Step
<1>2. CASE UNCHANGED vars
  BY <1>2, ServiceKeeps DEF vars, serviceVars, callVars
<1> QED BY <1>1, <1>2, ArriveKeeps, OutsideKeeps DEF Next

\* Whatever the configs, the rules and the number of calls.
THEOREM RedirectInvariant == Spec => []RedirectInv
BY InitRedirect, NextRedirect, PTL DEF Spec

\* Every variable keeps its kind, and there are no rules without a ruleset
\* (Create, Update, Delete, Read).
THEOREM RedirectTypeCorrect == Spec => []TypeOK
<1>1. RedirectInv => TypeOK
  BY DEF RedirectInv
<1> QED BY <1>1, RedirectInvariant, PTL

\* No two rules ever share a ref, in the service, on the way to it or in a call
\* (upsertRedirectRule).
THEOREM RefsStayApart == Spec => []NoSharedRef
<1>1. RedirectInv => NoSharedRef
  BY DEF RedirectInv
<1> QED BY <1>1, RedirectInvariant, PTL

-----------------------------------------------------------------------------
(* What a write does *)

\* A call that found no ruleset asks to create one, which the service accepts
\* only where there still is none.
LEMMA CreationStep ==
    RedirectInv =>
       [\/ \E p \in Ops : WriteRedirectRuleset(p) /\ ~found[p]
        \/ \E req \in limbo : Arrive(req) /\ req.call = "CreateRedirectRuleset"
        => rules \in {<<>>, rules'}]_vars
<1> SUFFICES ASSUME RedirectInv,
                    \/ \E p \in Ops : WriteRedirectRuleset(p) /\ ~found[p]
                    \/ \E req \in limbo :
                          Arrive(req) /\ req.call = "CreateRedirectRuleset"
             PROVE  rules \in {<<>>, rules'}
  OBVIOUS
<1>1. ~exists => rules = <<>>
  BY DEF RedirectInv, TypeOK
<1>2. ASSUME NEW p \in Ops, WriteRedirectRuleset(p), ~found[p]
      PROVE  rules \in {<<>>, rules'}
  <2>1. kind[p] = "Create"
    BY <1>2 DEF WriteRedirectRuleset, RedirectInv, CallsOK, CallOK
  <2>2. WriteRequest(p).call = "CreateRedirectRuleset"
    BY <1>2, <2>1 DEF WriteRequest, Request
  <2> QED BY <1>1, <1>2, <2>2 DEF WriteRedirectRuleset, Accepts
<1>3. ASSUME NEW req \in limbo, Arrive(req), req.call = "CreateRedirectRuleset"
      PROVE  rules \in {<<>>, rules'}
  BY <1>1, <1>3 DEF Arrive, Accepts, serviceVars
<1> QED BY <1>2, <1>3

\* The creation of a ruleset never costs a rule, however late its request
\* arrives (Create).
THEOREM CreationsSafe == Spec => CreationLosesNothing
BY RedirectInvariant, CreationStep, PTL DEF Spec, CreationLosesNothing

\* What a call writes, and what it leaves of the call.
LEMMA Written ==
    ASSUME RedirectInv, NEW p \in Ops, WriteRedirectRuleset(p)
    PROVE  /\ rules' = IF kind[p] = "Delete"
                       THEN Sent(RulesBut(fetched[p], {refID[p]}))
                       ELSE Sent(upsertRedirectRule(fetched[p], spec[p]))
           /\ kind[p] # "Delete" => refID[p] = spec[p].ref
           /\ fetched[p] \in Seq(DriverRule) /\ spec[p] \in DriverRule
           /\ ~disturbed[p] => fetched[p] = Fetched(rules)
           /\ kind' = kind /\ spec' = spec /\ refID' = refID
<1>1. /\ rules' = WriteRequest(p).rules
      /\ kind' = kind /\ spec' = spec /\ refID' = refID
      /\ pc[p] = "WriteRedirectRuleset"
  BY DEF WriteRedirectRuleset, Serve, Return
<1>2. rules' = IF kind[p] = "Delete"
               THEN Sent(RulesBut(fetched[p], {refID[p]}))
               ELSE Sent(upsertRedirectRule(fetched[p], spec[p]))
  BY <1>1 DEF WriteRequest, Request, withoutRule
<1>3. fetched[p] \in Seq(DriverRule) /\ spec[p] \in DriverRule
  BY DEF RedirectInv, TypeOK
<1>4. /\ kind[p] # "Delete" => refID[p] = spec[p].ref
      /\ ~disturbed[p] => fetched[p] = Fetched(rules)
  BY <1>1 DEF RedirectInv, CallsOK, CallOK
<1> QED BY <1>1, <1>2, <1>3, <1>4

\* After a Delete no rule of its ref is left, after a Create or Update the one
\* there is of its ref is the one asked for.
LEMMA WrittenIsCurrent ==
    ASSUME RedirectInv, NEW p \in Ops, WriteRedirectRuleset(p)
    PROVE  Current(p)'
<1>1. CASE kind[p] = "Delete"
  <2> DEFINE s == RulesBut(fetched[p], {refID[p]})
  <2>0. fetched[p] \in Seq(DriverRule)
    BY Written
  <2>1. /\ s \in Seq(DriverRule)
        /\ \A i \in DOMAIN s : s[i].ref \notin {refID[p]}
    BY <2>0, RulesButTyped
  <2>2. Fetched(rules') = s
    BY <1>1, <2>1, Written, SentBack
  <2> HIDE DEF s
  <2>3. findRedirectRule(s, refID[p]) = {}
    BY <2>1, FindFirst
  <2> QED BY <1>1, <2>2, <2>3, Written DEF Current
<1>2. CASE kind[p] # "Delete"
  <2> DEFINE s == upsertRedirectRule(fetched[p], spec[p])
             hits == findRedirectRule(s, refID[p])
  <2>0. /\ fetched[p] \in Seq(DriverRule) /\ spec[p] \in DriverRule
        /\ refID[p] = spec[p].ref
    BY <1>2, Written
  <2>1. s \in Seq(DriverRule)
    BY <2>0, UpsertTyped
  <2>2. /\ RefIn(spec[p].ref, s)
        /\ \A i \in DOMAIN s : s[i].ref = spec[p].ref => s[i] = spec[p]
    BY <2>0, UpsertHas
  <2>3. Fetched(rules') = s
    BY <1>2, <2>1, Written, SentBack
  <2> HIDE DEF s
  <2>4. hits # {} /\ \A r \in hits : r = spec[p]
    BY <2>0, <2>1, <2>2, FindFirst
  <2>5. diffRedirectOutput(spec[p], spec[p]) = {}
    BY DEF diffRedirectOutput
  <2>6. \E r \in hits : diffRedirectOutput(r, spec[p]) = {}
    BY <2>4, <2>5
  <2> QED BY <1>2, <2>3, <2>6, Written DEF Current
<1> QED BY <1>1, <1>2

\* Diff finds nothing right after a write, though others may have changed the
\* ruleset since it was fetched (Diff).
THEOREM WritesAreCurrent == Spec => NoDriftAfterWrite
<1>1. RedirectInv =>
         [\A p \in Ops : WriteRedirectRuleset(p) => Current(p)']_vars
  BY WrittenIsCurrent
<1> QED BY <1>1, RedirectInvariant, PTL DEF Spec, NoDriftAfterWrite

\* A write of a list that is still current is the current list but for the rule
\* it is about and those with a dynamic target.
LEMMA OthersKept ==
    ASSUME RedirectInv, NEW p \in Ops, WriteRedirectRuleset(p), ~disturbed[p],
           NEW refs, refID[p] \in refs,
           \A i \in DOMAIN rules : rules[i].form = "dynamic" => rules[i].ref \in refs
    PROVE  RulesBut(rules', refs) = RulesBut(rules, refs)
<1> DEFINE here == Fetched(rules)
<1>1. rules \in Seq(ServiceRule)
  BY DEF RedirectInv, TypeOK
<1>2. here \in Seq(DriverRule) /\ fetched[p] = here /\ spec[p] \in DriverRule
  BY <1>1, Written, FetchedTyped
<1>3. RulesBut(Sent(here), refs) = RulesBut(rules, refs)
  <2>1. Sent(here) \in Seq(ServiceRule) /\ Len(Sent(here)) = Len(rules)
    BY <1>1, <1>2, FetchedTyped, SentTyped
  <2>2. ASSUME NEW i \in 1..Len(rules)
        PROVE  /\ Sent(here)[i].ref = rules[i].ref
               /\ rules[i].ref \notin refs => Sent(here)[i] = rules[i]
    <3>1. /\ i \in DOMAIN rules /\ i \in DOMAIN here /\ rules[i] \in ServiceRule
          /\ here[i] = redirectRuleFromPhase(rules[i])
          /\ here[i].ref = rules[i].ref
      BY <1>1, FetchedTyped
    <3>2. Sent(here)[i] = redirectRuleParam(here[i]) /\ Sent(here)[i].ref = here[i].ref
      BY <1>2, <3>1, SentTyped
    <3>3. rules[i].ref \notin refs => rules[i].form # "dynamic"
      BY <3>1
    <3> QED BY <3>1, <3>2, <3>3, FromPhaseBack
  <2> HIDE DEF here
  <2> QED BY <1>1, <2>1, <2>2, RulesButAlike
<1>4. ASSUME NEW s \in Seq(DriverRule), rules' = Sent(s),
             RulesBut(s, refs) = RulesBut(here, refs)
      PROVE  RulesBut(rules', refs) = RulesBut(rules, refs)
  BY <1>2, <1>3, <1>4, SentBut
<1> HIDE DEF here
<1>5. CASE kind[p] = "Delete"
  <2>1. RulesBut(here, {refID[p]}) \in Seq(DriverRule)
    BY <1>2, RulesButTyped
  <2>2. RulesBut(RulesBut(here, {refID[p]}), refs) = RulesBut(here, refs)
    BY <1>2, RulesButTwice, {refID[p]} \subseteq refs
  <2> QED BY <1>2, <1>4, <1>5, <2>1, <2>2, Written
<1>6. CASE kind[p] # "Delete"
  <2>1. upsertRedirectRule(here, spec[p]) \in Seq(DriverRule)
    BY <1>2, UpsertTyped
  <2>2. RulesBut(upsertRedirectRule(here, spec[p]), refs) = RulesBut(here, refs)
    BY <1>2, <1>6, UpsertBut, Written
  <2> QED BY <1>2, <1>4, <1>6, <2>1, <2>2, Written
<1> QED BY <1>5, <1>6

LEMMA OthersStep ==
    RedirectInv =>
       [\A p \in Ops : WriteRedirectRuleset(p) /\ ~disturbed[p] =>
          LET dynamic == {i \in DOMAIN rules : rules[i].form = "dynamic"}
              refs == {refID[p]} \cup {rules[i].ref : i \in dynamic}
          IN  RulesBut(rules', refs) = RulesBut(rules, refs)]_vars
<1> SUFFICES ASSUME RedirectInv, NEW p \in Ops,
                    WriteRedirectRuleset(p), ~disturbed[p]
             PROVE  LET dynamic == {i \in DOMAIN rules : rules[i].form = "dynamic"}
                        refs == {refID[p]} \cup {rules[i].ref : i \in dynamic}
                    IN  RulesBut(rules', refs) = RulesBut(rules, refs)
  OBVIOUS
<1> QED BY OthersKept

\* A write nobody interfered with leaves the rules of other refs as they were
\* and in their order, dynamic ones excepted (README "preserves unrelated
\* rules").
THEOREM UnrelatedRulesStay == Spec => OthersPreserved
BY RedirectInvariant, OthersStep, PTL DEF Spec, OthersPreserved

=============================================================================
