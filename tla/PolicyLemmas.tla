---------------------------- MODULE PolicyLemmas ----------------------------
(***************************************************************************)
(* Facts about the policy engine that hold for every document and every    *)
(* request, used by the proofs about growing documents and the broker.     *)
(***************************************************************************)
EXTENDS Policy, TLAPS, WellFoundedInduction

\* Every non-empty set of naturals has a least element.
LEMMA LeastNatural ==
    ASSUME NEW T \in SUBSET Nat, T # {}
    PROVE  \E i \in T : \A j \in T : i <= j
<1>1. IsWellFoundedOn(OpToRel(<, Nat), Nat)
  BY NatLessThanWellFounded
<1>2. PICK i \in T : \A j \in T : ~ (<<j, i>> \in OpToRel(<, Nat))
  BY <1>1, WFMin
<1>3. \A j \in T : ~ (j < i)
  BY <1>2 DEF OpToRel
<1> QED
  BY <1>3

\* FirstMatch is a matching position, and the smallest.
LEMMA FirstMatchLeast ==
    ASSUME NEW policy \in Document, NEW r, Matching(policy, r) # {}
    PROVE  /\ FirstMatch(policy, r) \in Matching(policy, r)
           /\ \A j \in Matching(policy, r) : FirstMatch(policy, r) <= j
<1>1. Matching(policy, r) \in SUBSET Nat
  BY DEF Matching, Document
<1>2. \E i \in Matching(policy, r) : \A j \in Matching(policy, r) : i <= j
  BY <1>1, LeastNatural
<1> QED
  BY <1>2 DEF FirstMatch

\* Whether a rule matches depends on the document only through its role table.
LEMMA MatchNeedsRolesOnly ==
    ASSUME NEW p, NEW q, NEW rule, NEW r, p.roles = q.roles
    PROVE  rule_matches(p, rule, r) <=> rule_matches(q, rule, r)
BY DEF rule_matches, SpecKnown, RoleKnown, rule_operations, resolve_role

\* A document that extends another one decides alike whatever the shorter one
\* decides by a rule.
LEMMA PrefixDecides ==
    ASSUME NEW p \in Document, NEW q \in Document, NEW r,
           p.roles = q.roles, Len(p.rules) <= Len(q.rules),
           \A i \in 1..Len(p.rules) : q.rules[i] = p.rules[i],
           Matching(p, r) # {}
    PROVE  evaluate(q, r) = evaluate(p, r)
<1> DEFINE m == FirstMatch(p, r)
           n == FirstMatch(q, r)
<1>1. /\ DOMAIN p.rules = 1..Len(p.rules) /\ DOMAIN q.rules = 1..Len(q.rules)
      /\ Len(p.rules) \in Nat /\ Len(q.rules) \in Nat
  BY DEF Document
<1>2. \A i \in 1..Len(p.rules) : i \in Matching(p, r) <=> i \in Matching(q, r)
  BY <1>1, MatchNeedsRolesOnly DEF Matching
<1>3. m \in Matching(p, r) /\ \A j \in Matching(p, r) : m <= j
  BY FirstMatchLeast
<1>4. m \in 1..Len(p.rules) /\ m \in Matching(q, r)
  BY <1>1, <1>2, <1>3 DEF Matching
<1>5. n \in Matching(q, r) /\ \A j \in Matching(q, r) : n <= j
  BY <1>4, FirstMatchLeast
<1>6. n \in 1..Len(q.rules) /\ n <= m
  BY <1>1, <1>4, <1>5 DEF Matching
<1>7. n \in 1..Len(p.rules) /\ n \in Matching(p, r)
  BY <1>1, <1>2, <1>4, <1>5, <1>6
<1>8. m <= n
  BY <1>3, <1>7
<1>9. n = m
  BY <1>1, <1>4, <1>6, <1>8
<1>10. q.rules[n] = p.rules[m]
  BY <1>4, <1>9
<1> QED
  BY <1>4, <1>10 DEF evaluate

\* A document of the right shape keeps it when a rule is pushed.
LEMMA WithRuleType ==
    ASSUME NEW policy \in Document, NEW rule \in Rule
    PROVE  /\ WithRule(policy, rule) \in Document
           /\ WithRule(policy, rule).roles = policy.roles
           /\ WithRule(policy, rule).rules = Append(policy.rules, rule)
BY DEF WithRule, Document

\* An allow rule at the end of a document opens what was undecided, or nothing.
LEMMA AppendOpens ==
    ASSUME NEW policy \in Document, NEW rule \in Rule, rule.effect = "allow", NEW r
    PROVE  \/ evaluate(WithRule(policy, rule), r) = evaluate(policy, r)
           \/ /\ evaluate(policy, r) = "no matching rule"
              /\ evaluate(WithRule(policy, rule), r) = "allow"
<1> DEFINE q == WithRule(policy, rule)
           k == Len(policy.rules)
<1>1. /\ q \in Document /\ q.roles = policy.roles
      /\ q.rules = Append(policy.rules, rule)
  BY WithRuleType
<1>2. /\ k \in Nat /\ Len(q.rules) = k + 1
      /\ \A i \in 1..k : q.rules[i] = policy.rules[i]
      /\ q.rules[k + 1] = rule
      /\ DOMAIN q.rules = 1..(k + 1) /\ DOMAIN policy.rules = 1..k
  BY <1>1 DEF Document
<1> HIDE DEF q
<1>3. CASE Matching(policy, r) # {}
  <2>1. evaluate(q, r) = evaluate(policy, r)
    BY <1>1, <1>2, <1>3, PrefixDecides
  <2> QED
    BY <2>1 DEF q
<1>4. CASE Matching(policy, r) = {}
  <2>1. evaluate(policy, r) = "no matching rule"
    BY <1>4 DEF evaluate
  <2>2. \A i \in Matching(q, r) : i = k + 1
    BY <1>1, <1>2, <1>4, MatchNeedsRolesOnly DEF Matching
  <2>3. CASE Matching(q, r) = {}
    BY <2>1, <2>3 DEF evaluate, q
  <2>4. CASE Matching(q, r) # {}
    <3>1. FirstMatch(q, r) = k + 1
      BY <1>1, <2>2, <2>4, FirstMatchLeast
    <3>2. evaluate(q, r) = "allow"
      BY <1>2, <2>4, <3>1 DEF evaluate
    <3> QED
      BY <2>1, <3>2 DEF q
  <2> QED
    BY <2>3, <2>4
<1> QED
  BY <1>3, <1>4 DEF q

\* Pushing a rule that is itself valid keeps a document loadable.
LEMMA AppendValid ==
    ASSUME NEW policy \in Document, NEW rule \in Rule,
           validate(policy), RuleValid(policy, rule)
    PROVE  validate(WithRule(policy, rule))
<1> DEFINE q == WithRule(policy, rule)
           k == Len(policy.rules)
<1>1. q.roles = policy.roles /\ q.rules = Append(policy.rules, rule)
  BY WithRuleType
<1>2. /\ k \in Nat /\ DOMAIN q.rules = 1..(k + 1) /\ DOMAIN policy.rules = 1..k
      /\ \A i \in 1..k : q.rules[i] = policy.rules[i]
      /\ q.rules[k + 1] = rule
  BY <1>1 DEF Document
<1> HIDE DEF q
<1>3. \A x : RuleValid(q, x) <=> RuleValid(policy, x)
  BY <1>1 DEF RuleValid, SpecKnown, RoleKnown
<1>4. \A i \in DOMAIN q.rules : RuleValid(q, q.rules[i])
  BY <1>2, <1>3 DEF validate
<1> QED
  BY <1>1, <1>4 DEF validate, q

\* The loop over the rules computes the first match: from rule i on it decides by
\* the first of the remaining rules that matches, and by none if there is none.
LEMMA LoopIsFirstMatch ==
    ASSUME NEW policy \in Document, NEW r
    PROVE  evaluate(policy, r) = EvaluateLoop(policy, r)
<1> DEFINE n == Len(policy.rules)
           Hit(i) == rule_matches(policy, policy.rules[i], r)
           By(i) == IF policy.rules[i].effect = "allow" THEN "allow" ELSE "denied by rule"
           Later(i) == {j \in i..n : Hit(j)}
           First(i) == CHOOSE j \in Later(i) : \A k \in Later(i) : j <= k
           Decides(i) == IF Later(i) = {} THEN "no matching rule" ELSE By(First(i))
           Is(f) == f = [i \in 1..(n + 1) |->
                            IF i > n THEN "no matching rule" ELSE IF Hit(i) THEN By(i) ELSE f[i + 1]]
           from == CHOOSE f : Is(f)
<1>1. n \in Nat /\ DOMAIN policy.rules = 1..n
  BY DEF Document
<1>2. EvaluateLoop(policy, r) = from[1]
  BY DEF EvaluateLoop
<1>3. evaluate(policy, r) = Decides(1)
  <2>1. Matching(policy, r) = Later(1)
    BY <1>1 DEF Matching
  <2> QED
    BY <2>1 DEF evaluate, FirstMatch
<1> HIDE DEF n, Hit, By
<1>4. Decides(n + 1) = "no matching rule"
  <2>1. Later(n + 1) = {}
    BY <1>1
  <2> HIDE DEF Later
  <2> QED
    BY <2>1
<1>5. ASSUME NEW i \in 1..n, Hit(i) PROVE Decides(i) = By(i)
  <2>1. i \in Later(i) /\ \A k \in Later(i) : i <= k
    BY <1>1, <1>5
  <2>2. \A j \in Later(i) : (\A k \in Later(i) : j <= k) => j = i
    BY <1>1, <2>1
  <2>3. First(i) = i
    <3> HIDE DEF Later
    <3> QED
      BY <2>1, <2>2
  <2> HIDE DEF First, Later
  <2> QED
    BY <2>1, <2>3
<1>6. ASSUME NEW i \in 1..n, ~Hit(i) PROVE Decides(i) = Decides(i + 1)
  <2>1. Later(i) = Later(i + 1)
    BY <1>1, <1>6
  <2> HIDE DEF Later
  <2> QED
    BY <2>1
<1> HIDE DEF Decides
<1>7. Is(from)
  <2> DEFINE g == [i \in 1..(n + 1) |-> Decides(i)]
  <2>1. ASSUME NEW i \in 1..(n + 1)
        PROVE  g[i] = IF i > n THEN "no matching rule" ELSE IF Hit(i) THEN By(i) ELSE g[i + 1]
    <3>1. CASE i = n + 1
      <4>1. i > n /\ g[i] = Decides(n + 1)
        BY <1>1, <3>1
      <4> QED
        BY <1>4, <4>1
    <3>2. CASE i # n + 1
      <4>1. i \in 1..n /\ ~(i > n) /\ i + 1 \in 1..(n + 1)
        BY <1>1, <3>2
      <4> QED
        BY <1>5, <1>6, <4>1
    <3> QED
      BY <3>1, <3>2
  <2>2. Is(g)
    <3>1. g = [i \in 1..(n + 1) |-> g[i]]
      OBVIOUS
    <3> HIDE DEF g
    <3> QED
      BY <2>1, <3>1
  <2> HIDE DEF Is, g
  <2> QED
    BY <2>2
<1> HIDE DEF from
<1>8. from[n + 1] = "no matching rule" /\ \A i \in 1..n : from[i] = IF Hit(i) THEN By(i) ELSE from[i + 1]
  <2>1. \A i \in 1..(n + 1) :
           from[i] = IF i > n THEN "no matching rule" ELSE IF Hit(i) THEN By(i) ELSE from[i + 1]
    BY <1>7
  <2>2. n + 1 \in 1..(n + 1) /\ n + 1 > n /\ \A i \in 1..n : i \in 1..(n + 1) /\ ~(i > n)
    BY <1>1
  <2> QED
    BY <2>1, <2>2
<1> HIDE DEF Is
<1>9. from[1] = Decides(1)
  <2> DEFINE wrong == {k \in 0..n : from[n + 1 - k] # Decides(n + 1 - k)}
  <2>1. ASSUME wrong # {} PROVE FALSE
    <3>1. wrong \in SUBSET Nat
      BY <1>1
    <3>2. PICK k \in wrong : \A j \in wrong : k <= j
      <4> HIDE DEF wrong
      <4> QED
        BY <2>1, <3>1, LeastNatural
    <3> DEFINE i == n + 1 - k
    <3>3. k # 0
      <4>1. ASSUME k = 0 PROVE n + 1 - k = n + 1
        BY <1>1, <4>1
      <4> QED
        BY <1>4, <1>8, <3>2, <4>1
    <3>4. i \in 1..n /\ k - 1 \in 0..n /\ k - 1 \notin wrong /\ n + 1 - (k - 1) = i + 1
      BY <1>1, <3>2, <3>3
    <3>5. from[i + 1] = Decides(i + 1)
      BY <3>4
    <3>6. from[i] = Decides(i)
      BY <1>5, <1>6, <1>8, <3>4, <3>5
    <3> QED
      BY <3>2, <3>6
  <2>2. n \in 0..n /\ n + 1 - n = 1
    BY <1>1
  <2> QED
    BY <2>1, <2>2
<1> QED
  BY <1>2, <1>3, <1>9
=============================================================================
