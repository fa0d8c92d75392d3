-------------------------- MODULE NamedValuesProofs ---------------------------
(***************************************************************************)
(* Theorems about the storages of variables by name, for any names, any    *)
(* hash, any size of the table and any bound on its chains: none is lost   *)
(* when the table grows, and before it has grown the latest is found.      *)
(***************************************************************************)
EXTENDS NamedValues, SequenceTheorems, WellFoundedInduction, TLAPS

-----------------------------------------------------------------------------
(* Numbers *)

LEMMA SetInduction ==
  ASSUME NEW S, 0 \in S, \A n \in Nat : n \in S => n + 1 \in S
  PROVE  Nat \subseteq S
<1>1. SUFFICES ASSUME Nat \ S # {} PROVE FALSE
  OBVIOUS
<1>2. PICK R : R = OpToRel(<, Nat)
  OBVIOUS
<1>3. \A a, b \in Nat : a < b => <<a, b>> \in R
  BY <1>2 DEF OpToRel
<1>4. IsWellFoundedOn(R, Nat)
  BY <1>2, NatLessThanWellFounded
<1>5. PICK x \in Nat \ S : \A y \in Nat \ S : ~ (<<y, x>> \in R)
  BY <1>1, <1>4, WFMin
<1>6. x # 0 /\ x - 1 \in Nat /\ x - 1 < x /\ x - 1 + 1 = x
  BY <1>5
<1>7. QED
  BY <1>3, <1>5, <1>6

\* A set of naturals has a least element.
LEMMA LeastOf ==
  ASSUME NEW S \in SUBSET Nat, S # {}
  PROVE  Min(S) \in S /\ \A x \in S : Min(S) <= x
<1>1. PICK R : R = OpToRel(<, Nat)
  OBVIOUS
<1>2. \A a, b \in Nat : a < b => <<a, b>> \in R
  BY <1>1 DEF OpToRel
<1>3. IsWellFoundedOn(R, Nat)
  BY <1>1, NatLessThanWellFounded
<1>4. PICK m \in S : \A y \in S : ~ (<<y, m>> \in R)
  BY <1>3, WFMin
<1>5. ASSUME NEW y \in S
      PROVE  m <= y
  <2>1. ~(y < m)
    BY <1>2, <1>4
  <2>2. QED
    BY <2>1
<1>6. QED
  BY <1>4, <1>5 DEF Min

LEMMA Division ==
  ASSUME NEW h \in Nat, NEW m \in Nat \ {0}
  PROVE  h = m * (h \div m) + (h % m) /\ h % m \in 0 .. m - 1 /\ h \div m \in Int
  OBVIOUS

LEMMA RemainderOf ==
  ASSUME NEW m \in Nat \ {0}, NEW h \in Nat, NEW q \in Int, NEW r \in 0 .. m - 1, h = m * q + r
  PROVE  h % m = r
<1> DEFINE d == h \div m
<1>1. h = m * d + (h % m) /\ h % m \in 0 .. m - 1 /\ d \in Int
  BY Division
<1> HIDE DEF d
<1>2. m * (q - d) = (h % m) - r
  BY <1>1
<1>3. q = d
  <2>1. CASE q > d
    <3>1. m * (q - d) >= m
      BY <1>1, <2>1
    <3>2. QED
      BY <1>1, <1>2, <3>1
  <2>2. CASE q < d
    <3>1. m * (d - q) >= m
      BY <1>1, <2>2
    <3>2. QED
      BY <1>1, <1>2, <3>1
  <2>3. QED
    BY <1>1, <2>1, <2>2
<1>4. QED
  BY <1>1, <1>3

\* The bucket among m of what is in a bucket among 2 * m
LEMMA RemainderHalved ==
  ASSUME NEW h \in Nat, NEW m \in Nat \ {0}
  PROVE  (h % (2 * m)) % m = h % m
<1> DEFINE t == 2 * m
<1>0. t \in Nat \ {0}
  OBVIOUS
<1> HIDE DEF t
<1>1. PICK q \in Int, r \in Nat : h = t * q + r /\ r = h % t
  <2>1. h = t * (h \div t) + (h % t) /\ h % t \in 0 .. t - 1 /\ h \div t \in Int
    BY <1>0, Division
  <2>2. h % t \in Nat
    BY <1>0, <2>1
  <2>3. QED
    BY <2>1, <2>2, Zenon
<1>2. PICK d \in Int, e \in 0 .. m - 1 : r = m * d + e /\ e = r % m
  <2>1. r = m * (r \div m) + (r % m) /\ r % m \in 0 .. m - 1 /\ r \div m \in Int
    BY <1>1, Division
  <2>2. QED
    BY <2>1, Zenon
<1>3. h = m * (2 * q + d) + e
  <2>1. t * q = m * (2 * q)
    BY DEF t
  <2>2. m * (2 * q + d) = m * (2 * q) + m * d
    OBVIOUS
  <2>3. \A x, y \in Int : (h = x + r /\ r = y + e) => h = (x + y) + e
    OBVIOUS
  <2>4. m * (2 * q) \in Int /\ m * d \in Int
    OBVIOUS
  <2>5. h = (m * (2 * q) + m * d) + e
    BY <1>1, <1>2, <2>1, <2>3, <2>4, Zenon
  <2>6. QED
    BY <2>2, <2>5, Zenon
<1>4. h % m = e
  BY <1>2, <1>3, RemainderOf, 2 * q + d \in Int
<1>5. QED
  BY <1>1, <1>2, <1>4 DEF t

-----------------------------------------------------------------------------
(* Chains *)

Slot == [name : Names, owner : Nat]

Distinct(chain) == \A i, j \in 1 .. Len(chain) : chain[i] = chain[j] => i = j
Falling(chain) == \A i, j \in 1 .. Len(chain) : i < j => chain[i] > chain[j]
Holds(chain, s) == \E i \in 1 .. Len(chain) : chain[i] = s

LEMMA BucketIn ==
  ASSUME NEW name \in Names, NEW n \in Nat \ {0}
  PROVE  BucketOf(name, n) \in 1 .. n
  BY NamedValuesAssumptions DEF BucketOf

\* The bucket of a name in the table that has half as many
LEMMA BucketHalved ==
  ASSUME NEW name \in Names, NEW n \in Nat \ {0}
  PROVE  ((BucketOf(name, 2 * n) - 1) % n) + 1 = BucketOf(name, n)
<1>1. Hash[name] \in Nat
  BY NamedValuesAssumptions
<1>2. Hash[name] % (2 * n) \in Nat
  BY <1>1, 2 * n \in Nat \ {0}
<1>3. BucketOf(name, 2 * n) - 1 = Hash[name] % (2 * n)
  BY <1>2 DEF BucketOf
<1>4. QED
  BY <1>1, <1>3, RemainderHalved DEF BucketOf

\* The function Moved(...) is what its recursive definition says.
MovedIs(f, chain, b, n, all) ==
  \A k \in 0 .. Len(chain) :
    f[k] = IF k = 0 THEN <<>>
           ELSE IF BucketOf(all[chain[k]].name, n) = b THEN <<chain[k]>> \o f[k - 1]
           ELSE f[k - 1]

LEMMA MovedOf ==
  ASSUME NEW chain \in Seq(Nat), NEW b, NEW n, NEW all
  PROVE  MovedIs(Moved(chain, b, n, all), chain, b, n, all)
<1> DEFINE Step(g, k) == IF k = 0 THEN <<>>
                         ELSE IF BucketOf(all[chain[k]].name, n) = b THEN <<chain[k]>> \o g[k - 1]
                         ELSE g[k - 1]
           Is(g, m) == g = [k \in 0 .. m |-> Step(g, k)]
           S == {m \in Nat : \E g : Is(g, m)}
<1>1. 0 \in S
  <2>1. Is([k \in 0 .. 0 |-> <<>>], 0)
    OBVIOUS
  <2>2. QED
    BY <2>1
<1>2. ASSUME NEW m \in Nat, m \in S
      PROVE  m + 1 \in S
  <2>1. PICK g : Is(g, m)
    BY <1>2
  <2>2. PICK h : h = [k \in 0 .. m + 1 |-> IF k = m + 1 THEN Step(g, m + 1) ELSE g[k]]
    OBVIOUS
  <2>3. ASSUME NEW k \in 0 .. m + 1
        PROVE  h[k] = Step(h, k)
    <3>1. CASE k = m + 1
      <4>1. h[k] = Step(g, k) /\ k # 0 /\ k - 1 = m /\ k - 1 # m + 1 /\ k - 1 \in 0 .. m + 1
        BY <2>2, <3>1
      <4>2. h[k - 1] = g[k - 1]
        BY <2>2, <4>1
      <4>3. QED
        BY <4>1, <4>2
    <3>2. CASE k # m + 1
      <4>1. k \in 0 .. m /\ h[k] = g[k] /\ g[k] = Step(g, k)
        <5>1. k \in 0 .. m
          BY <3>2
        <5> HIDE DEF Step
        <5>2. QED
          BY <2>1, <2>2, <3>2, <5>1
      <4>2. k # 0 => h[k - 1] = g[k - 1]
        BY <2>2, <4>1
      <4>3. QED
        BY <4>1, <4>2
    <3>3. QED
      BY <3>1, <3>2
  <2>4. h = [k \in 0 .. m + 1 |-> Step(h, k)]
    BY <2>2, <2>3
  <2>5. Is(h, m + 1)
    BY <2>4
  <2> HIDE DEF Is
  <2>6. QED
    BY <2>5
<1>3. Len(chain) \in S
  <2> HIDE DEF S
  <2>1. Nat \subseteq S
    BY <1>1, <1>2, SetInduction
  <2>2. QED
    BY <2>1
<1>4. PICK g : Is(g, Len(chain))
  BY <1>3
<1>5. Moved(chain, b, n, all) = CHOOSE h : Is(h, Len(chain))
  BY DEF Moved
<1>6. Is(Moved(chain, b, n, all), Len(chain))
  <2> HIDE DEF Is
  <2>1. QED
    BY <1>4, <1>5
<1>7. QED
  BY <1>6 DEF MovedIs

\* An item in front of a chain
LEMMA InFront ==
  ASSUME NEW old \in Seq(Nat), NEW x \in Nat, NEW new, new = <<x>> \o old
  PROVE  /\ new \in Seq(Nat)
         /\ Len(new) = Len(old) + 1
         /\ \A i \in 1 .. Len(new) : new[i] = IF i = 1 THEN x ELSE old[i - 1]
         /\ \A s : Holds(new, s) <=> s = x \/ Holds(old, s)
         /\ Distinct(old) /\ ~Holds(old, x) => Distinct(new)
         /\ Falling(old) /\ (\A s : Holds(old, s) => s < x) => Falling(new)
<1>1. /\ new \in Seq(Nat)
      /\ Len(new) = Len(old) + 1
      /\ \A i \in 1 .. Len(new) : new[i] = IF i = 1 THEN x ELSE old[i - 1]
  OBVIOUS
<1>2. \A i \in 1 .. Len(new) : i # 1 => i - 1 \in 1 .. Len(old)
  BY <1>1
<1>3. \A i \in 1 .. Len(old) : i + 1 \in 1 .. Len(new) /\ i + 1 # 1 /\ (i + 1) - 1 = i
  BY <1>1
<1>4. \A i \in 1 .. Len(old) : new[i + 1] = old[i]
  BY <1>1, <1>3
<1>5. ASSUME NEW s
      PROVE  Holds(new, s) <=> s = x \/ Holds(old, s)
  <2>1. ASSUME Holds(new, s)
        PROVE  s = x \/ Holds(old, s)
    BY <1>1, <1>2, <2>1 DEF Holds
  <2>2. 1 \in 1 .. Len(new)
    BY <1>1
  <2>3. Holds(new, x)
    BY <1>1, <2>2 DEF Holds
  <2>4. Holds(old, s) => Holds(new, s)
    BY <1>3, <1>4 DEF Holds
  <2>5. QED
    BY <2>1, <2>3, <2>4
<1>6. ASSUME Distinct(old), ~Holds(old, x)
      PROVE  Distinct(new)
  <2>1. SUFFICES ASSUME NEW i \in 1 .. Len(new), NEW j \in 1 .. Len(new), new[i] = new[j]
                 PROVE  i = j
    BY DEF Distinct
  <2>2. CASE i = 1 \/ j = 1
    BY <1>1, <1>2, <1>6, <2>1, <2>2 DEF Holds
  <2>3. CASE i # 1 /\ j # 1
    <3>1. old[i - 1] = old[j - 1] /\ i - 1 \in 1 .. Len(old) /\ j - 1 \in 1 .. Len(old)
      BY <1>1, <1>2, <2>1, <2>3
    <3>2. i - 1 = j - 1
      BY <1>6, <3>1 DEF Distinct
    <3>3. QED
      BY <1>1, <3>2
  <2>4. QED
    BY <2>2, <2>3
<1>7. ASSUME Falling(old), \A s : Holds(old, s) => s < x
      PROVE  Falling(new)
  <2>1. SUFFICES ASSUME NEW i \in 1 .. Len(new), NEW j \in 1 .. Len(new), i < j
                 PROVE  new[i] > new[j]
    BY DEF Falling
  <2>2. j # 1 /\ j - 1 \in 1 .. Len(old) /\ new[j] = old[j - 1] /\ old[j - 1] \in Nat
    BY <1>1, <1>2, <2>1
  <2>3. CASE i = 1
    BY <1>1, <1>7, <2>2, <2>3 DEF Holds
  <2>4. CASE i # 1
    <3>1. i - 1 \in 1 .. Len(old) /\ new[i] = old[i - 1] /\ i - 1 < j - 1
      BY <1>1, <1>2, <2>1, <2>4
    <3>2. QED
      BY <1>7, <2>2, <3>1 DEF Falling
  <2>5. QED
    BY <2>3, <2>4
<1>8. QED
  BY <1>1, <1>5, <1>6, <1>7

\* What the items of a chain that belong to a bucket make: the same items, each once.
LEMMA RebuiltKeeps ==
  ASSUME NEW chain \in Seq(Nat), NEW b, NEW n, NEW all, Distinct(chain)
  PROVE  LET new == Rebuilt(chain, b, n, all)
         IN  /\ new \in Seq(Nat)
             /\ Distinct(new)
             /\ \A s : Holds(new, s) <=> Holds(chain, s) /\ BucketOf(all[s].name, n) = b
<1> DEFINE Mine(s) == BucketOf(all[s].name, n) = b
           Before(k, s) == \E i \in 1 .. k : chain[i] = s
<1>1. PICK f : /\ f = Moved(chain, b, n, all)
               /\ MovedIs(f, chain, b, n, all)
  BY MovedOf
<1>2. \A k \in 0 .. Len(chain) :
        f[k] = IF k = 0 THEN <<>>
               ELSE IF Mine(chain[k]) THEN <<chain[k]>> \o f[k - 1] ELSE f[k - 1]
  BY <1>1 DEF MovedIs
<1> DEFINE Good(k) == /\ f[k] \in Seq(Nat)
                      /\ Distinct(f[k])
                      /\ \A s : Holds(f[k], s) <=> Mine(s) /\ Before(k, s)
           S == {k \in Nat : k <= Len(chain) => Good(k)}
<1>3. 0 \in S
  <2>1. 0 \in 0 .. Len(chain)
    OBVIOUS
  <2>2. f[0] = <<>>
    <3> HIDE DEF Mine
    <3>1. QED
      BY <1>2, <2>1
  <2>3. \A s : ~Before(0, s) /\ ~Holds(f[0], s)
    BY <2>2 DEF Holds
  <2>4. f[0] \in Seq(Nat) /\ Distinct(f[0])
    BY <2>2 DEF Distinct
  <2> HIDE DEF Mine, Before
  <2>5. QED
    BY <2>3, <2>4
<1>4. ASSUME NEW k \in Nat, k \in S
      PROVE  k + 1 \in S
  <2>1. SUFFICES ASSUME k + 1 <= Len(chain) PROVE Good(k + 1)
    OBVIOUS
  <2>2. Good(k)
    BY <1>4, <2>1
  <2>3. k + 1 \in 1 .. Len(chain) /\ k + 1 \in 0 .. Len(chain) /\ k + 1 # 0 /\ (k + 1) - 1 = k
    BY <2>1
  <2>4. PICK x \in Nat : x = chain[k + 1]
    BY <2>3
  <2>5. f[k + 1] = IF Mine(x) THEN <<x>> \o f[k] ELSE f[k]
    <3> HIDE DEF Mine
    <3>1. QED
      BY <1>2, <2>3, <2>4
  <2>6. \A s : Before(k + 1, s) <=> s = x \/ Before(k, s)
    BY <2>3, <2>4
  <2>7. ~Before(k, x)
    BY <2>3, <2>4 DEF Distinct
  <2> HIDE DEF Mine, Before
  <2>8. CASE ~Mine(x)
    BY <2>2, <2>5, <2>6, <2>8
  <2>9. CASE Mine(x)
    <3>1. f[k] \in Seq(Nat) /\ f[k + 1] = <<x>> \o f[k] /\ Distinct(f[k]) /\ ~Holds(f[k], x)
      BY <2>2, <2>5, <2>7, <2>9
    <3>2. \A old \in Seq(Nat) : \A new :
            (new = <<x>> \o old /\ Distinct(old) /\ ~Holds(old, x)) =>
               /\ new \in Seq(Nat) /\ Distinct(new)
               /\ \A s : Holds(new, s) <=> s = x \/ Holds(old, s)
      BY InFront
    <3>3. /\ f[k + 1] \in Seq(Nat) /\ Distinct(f[k + 1])
          /\ \A s : Holds(f[k + 1], s) <=> s = x \/ Holds(f[k], s)
      BY <3>1, <3>2
    <3>4. QED
      BY <2>2, <2>6, <2>9, <3>3
  <2>10. QED
    BY <2>8, <2>9
<1>5. Good(Len(chain))
  <2> HIDE DEF S, Good
  <2>1. Nat \subseteq S
    BY <1>3, <1>4, SetInduction
  <2>2. QED
    BY <2>1 DEF S
<1>6. Rebuilt(chain, b, n, all) = f[Len(chain)]
  BY <1>1 DEF Rebuilt
<1>7. QED
  BY <1>5, <1>6 DEF Holds

-----------------------------------------------------------------------------
(* The table *)

\* The parts of a table that matter here
TableOK(t) ==
  /\ \E mult, ineff, noexpand :
       t = [chains |-> t.chains, mult |-> mult, ineff |-> ineff, noexpand |-> noexpand, grown |-> t.grown]
  /\ t.chains \in Seq(Seq(Nat)) /\ t.chains # <<>>
  /\ t.grown \in Nat

\* Every one of the first k storages is in the chain of its name once, and nothing else is.
Entered(t, k, all) ==
  \A b \in 1 .. Len(t.chains) :
    /\ Distinct(t.chains[b])
    /\ \A s : Holds(t.chains[b], s) <=> s \in 1 .. k /\ BucketOf(all[s].name, Len(t.chains)) = b

\* Until the table has grown, the newest come first.
NewestFirst(t) == t.grown = 0 => \A b \in 1 .. Len(t.chains) : Falling(t.chains[b])

LEMMA ExpandedKeeps ==
  ASSUME NEW t, NEW k \in Nat, NEW all, \A s \in 1 .. k : all[s].name \in Names,
         TableOK(t), Entered(t, k, all)
  PROVE  /\ TableOK(Expanded(t, all))
         /\ Entered(Expanded(t, all), k, all)
         /\ Expanded(t, all).grown > 0
<1>1. PICK old \in Nat \ {0} : old = Len(t.chains)
  BY EmptySeq DEF TableOK
<1> DEFINE n == 2 * old
           From(b) == ((b - 1) % old) + 1
           chains == [b \in 1 .. n |-> Rebuilt(t.chains[From(b)], b, n, all)]
           ineff == Ineff(t.ineff, chains, Items(t))
<1>2. n \in Nat \ {0}
  OBVIOUS
<1>3. Expanded(t, all) = [chains |-> chains, mult |-> Mult(chains, Items(t)), ineff |-> ineff,
                          noexpand |-> t.noexpand \/ ineff > 1, grown |-> t.grown + 1]
  BY <1>1, Zenon DEF Expanded
<1>4. ASSUME NEW b \in 1 .. n
      PROVE  From(b) \in 1 .. old
  <2>1. PICK a \in Nat : a = b - 1
    OBVIOUS
  <2>2. a % old \in 0 .. old - 1
    BY Division
  <2>3. QED
    BY <2>1, <2>2
<1> HIDE DEF n
<1>5. ASSUME NEW b \in 1 .. n
      PROVE  /\ chains[b] \in Seq(Nat)
             /\ Distinct(chains[b])
             /\ \A s : Holds(chains[b], s) <=> s \in 1 .. k /\ BucketOf(all[s].name, n) = b
  <2>1. PICK a \in 1 .. old : a = From(b)
    BY <1>4
  <2>2. PICK chain \in Seq(Nat) : chain = t.chains[a]
    BY <1>1 DEF TableOK
  <2>3. /\ Distinct(chain)
        /\ \A s : Holds(chain, s) <=> s \in 1 .. k /\ BucketOf(all[s].name, old) = a
    BY <1>1, <2>2 DEF Entered
  <2>4. chains[b] = Rebuilt(chain, b, n, all)
    BY <2>1, <2>2
  <2>5. PICK new : new = Rebuilt(chain, b, n, all)
    OBVIOUS
  <2>6. /\ new \in Seq(Nat)
        /\ Distinct(new)
        /\ \A s : Holds(new, s) <=> Holds(chain, s) /\ BucketOf(all[s].name, n) = b
    BY <2>3, <2>5, RebuiltKeeps
  <2>7. ASSUME NEW s \in 1 .. k, BucketOf(all[s].name, n) = b
        PROVE  BucketOf(all[s].name, old) = a
    BY <2>1, <2>7, BucketHalved DEF n
  <2> HIDE DEF chains
  <2>8. QED
    BY <2>3, <2>4, <2>5, <2>6, <2>7
<1>6. chains \in Seq(Seq(Nat)) /\ Len(chains) = n /\ chains # <<>>
  <2>1. chains \in [1 .. n -> Seq(Nat)]
    BY <1>5
  <2> HIDE DEF chains
  <2>2. QED
    BY <1>2, <2>1
<1> HIDE DEF chains, ineff
<1>7. TableOK(Expanded(t, all))
  <2>1. Expanded(t, all).chains = chains /\ Expanded(t, all).grown = t.grown + 1 /\ t.grown + 1 \in Nat
    BY <1>3 DEF TableOK
  <2>2. \E m, i, e :
          Expanded(t, all) = [chains |-> Expanded(t, all).chains, mult |-> m, ineff |-> i, noexpand |-> e,
                              grown |-> Expanded(t, all).grown]
    BY <1>3, <2>1, Zenon
  <2>3. QED
    BY <1>6, <2>1, <2>2 DEF TableOK
<1>8. Entered(Expanded(t, all), k, all)
  BY <1>3, <1>5, <1>6 DEF Entered
<1>9. Expanded(t, all).grown > 0
  BY <1>3 DEF TableOK
<1>10. QED
  BY <1>7, <1>8, <1>9

LEMMA AddKeeps ==
  ASSUME NEW t, NEW k \in Nat, NEW all, \A s \in 1 .. k + 1 : all[s].name \in Names,
         TableOK(t), Entered(t, k, all), NewestFirst(t)
  PROVE  LET new == Add(t, k + 1, all)
         IN  TableOK(new) /\ Entered(new, k + 1, all) /\ NewestFirst(new)
<1>1. PICK n \in Nat \ {0} : n = Len(t.chains)
  BY EmptySeq DEF TableOK
<1>2. PICK b \in 1 .. n : b = BucketOf(all[k + 1].name, n)
  BY BucketIn
<1>3. PICK x \in Nat : x = k + 1
  OBVIOUS
<1>4. PICK old \in Seq(Nat) : old = t.chains[b]
  BY <1>1 DEF TableOK
<1>5. PICK new : new = <<x>> \o old
  OBVIOUS
<1>6. /\ Distinct(old)
      /\ \A s : Holds(old, s) <=> s \in 1 .. k /\ BucketOf(all[s].name, n) = b
      /\ t.grown = 0 => Falling(old)
  BY <1>1, <1>4 DEF Entered, NewestFirst
<1>7. \A s : Holds(old, s) => s \in Nat /\ s < x
  BY <1>3, <1>6
<1>8. /\ new \in Seq(Nat)
      /\ Distinct(new)
      /\ t.grown = 0 => Falling(new)
      /\ \A s : Holds(new, s) <=> s = x \/ Holds(old, s)
  <2>1. /\ new \in Seq(Nat)
        /\ \A s : Holds(new, s) <=> s = x \/ Holds(old, s)
        /\ Distinct(old) /\ ~Holds(old, x) => Distinct(new)
        /\ Falling(old) /\ (\A s : Holds(old, s) => s < x) => Falling(new)
    BY <1>5, InFront
  <2>2. ~Holds(old, x)
    BY <1>7
  <2>3. QED
    BY <1>6, <1>7, <2>1, <2>2, Zenon
<1>9. PICK mult, ineff, noexpand :
        t = [chains |-> t.chains, mult |-> mult, ineff |-> ineff, noexpand |-> noexpand, grown |-> t.grown]
  BY DEF TableOK
<1>10. PICK u : u = [t EXCEPT !.chains[b] = <<k + 1>> \o @]
  OBVIOUS
<1>11. PICK chains : chains = [t.chains EXCEPT ![b] = new]
  OBVIOUS
<1>12. u = [chains |-> chains, mult |-> mult, ineff |-> ineff, noexpand |-> noexpand, grown |-> t.grown]
  <2>1. [t.chains EXCEPT ![b] = <<k + 1>> \o @] = chains
    BY <1>3, <1>4, <1>5, <1>11
  <2>2. u = [t EXCEPT !.chains = chains]
    BY <1>10, <2>1
  <2>3. QED
    BY <1>9, <2>2
<1>13. /\ chains \in Seq(Seq(Nat))
       /\ Len(chains) = n
       /\ \A c \in 1 .. n : chains[c] = IF c = b THEN new ELSE t.chains[c]
  BY <1>1, <1>8, <1>11, ExceptSeq DEF TableOK
<1>14. u.chains = chains /\ u.grown = t.grown
  BY <1>12
<1>15. TableOK(u)
  BY <1>12, <1>13, <1>14, EmptySeq DEF TableOK
<1>16. \A s : s \in 1 .. k + 1 <=> s = x \/ s \in 1 .. k
  BY <1>3
<1>17. Entered(u, k + 1, all)
  <2>1. ASSUME NEW c \in 1 .. n
        PROVE  /\ Distinct(chains[c])
               /\ \A s : Holds(chains[c], s) <=> s \in 1 .. k + 1 /\ BucketOf(all[s].name, n) = c
    <3>1. CASE c = b
      BY <1>2, <1>3, <1>6, <1>8, <1>13, <1>16, <3>1
    <3>2. CASE c # b
      BY <1>1, <1>2, <1>3, <1>13, <1>16, <3>2 DEF Entered
    <3>3. QED
      BY <3>1, <3>2
  <2>2. QED
    BY <1>13, <1>14, <2>1 DEF Entered
<1>18. NewestFirst(u)
  BY <1>1, <1>8, <1>13, <1>14 DEF NewestFirst
<1>19. /\ TableOK(Expanded(u, all))
       /\ Entered(Expanded(u, all), k + 1, all)
       /\ Expanded(u, all).grown > 0
  BY <1>15, <1>17, ExpandedKeeps, k + 1 \in Nat
<1>20. NewestFirst(Expanded(u, all))
  BY <1>19 DEF NewestFirst, TableOK
<1>21. Add(t, k + 1, all) \in {u, Expanded(u, all)}
  BY <1>1, <1>2, <1>10 DEF Add
<1>22. QED
  BY <1>15, <1>17, <1>18, <1>19, <1>20, <1>21

-----------------------------------------------------------------------------
(* The invariant *)

\* The storages are those of the globals first, then those of each function.
SlotsOK ==
  /\ slots \in Seq(Slot) /\ owner \in Nat
  /\ \A s \in 1 .. Len(slots) : slots[s].owner <= owner
  /\ \A s, o \in 1 .. Len(slots) : o < s => slots[o].owner <= slots[s].owner

EntriesOK == TableOK(table) /\ Entered(table, Len(slots), slots) /\ NewestFirst(table)

UsesOK ==
  /\ \A u \in uses : u.slot \in 1 .. Len(slots)
  /\ NearestUnlessGrown

Inv == SlotsOK /\ EntriesOK /\ UsesOK

LEMMA SlotAt ==
  ASSUME NEW all \in Seq(Slot)
  PROVE  /\ DOMAIN all = 1 .. Len(all)
         /\ \A s \in 1 .. Len(all) : all[s].name \in Names /\ all[s].owner \in Nat
<1>1. \A s \in 1 .. Len(all) : all[s] \in Slot
  BY ElementOfSeq
<1>2. QED
  BY <1>1, LenProperties DEF Slot

\* What is found has the name; it is the latest storage with it until the table has grown; and
\* nothing is found only if there is no such storage.
LEMMA FindTells ==
  ASSUME SlotsOK, EntriesOK, NEW name \in Names
  PROVE  /\ Find(name) = 0 => \A s \in 1 .. Len(slots) : slots[s].name # name
         /\ Find(name) # 0 =>
              /\ Find(name) \in 1 .. Len(slots) /\ slots[Find(name)].name = name
              /\ table.grown = 0 => \A s \in 1 .. Len(slots) : slots[s].name = name => s <= Find(name)
<1>1. PICK n \in Nat \ {0} : n = Len(table.chains)
  BY EmptySeq DEF EntriesOK, TableOK
<1>2. PICK b \in 1 .. n : b = BucketOf(name, n)
  BY BucketIn
<1>3. PICK chain \in Seq(Nat) : chain = table.chains[b]
  BY <1>1 DEF EntriesOK, TableOK
<1> DEFINE I == {i \in 1 .. Len(chain) : slots[chain[i]].name = name}
           k == IF I # {} THEN Min(I) ELSE 0
<1>4. Find(name) = IF k = 0 THEN 0 ELSE chain[k]
  BY <1>1, <1>2, <1>3 DEF Find, SelectInSeq
<1>5. \A s : Holds(chain, s) <=> s \in 1 .. Len(slots) /\ BucketOf(slots[s].name, n) = b
  BY <1>1, <1>3 DEF EntriesOK, Entered
<1>6. ASSUME NEW s \in 1 .. Len(slots), slots[s].name = name
      PROVE  \E i \in I : chain[i] = s
  BY <1>2, <1>5, <1>6 DEF Holds
<1>7. CASE I = {}
  <2>1. Find(name) = 0
    BY <1>4, <1>7
  <2> HIDE DEF I
  <2>2. QED
    BY <1>6, <1>7, <2>1
<1>8. CASE I # {}
  <2>1. k \in I /\ \A i \in I : k <= i
    BY <1>8, LeastOf, I \in SUBSET Nat
  <2> HIDE DEF k
  <2>2. Find(name) = chain[k] /\ k \in 1 .. Len(chain) /\ slots[chain[k]].name = name
    BY <1>4, <2>1
  <2>3. chain[k] \in 1 .. Len(slots)
    BY <1>5, <2>2 DEF Holds
  <2>4. ASSUME table.grown = 0, NEW s \in 1 .. Len(slots), slots[s].name = name
        PROVE  s <= chain[k]
    <3>1. Falling(chain)
      BY <1>1, <1>3, <2>4 DEF EntriesOK, NewestFirst
    <3>2. PICK i \in I : chain[i] = s
      BY <1>6, <2>4
    <3>3. k <= i /\ i \in 1 .. Len(chain)
      BY <2>1, <3>2
    <3>4. QED
      BY <2>2, <2>3, <3>1, <3>2, <3>3 DEF Falling
  <2>5. QED
    BY <2>2, <2>3, <2>4
<1>9. QED
  BY <1>7, <1>8

\* The latest storage with a name is the one the text means, or of an earlier function.
LEMMA OwnIsLatest ==
  ASSUME SlotsOK, NEW name \in Names, NEW f \in 1 .. Len(slots), slots[f].name = name,
         \A s \in 1 .. Len(slots) : slots[s].name = name => s <= f,
         slots[f].owner \in {0, owner}
  PROVE  Own(name) = f
<1> DEFINE mine == {s \in DOMAIN slots : slots[s].name = name /\ slots[s].owner = owner}
           globals == {s \in DOMAIN slots : slots[s].name = name /\ slots[s].owner = 0}
           Latest(set) == IF set = {} THEN 0 ELSE CHOOSE s \in set : \A o \in set : o <= s
<1>1. DOMAIN slots = 1 .. Len(slots)
  BY DEF SlotsOK
<1>2. Own(name) = IF mine # {} THEN Latest(mine) ELSE Latest(globals)
  BY DEF Own
<1>3. ASSUME NEW set \in SUBSET (1 .. Len(slots)), f \in set, \A s \in set : s <= f
      PROVE  Latest(set) = f
  <2>1. \A s \in set : (\A o \in set : o <= s) => s = f
    BY <1>3
  <2>2. (CHOOSE s \in set : \A o \in set : o <= s) = f
    BY <1>3, <2>1
  <2>3. QED
    BY <1>3, <2>2
<1>4. CASE slots[f].owner = owner
  <2>1. f \in mine /\ mine \in SUBSET (1 .. Len(slots)) /\ \A s \in mine : s <= f
    BY <1>1, <1>4
  <2> HIDE DEF mine, globals, Latest
  <2>2. QED
    BY <1>2, <1>3, <2>1
<1>5. CASE slots[f].owner # owner
  <2>1. f \in globals /\ globals \in SUBSET (1 .. Len(slots)) /\ \A s \in globals : s <= f
    BY <1>1, <1>5
  <2>2. ASSUME NEW s \in mine
        PROVE  FALSE
    <3>1. s \in 1 .. Len(slots) /\ s <= f /\ slots[s].owner = owner /\ s # f
      BY <1>1, <1>5
    <3>2. slots[f].owner = 0 /\ slots[s].owner <= slots[f].owner
      BY <1>5, <3>1 DEF SlotsOK
    <3>3. QED
      BY <1>5, <3>1, <3>2 DEF SlotsOK
  <2>3. mine = {}
    BY <2>2
  <2> HIDE DEF mine, globals, Latest
  <2>4. QED
    BY <1>2, <1>3, <2>1, <2>3
<1>6. QED
  BY <1>4, <1>5

LEMMA InvInit == NamesInit => Inv
<1> SUFFICES ASSUME NamesInit PROVE Inv
  OBVIOUS
<1>1. SlotsOK
  BY DEF NamesInit, SlotsOK
<1>2. UsesOK
  BY DEF NamesInit, UsesOK, NearestUnlessGrown
<1>3. PICK n \in Nat \ {0} : n = Buckets
  BY NamedValuesAssumptions
<1>4. /\ table = [chains |-> table.chains, mult |-> [b \in 1 .. Buckets |-> 0], ineff |-> 0,
                  noexpand |-> FALSE, grown |-> table.grown]
      /\ table.chains = [b \in 1 .. n |-> <<>>]
      /\ table.grown = 0
      /\ Len(slots) = 0
  BY <1>3 DEF NamesInit, EmptyTable
<1>5. /\ table.chains \in Seq(Seq(Nat)) /\ table.chains # <<>> /\ Len(table.chains) = n
      /\ \A b \in 1 .. n : table.chains[b] = <<>>
  <2>1. PICK chains : chains = table.chains
    OBVIOUS
  <2>2. chains \in [1 .. n -> Seq(Nat)] /\ \A b \in 1 .. n : chains[b] = <<>>
    BY <1>4, <2>1
  <2>3. chains \in Seq(Seq(Nat)) /\ Len(chains) = n /\ chains # <<>>
    BY <2>2
  <2>4. QED
    BY <2>1, <2>2, <2>3
<1>6. TableOK(table)
  <2>1. \E m, i, e : table = [chains |-> table.chains, mult |-> m, ineff |-> i, noexpand |-> e,
                              grown |-> table.grown]
    BY <1>4, Zenon
  <2>2. QED
    BY <1>4, <1>5, <2>1 DEF TableOK
<1>7. Entered(table, Len(slots), slots)
  BY <1>4, <1>5 DEF Entered, Distinct, Holds
<1>8. NewestFirst(table)
  BY <1>5 DEF NewestFirst, Falling
<1>9. QED
  BY <1>1, <1>2, <1>6, <1>7, <1>8 DEF Inv, EntriesOK

\* Looking up names, in the storages there are before another one is made
LEMMA LookUpPreserves ==
  ASSUME Inv, NEW names \in SUBSET Names, LookUp(names), owner' = owner
  PROVE  /\ \A u \in uses' : u.slot \in 1 .. Len(slots)
         /\ \A u \in uses' : u.slot = u.own \/ Foreign(u) \/ table.grown > 0
<1>1. \A u \in uses : u.slot \in 1 .. Len(slots) /\ (u.slot = u.own \/ Foreign(u) \/ table.grown > 0)
  BY DEF Inv, UsesOK, NearestUnlessGrown
<1>2. ASSUME NEW name \in names
      PROVE  LET u == [name |-> name, slot |-> Find(name), own |-> Own(name)]
             IN  u.slot \in 1 .. Len(slots) /\ (u.slot = u.own \/ Foreign(u) \/ table.grown > 0)
  <2>1. Find(name) # 0
    BY DEF LookUp
  <2>2. PICK f \in 1 .. Len(slots) : f = Find(name)
    BY <2>1, FindTells DEF Inv
  <2>3. slots[f].name = name /\ (table.grown = 0 => \A s \in 1 .. Len(slots) : slots[s].name = name => s <= f)
    BY <2>1, <2>2, FindTells DEF Inv
  <2>4. CASE table.grown = 0 /\ slots[f].owner \in {0, owner}
    <3>1. Own(name) = f
      BY <2>3, <2>4, OwnIsLatest DEF Inv
    <3>2. QED
      BY <2>2, <3>1
  <2>5. CASE table.grown # 0
    BY <2>2, <2>5 DEF Inv, EntriesOK, TableOK
  <2>6. CASE slots[f].owner \notin {0, owner}
    BY <2>2, <2>6 DEF Foreign
  <2>7. QED
    BY <2>4, <2>5, <2>6
<1>3. uses' = uses \union {[name |-> name, slot |-> Find(name), own |-> Own(name)] : name \in names}
  BY DEF LookUp
<1>4. QED
  BY <1>1, <1>2, <1>3

LEMMA DeclarePreserves ==
  ASSUME Inv, NEW name \in Names, Declare(name), owner' = owner
  PROVE  /\ SlotsOK' /\ EntriesOK'
         /\ Len(slots') = Len(slots) + 1
         /\ \A s \in 1 .. Len(slots) : slots'[s] = slots[s]
         /\ table.grown > 0 => table.grown' > 0
<1>1. PICK k \in Nat : k = Len(slots)
  BY DEF Inv, SlotsOK
<1>2. PICK new \in Slot : new = [name |-> name, owner |-> owner]
  BY DEF Inv, SlotsOK, Slot
<1>3. /\ slots' \in Seq(Slot)
      /\ Len(slots') = k + 1
      /\ \A s \in 1 .. k : slots'[s] = slots[s]
      /\ slots'[k + 1] = new
  BY <1>1, <1>2 DEF Declare, Inv, SlotsOK
<1>4. SlotsOK'
  <2>1. \A s \in 1 .. k + 1 : s = k + 1 \/ s \in 1 .. k
    OBVIOUS
  <2>2. new.owner = owner /\ owner \in Nat
    BY <1>2 DEF Inv, SlotsOK
  <2>3. \A s \in 1 .. k + 1 : slots'[s].owner <= owner
    BY <1>1, <1>3, <2>1, <2>2 DEF Inv, SlotsOK
  <2>4. ASSUME NEW s \in 1 .. k + 1, NEW o \in 1 .. k + 1, o < s
        PROVE  slots'[o].owner <= slots'[s].owner
    <3>1. CASE s = k + 1
      BY <1>3, <2>2, <2>3, <3>1
    <3>2. CASE s # k + 1
      BY <1>1, <1>3, <2>1, <2>4, <3>2 DEF Inv, SlotsOK
    <3>3. QED
      BY <3>1, <3>2
  <2>5. QED
    BY <1>3, <2>2, <2>3, <2>4 DEF SlotsOK
<1>5. \A s \in 1 .. k + 1 : slots'[s].name \in Names
  BY <1>3, SlotAt
<1>6. Entered(table, k, slots')
  BY <1>1, <1>3 DEF Inv, EntriesOK, Entered
<1>7. table' = Add(table, k + 1, slots')
  BY <1>1 DEF Declare
<1>8. EntriesOK'
  BY <1>3, <1>5, <1>6, <1>7, AddKeeps DEF Inv, EntriesOK
<1>9. table.grown > 0 => table.grown' > 0
  <2>1. PICK u : u = [table EXCEPT !.chains[BucketOf(slots'[k + 1].name, Len(table.chains))] = <<k + 1>> \o @]
    OBVIOUS
  <2>2. u.grown = table.grown /\ table.grown \in Nat
    BY <2>1 DEF Inv, EntriesOK, TableOK
  <2>3. table' \in {u, Expanded(u, slots')}
    BY <1>7, <2>1 DEF Add
  <2>4. Expanded(u, slots').grown = u.grown + 1
    BY DEF Expanded
  <2>5. QED
    BY <2>2, <2>3, <2>4
<1>10. QED
  BY <1>1, <1>3, <1>4, <1>8, <1>9

LEMMA InvNext == Inv /\ [NamesNext]_namedVars => Inv'
<1> SUFFICES ASSUME Inv, [NamesNext]_namedVars PROVE Inv'
  OBVIOUS
<1>1. ASSUME NEW names \in SUBSET Names, LookUp(names), owner' = owner,
             NEW name \in Names, Declare(name)
      PROVE  Inv'
  <2>1. /\ \A u \in uses' : u.slot \in 1 .. Len(slots)
        /\ \A u \in uses' : u.slot = u.own \/ Foreign(u) \/ table.grown > 0
    BY <1>1, LookUpPreserves
  <2>2. /\ SlotsOK' /\ EntriesOK'
        /\ Len(slots') = Len(slots) + 1
        /\ \A s \in 1 .. Len(slots) : slots'[s] = slots[s]
        /\ table.grown > 0 => table.grown' > 0
    BY <1>1, DeclarePreserves
  <2>3. \A u \in uses' : u.slot \in 1 .. Len(slots')
    BY <2>1, <2>2 DEF Inv, SlotsOK
  <2>4. \A u \in uses' : u.slot = u.own \/ slots'[u.slot].owner \notin {0, owner'} \/ table.grown' > 0
    BY <1>1, <2>1, <2>2 DEF Foreign
  <2>5. QED
    BY <2>2, <2>3, <2>4 DEF Inv, UsesOK, NearestUnlessGrown, Foreign
<1>2. ASSUME NEW names \in SUBSET Names, LookUp(names), owner' = owner, UNCHANGED <<slots, table>>
      PROVE  Inv'
  <2>1. /\ \A u \in uses' : u.slot \in 1 .. Len(slots)
        /\ \A u \in uses' : u.slot = u.own \/ Foreign(u) \/ table.grown > 0
    BY <1>2, LookUpPreserves
  <2>2. SlotsOK' /\ EntriesOK'
    BY <1>2 DEF Inv, SlotsOK, EntriesOK
  <2>3. UsesOK'
    BY <1>2, <2>1 DEF UsesOK, NearestUnlessGrown, Foreign
  <2>4. QED
    BY <2>2, <2>3 DEF Inv
<1>3. CASE NextFunction
  <2>1. EntriesOK' /\ UsesOK'
    BY <1>3 DEF NextFunction, Inv, EntriesOK, UsesOK, NearestUnlessGrown
  <2>2. slots' = slots /\ owner' = owner + 1 /\ owner \in Nat
    BY <1>3 DEF NextFunction, Inv, SlotsOK
  <2>3. \A s \in 1 .. Len(slots) : slots[s].owner \in Nat /\ slots[s].owner <= owner
    BY SlotAt DEF Inv, SlotsOK
  <2>4. SlotsOK'
    BY <2>2, <2>3 DEF Inv, SlotsOK
  <2>5. QED
    BY <2>1, <2>4 DEF Inv
<1>4. CASE UNCHANGED namedVars
  BY <1>4 DEF namedVars, Inv, SlotsOK, EntriesOK, UsesOK, NearestUnlessGrown, Foreign
<1>5. QED
  BY <1>1, <1>2, <1>3, <1>4 DEF NamesNext

LEMMA Invariant == NamesSpec => []Inv
<1>1. QED
  BY InvInit, InvNext, PTL DEF NamesSpec

-----------------------------------------------------------------------------
(* Theorems *)

\* Every storage has one entry in the table, in the chain of its name, and there are no others,
\* however often the table has grown (HASH_ADD_TO_BKT and HASH_EXPAND_BUCKETS).
THEOREM NoEntryLost == NamesSpec => []StoredOnce
<1>1. Inv => StoredOnce
  <2> SUFFICES ASSUME Inv PROVE StoredOnce
    OBVIOUS
  <2>1. PICK n \in Nat \ {0} : n = Len(table.chains)
    BY EmptySeq DEF Inv, EntriesOK, TableOK
  <2>2. /\ DOMAIN slots = 1 .. Len(slots)
        /\ DOMAIN table.chains = 1 .. n
        /\ \A b \in 1 .. n : table.chains[b] \in Seq(Nat)
    BY <2>1 DEF Inv, SlotsOK, EntriesOK, TableOK
  <2>3. \A b \in 1 .. n :
          /\ Distinct(table.chains[b])
          /\ \A s : Holds(table.chains[b], s) <=> s \in 1 .. Len(slots) /\ BucketOf(slots[s].name, n) = b
    BY <2>1 DEF Inv, EntriesOK, Entered
  <2>4. ASSUME NEW s \in DOMAIN slots
        PROVE  LET chain == table.chains[BucketOf(slots[s].name, n)]
               IN  \E i \in DOMAIN chain : chain[i] = s /\ \A j \in DOMAIN chain : chain[j] = s => j = i
    <3>1. PICK b \in 1 .. n : b = BucketOf(slots[s].name, n)
      BY SlotAt, BucketIn DEF Inv, SlotsOK
    <3>2. PICK chain \in Seq(Nat) : chain = table.chains[b]
      BY <2>2
    <3>3. Distinct(chain) /\ Holds(chain, s)
      BY <2>2, <2>3, <3>1, <3>2
    <3>4. \E i \in DOMAIN chain : chain[i] = s /\ \A j \in DOMAIN chain : chain[j] = s => j = i
      BY <3>3 DEF Distinct, Holds
    <3>5. QED
      BY <3>1, <3>2, <3>4
  <2>5. ASSUME NEW b \in DOMAIN table.chains, NEW s \in Range(table.chains[b])
        PROVE  s \in DOMAIN slots /\ BucketOf(slots[s].name, n) = b
    BY <2>2, <2>3 DEF Range, Holds
  <2>6. QED
    BY <2>1, <2>4, <2>5 DEF StoredOnce
<1>2. QED
  BY <1>1, Invariant, PTL

\* A name that was declared is found, and what is found has the name (HASH_FIND_STR).
THEOREM DeclaredIsFound ==
  NamesSpec =>
    [](\A s \in DOMAIN slots : Find(slots[s].name) # 0 /\ slots[Find(slots[s].name)].name = slots[s].name)
<1>1. Inv => \A s \in DOMAIN slots : Find(slots[s].name) # 0 /\ slots[Find(slots[s].name)].name = slots[s].name
  <2> SUFFICES ASSUME Inv, NEW s \in DOMAIN slots
               PROVE  Find(slots[s].name) # 0 /\ slots[Find(slots[s].name)].name = slots[s].name
    OBVIOUS
  <2>1. s \in 1 .. Len(slots) /\ slots[s].name \in Names
    BY SlotAt DEF Inv, SlotsOK
  <2>2. QED
    BY <2>1, FindTells DEF Inv
<1>2. QED
  BY <1>1, Invariant, PTL

\* What a name finds is what the text means, unless it is of another function or the table has
\* grown since (gen_codegen_variable()).
THEOREM NearestFound == NamesSpec => []NearestUnlessGrown
<1>1. Inv => NearestUnlessGrown
  BY DEF Inv, UsesOK
<1>2. QED
  BY <1>1, Invariant, PTL
================================================================================
