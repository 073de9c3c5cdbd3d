--------------------------- MODULE MetricsProofs ---------------------------
(***************************************************************************)
(* What the operator reports of changes of KnativeServings has happened,    *)
(* for every set of keys and all bounds: MetricsInv is an invariant of      *)
(* MetricsSpec.  A step of MetricsSpec is one of Spec, so that what is      *)
(* proved of Reconciler is at hand; the lemmas that do the work are about   *)
(* the values of one key.                                                   *)
(***************************************************************************)
EXTENDS MetricsInvariant, ReadyProofs

-----------------------------------------------------------------------------
(* How the stored object of a key changes, and what is counted of it.       *)

\* Objects that tell the same of changes.
Alike(p, q) == q.phase = p.phase /\ q.inc = p.inc /\ q.gen = p.gen

Born(a, b) == ~Live(a) /\ Live(b) /\ b.inc = a.inc + 1 /\ b.gen = 1
Changed(a, b) == Live(a) /\ Live(b) /\ b.inc = a.inc /\ b.gen = a.gen + 1
Fallen(a, b) == b.inc = a.inc /\ ~Live(b)

\* Object b may be stored after object a.
Grows(a, b) == Alike(a, b) \/ Born(a, b) \/ Changed(a, b) \/ Fallen(a, b)

\* The counts are m before and n after that.
Tallies(a, b, m, n) ==
  /\ n.there = m.there
  /\ Born(a, b) => /\ n.creations = m.creations + 1 /\ n.edits = m.edits
                   /\ n.before = Append(m.before, m.edits)
  /\ ~Born(a, b) => n.creations = m.creations /\ n.before = m.before /\ n.edits >= m.edits
  /\ Changed(a, b) => n.edits = m.edits + 1

\* The two changes that are reported of a name.
LEMMA ChangeNames == "creation" \in Changes /\ "edit" \in Changes
  BY DEF Changes

\* What is taken of objects that are alike.
LEMMA AccountedAlike ==
  ASSUME NEW S, NEW T, NEW a, NEW b, b.inc = a.inc, NEW v, NEW rep, NEW m,
         Accounted(S, a, v, rep, m), \A q \in T : \E p \in S : Alike(p, q)
  PROVE  Accounted(T, b, v, rep, m)
<1>1. \A p \in S, q \in T : Alike(p, q) =>
        /\ Live(q) <=> Live(p)
        /\ GenerationsCount(p, a, m) => GenerationsCount(q, b, m)
        /\ Unreported(p, a, rep, m) => Unreported(q, b, rep, m)
        /\ ReportedUpTo(p, a, v, rep, m) => ReportedUpTo(q, b, v, rep, m)
        /\ q.inc = p.inc
  BY DEF Alike, Live, GenerationsCount, Unreported, ReportedUpTo
<1>2. \A q \in T : GenerationsCount(q, b, m)
  BY <1>1 DEF Accounted
<1>3. \A o \in T : Live(o) =>
        IF v = NotServed THEN Unreported(o, b, rep, m) ELSE ReportedUpTo(o, b, v, rep, m)
  BY <1>1 DEF Accounted
<1>4. \A p, o \in T : Live(o) /\ ~Live(p) /\ p.inc < o.inc => Unreported(o, b, rep, m)
  <2> SUFFICES ASSUME NEW p \in T, NEW o \in T, Live(o), ~Live(p), p.inc < o.inc
               PROVE  Unreported(o, b, rep, m)
    OBVIOUS
  <2>1. PICK x \in S : Alike(x, p)
    OBVIOUS
  <2>2. PICK y \in S : Alike(y, o)
    OBVIOUS
  <2>3. Live(y) /\ ~Live(x) /\ x.inc < y.inc
    BY <1>1, <2>1, <2>2
  <2>4. Unreported(y, a, rep, m)
    BY <2>3 DEF Accounted
  <2>5. QED
    BY <1>1, <2>2, <2>4
<1>5. QED
  BY <1>2, <1>3, <1>4 DEF Accounted

\* The entries of before: those of the past stay, and a creation adds one.
LEMMA BeforeGrows ==
  ASSUME NEW a \in Objects, NEW b \in Objects, NEW m \in Made, NEW n \in Made,
         Len(m.before) = a.inc, Grows(a, b), Tallies(a, b, m, n)
  PROVE  /\ Len(n.before) = b.inc
         /\ \A i \in 1 .. a.inc : n.before[i] = m.before[i] /\ m.before[i] \in Nat
         /\ Born(a, b) => n.before[b.inc] = m.edits
<1>1. m.before \in Seq(Nat) /\ m.edits \in Nat /\ a.inc \in Nat
  BY DEF Made, Objects
<1>2. CASE Born(a, b)
  <2>1. n.before = Append(m.before, m.edits) /\ b.inc = a.inc + 1
    BY <1>2 DEF Tallies, Born
  <2>2. QED
    BY <1>1, <2>1
<1>3. CASE ~Born(a, b)
  <2>1. n.before = m.before /\ b.inc = a.inc
    BY <1>3 DEF Tallies, Grows, Alike, Changed, Fallen
  <2>2. QED
    BY <1>1, <1>3, <2>1
<1>4. QED
  BY <1>2, <1>3

\* Sums that grow by the same.
LEMMA ShiftedSums ==
  ASSUME NEW x \in Nat, NEW i \in Nat, NEW p \in Nat, NEW q \in Nat, NEW K \in Nat, NEW L \in Nat,
         (L = K + 1 /\ q = p + 1) \/ (L = K /\ q = p)
  PROVE  /\ x + p <= i + K - 1 => x + q <= i + L - 1
         /\ x + p <= i + K => x + q <= i + L
  OBVIOUS

\* One edit more, and one generation more or none.
LEMMA OneEditMore ==
  ASSUME NEW x \in Nat, NEW g \in Nat, NEW h \in Nat, NEW e \in Nat, NEW f \in Nat,
         g >= 1, x + g - 1 <= e, e <= f, h = g \/ (h = g + 1 /\ f = e + 1)
  PROVE  x + h - 1 <= f /\ h >= 1
  OBVIOUS

\* Storing an object keeps the accounts.
LEMMA AccountedGrows ==
  ASSUME NEW S \in SUBSET Objects, NEW a \in S, NEW b \in Objects, NEW v \in Int,
         NEW rep \in [Changes -> Nat], NEW m \in Made, NEW n \in Made,
         Accounted(S, a, v, rep, m), Len(m.before) = a.inc, \A p \in S : Succeeds(p, a),
         Grows(a, b), Tallies(a, b, m, n)
  PROVE  Accounted(S \cup {b}, b, v, rep, n)
<1> DEFINE K == Creations(m)
           L == Creations(n)
<1>0. Creations(m) = K /\ Creations(n) = L
  OBVIOUS
<1>1. /\ \A p \in S : p.inc \in Nat /\ p.gen \in Nat /\ p.inc <= a.inc
      /\ a.inc \in Nat /\ a.gen \in Nat /\ b.inc \in Nat /\ b.gen \in Nat
  BY DEF Objects, Succeeds
<1>2. m.edits \in Nat /\ n.edits \in Nat /\ m.edits <= n.edits
  BY DEF Tallies, Made
<1>3. /\ K \in Nat /\ L \in Nat
      /\ Born(a, b) => L = K + 1 /\ b.inc = a.inc + 1
      /\ ~Born(a, b) => L = K /\ b.inc = a.inc
  <2>1. m.creations \in Nat /\ n.creations \in Nat /\ n.there = m.there
    BY DEF Made, Tallies
  <2>2. QED
    BY <2>1 DEF Creations, Tallies, Born, Grows, Alike, Changed, Fallen
<1>4. rep["edit"] \in Nat /\ rep["creation"] \in Nat
  BY ChangeNames
<1>5. /\ \A i \in 1 .. a.inc : n.before[i] = m.before[i] /\ m.before[i] \in Nat
      /\ Born(a, b) => n.before[b.inc] = m.edits
  BY BeforeGrows
<1>6. \A p \in S : Live(p) => p.inc \in 1 .. a.inc
  BY <1>1 DEF Accounted, GenerationsCount
<1> HIDE DEF K, L
<1>7. ASSUME NEW p \in S
      PROVE  /\ GenerationsCount(p, b, n)
             /\ Live(p) /\ Unreported(p, a, rep, m) => Unreported(p, b, rep, n)
             /\ Live(p) /\ ReportedUpTo(p, a, v, rep, m) => ReportedUpTo(p, b, v, rep, n)
  <2>1. GenerationsCount(p, b, n)
    <3> SUFFICES ASSUME Live(p)
                 PROVE  GenerationsCount(p, b, n)
      BY DEF GenerationsCount
    <3>1. /\ p.inc \in 1 .. a.inc /\ p.gen >= 1
          /\ m.before[p.inc] + p.gen - 1 <= m.edits
          /\ \A j \in p.inc + 1 .. a.inc : m.before[p.inc] + p.gen - 1 <= m.before[j]
      BY <1>6 DEF Accounted, GenerationsCount
    <3>2. n.before[p.inc] = m.before[p.inc] /\ m.before[p.inc] \in Nat
      BY <1>5, <3>1
    <3>3. \A j \in p.inc + 1 .. b.inc : n.before[p.inc] + p.gen - 1 <= n.before[j]
      <4> SUFFICES ASSUME NEW j \in p.inc + 1 .. b.inc
                   PROVE  n.before[p.inc] + p.gen - 1 <= n.before[j]
        OBVIOUS
      <4>1. CASE j <= a.inc
        BY <1>1, <1>5, <3>1, <3>2, <4>1
      <4>2. CASE j > a.inc
        <5>1. Born(a, b) /\ j = b.inc
          BY <1>1, <1>3, <4>2
        <5>2. QED
          BY <1>5, <3>1, <3>2, <5>1
      <4>3. QED
        BY <1>1, <4>1, <4>2
    <3>4. QED
      BY <1>1, <1>2, <3>1, <3>2, <3>3 DEF GenerationsCount
  <2>2. Live(p) => n.before[p.inc] = m.before[p.inc] /\ m.before[p.inc] \in Nat
    BY <1>5, <1>6
  <2>3. /\ rep["creation"] + a.inc <= p.inc + K - 1 => rep["creation"] + b.inc <= p.inc + L - 1
        /\ rep["creation"] + a.inc <= p.inc + K => rep["creation"] + b.inc <= p.inc + L
    <3>1. p.inc \in Nat /\ a.inc \in Nat /\ b.inc \in Nat /\ K \in Nat /\ L \in Nat
      BY <1>1, <1>3
    <3>2. (L = K + 1 /\ b.inc = a.inc + 1) \/ (L = K /\ b.inc = a.inc)
      BY <1>3
    <3>3. QED
      BY <1>4, <3>1, <3>2, ShiftedSums
  <2>4. Live(p) /\ Unreported(p, a, rep, m) => Unreported(p, b, rep, n)
    BY <1>0, <2>2, <2>3 DEF Unreported
  <2>5. Live(p) /\ ReportedUpTo(p, a, v, rep, m) => ReportedUpTo(p, b, v, rep, n)
    BY <1>0, <2>2, <2>3 DEF ReportedUpTo
  <2>6. QED
    BY <2>1, <2>4, <2>5
<1>8. v = NotServed \/ v >= 1
  BY DEF Accounted
<1>9. rep["edit"] <= n.edits /\ rep["creation"] <= L
  <2>1. rep["edit"] <= m.edits /\ rep["creation"] <= K
    BY DEF Accounted, K
  <2>2. QED
    BY <1>2, <1>3, <1>4, <2>1
<1>10. CASE ~Live(b)
  <2>1. \A o \in S : Live(o) => ~(b.inc < o.inc)
    BY <1>1, <1>3
  <2>2. GenerationsCount(b, b, n)
    BY <1>10 DEF GenerationsCount
  <2>3. QED
    BY <1>0, <1>7, <1>8, <1>9, <1>10, <2>1, <2>2 DEF Accounted
<1>11. CASE Born(a, b)
  <2>1. n.before[b.inc] = m.edits /\ m.edits = n.edits /\ b.gen = 1 /\ Live(b)
    BY <1>5, <1>11 DEF Tallies, Born
  <2>2. GenerationsCount(b, b, n)
    BY <1>1, <1>2, <1>3, <1>11, <2>1 DEF GenerationsCount
  <2>3. Unreported(b, b, rep, n)
    <3>1. rep["edit"] <= n.before[b.inc]
      BY <1>9, <2>1
    <3>2. rep["creation"] + b.inc <= b.inc + L - 1
      <4>1. rep["creation"] <= K /\ L = K + 1 /\ K \in Nat
        BY <1>0, <1>3, <1>11 DEF Accounted
      <4>2. QED
        BY <1>1, <1>4, <4>1
    <3>3. QED
      BY <1>0, <3>1, <3>2 DEF Unreported
  <2>4. v # NotServed => ReportedUpTo(b, b, v, rep, n)
    BY <1>0, <1>1, <1>2, <1>3, <1>4, <1>8, <1>9, <1>11, <2>1 DEF ReportedUpTo
  <2>5. QED
    BY <1>0, <1>7, <1>8, <1>9, <2>1, <2>2, <2>3, <2>4 DEF Accounted
<1>12. CASE Live(b) /\ ~Born(a, b)
  <2>1. /\ Live(a) /\ b.inc = a.inc /\ b.inc \in 1 .. a.inc
        /\ \/ b.gen = a.gen
           \/ b.gen = a.gen + 1 /\ n.edits = m.edits + 1
    BY <1>6, <1>12 DEF Grows, Alike, Changed, Fallen, Live, Tallies
  <2>2. GenerationsCount(b, b, n)
    <3>1. a.gen >= 1 /\ m.before[a.inc] + a.gen - 1 <= m.edits
      BY <2>1 DEF Accounted, GenerationsCount
    <3>2. n.before[b.inc] = m.before[a.inc] /\ m.before[a.inc] \in Nat
      BY <1>5, <2>1
    <3>3. n.before[b.inc] + b.gen - 1 <= n.edits /\ b.gen >= 1
      <4>1. a.gen \in Nat /\ b.gen \in Nat /\ m.before[a.inc] \in Nat
        BY <1>1, <3>2
      <4>2. /\ m.before[a.inc] + b.gen - 1 <= n.edits /\ b.gen >= 1
        BY <1>2, <2>1, <3>1, <4>1, OneEditMore
      <4>3. QED
        BY <3>2, <4>2
    <3>4. QED
      BY <1>1, <2>1, <3>3 DEF GenerationsCount
  <2>3. /\ Unreported(a, b, rep, n) => Unreported(b, b, rep, n)
        /\ ReportedUpTo(a, b, v, rep, n) => ReportedUpTo(b, b, v, rep, n)
    BY <2>1 DEF Unreported, ReportedUpTo
  <2>4. IF v = NotServed THEN Unreported(b, b, rep, n) ELSE ReportedUpTo(b, b, v, rep, n)
    <3>1. CASE v = NotServed
      <4>1. Unreported(a, a, rep, m)
        BY <2>1, <3>1 DEF Accounted
      <4>2. QED
        BY <1>7, <2>1, <2>3, <3>1, <4>1
    <3>2. CASE v # NotServed
      <4>1. ReportedUpTo(a, a, v, rep, m)
        BY <2>1, <3>2 DEF Accounted
      <4>2. QED
        BY <1>7, <2>1, <2>3, <3>2, <4>1
    <3>3. QED
      BY <3>1, <3>2
  <2>5. ASSUME NEW p \in S, ~Live(p), p.inc < b.inc
        PROVE  Unreported(b, b, rep, n)
    <3>1. Unreported(a, a, rep, m)
      BY <2>1, <2>5 DEF Accounted
    <3>2. QED
      BY <1>7, <2>1, <2>3, <3>1
  <2>6. \A p, o \in S \cup {b} : Live(o) /\ ~Live(p) /\ p.inc < o.inc => Unreported(o, b, rep, n)
    BY <1>7, <1>12, <2>5 DEF Accounted
  <2>7. QED
    BY <1>0, <1>7, <1>8, <1>9, <2>2, <2>4, <2>6 DEF Accounted
<1>13. QED
  BY <1>10, <1>11, <1>12

-----------------------------------------------------------------------------
(* The values of one key, as each kind of step changes them.                *)

\* Succession is transitive, and an object succeeds what it is alike or grown from.
LEMMA SucceedsFacts ==
  ASSUME NEW p \in Objects, NEW q \in Objects, NEW o \in Objects
  PROVE  /\ Alike(p, q) => Succeeds(p, q) /\ Succeeds(q, p) /\ (Live(q) <=> Live(p))
         /\ Grows(p, q) => Succeeds(p, q)
         /\ Succeeds(p, q) /\ Succeeds(q, o) => Succeeds(p, o)
         /\ Alike(p, p)
<1>1. p.inc \in Nat /\ q.inc \in Nat /\ o.inc \in Nat
  BY DEF Objects
<1>2. QED
  BY <1>1 DEF Succeeds, Grows, Alike, Born, Changed, Fallen, Live

\* What is in sight, and that each of it is an object.
LEMMA InSightTyped ==
  ASSUME NEW a \in Objects, NEW c \in Objects, NEW w \in Seq(Objects), NEW s, NEW r \in Objects
  PROVE  /\ InSight(a, c, w, s, r) \subseteq Objects
         /\ a \in InSight(a, c, w, s, r) /\ c \in InSight(a, c, w, s, r)
         /\ \A i \in DOMAIN w : w[i] \in InSight(a, c, w, s, r) /\ w[i] \in Objects
         /\ Holds(s, r) => r \in InSight(a, c, w, s, r)
         /\ \A o \in InSight(a, c, w, s, r) :
              o = a \/ o = c \/ (\E i \in DOMAIN w : o = w[i]) \/ (o = r /\ Holds(s, r))
<1>1. \A i \in DOMAIN w : w[i] \in Objects
  OBVIOUS
<1>2. QED
  BY <1>1 DEF InSight

\* An object is stored and sent to the informer.
LEMMA KeyStored ==
  ASSUME NEW a \in Objects, NEW c \in Objects, NEW w \in Seq(Objects), NEW s, NEW r \in Objects,
         NEW v \in Int, NEW rep \in [Changes -> Nat], NEW m \in Made, NEW n \in Made,
         NEW b \in Objects,
         MetricsKey(a, c, w, s, r, v, rep, m), Grows(a, b), Tallies(a, b, m, n)
  PROVE  MetricsKey(b, c, Append(w, b), s, r, v, rep, n)
<1> DEFINE S == InSight(a, c, w, s, r)
           x == Append(w, b)
           T == InSight(b, c, x, s, r)
<1>1. /\ x \in Seq(Objects) /\ Len(w) \in Nat
      /\ x[Len(w) + 1] = b /\ \A i \in DOMAIN w : x[i] = w[i]
      /\ \A i \in DOMAIN x : i \in DOMAIN w \/ i = Len(w) + 1
      /\ \A i \in DOMAIN w : i \in Nat /\ i < Len(w) + 1
  BY AppendChange
<1>2. /\ S \subseteq Objects /\ a \in S /\ c \in S /\ \A i \in DOMAIN w : w[i] \in S
      /\ Holds(s, r) => r \in S
  BY InSightTyped
<1> HIDE DEF x
<1>3. T \subseteq S \cup {b}
  <2> SUFFICES ASSUME NEW o \in T PROVE o \in S \cup {b}
    OBVIOUS
  <2>1. o = b \/ o = c \/ (\E i \in DOMAIN x : o = x[i]) \/ (o = r /\ Holds(s, r))
    BY <1>1, InSightTyped
  <2>2. ASSUME NEW i \in DOMAIN x, o = x[i]
        PROVE  o \in S \cup {b}
    BY <1>1, <1>2, <2>2
  <2>3. QED
    BY <1>2, <2>1, <2>2
<1>4. /\ Len(m.before) = a.inc /\ Accounted(S, a, v, rep, m) /\ Handed(s, r)
      /\ Succession(a, c, w, s, r)
  BY DEF MetricsKey
<1>5. \A p \in S : Succeeds(p, a)
  BY <1>4 DEF Succession
<1> HIDE DEF S, T
<1>6. Accounted(S \cup {b}, b, v, rep, n)
  BY <1>2, <1>4, <1>5, AccountedGrows
<1>7. Accounted(T, b, v, rep, n)
  BY <1>3, <1>6 DEF Accounted
<1>8. \A p \in S \cup {b} : Succeeds(p, b)
  <2>1. Succeeds(a, b) /\ Succeeds(b, b)
    BY SucceedsFacts
  <2>2. QED
    BY <1>2, <1>5, <2>1, SucceedsFacts
<1>9. Succession(b, c, x, s, r)
  <2>1. \A p \in T : Succeeds(p, b)
    BY <1>3, <1>8
  <2>2. \A i \in DOMAIN x : Succeeds(c, x[i])
    BY <1>1, <1>2, <1>4, <1>8 DEF Succession
  <2>3. ASSUME NEW i \in DOMAIN x, NEW j \in DOMAIN x, i < j
        PROVE  Succeeds(x[i], x[j])
    <3>1. i \in DOMAIN w /\ x[i] = w[i]
      BY <1>1, <2>3
    <3>2. CASE j \in DOMAIN w
      BY <1>1, <1>4, <2>3, <3>1, <3>2 DEF Succession
    <3>3. CASE j = Len(w) + 1
      BY <1>1, <1>2, <1>8, <3>1, <3>3
    <3>4. QED
      BY <1>1, <3>2, <3>3
  <2>4. Holds(s, r) => Succeeds(r, c) /\ \A i \in DOMAIN x : Succeeds(r, x[i])
    BY <1>1, <1>2, <1>4, <1>8 DEF Succession
  <2>5. QED
    BY <2>1, <2>2, <2>3, <2>4 DEF Succession, T
<1>10. Len(n.before) = b.inc
  BY <1>4, BeforeGrows
<1>11. QED
  BY <1>4, <1>7, <1>9, <1>10 DEF MetricsKey, T, x

\* The worker comes to hold an object like the one it held, or like the cached one.
LEMMA KeyWorker ==
  ASSUME NEW a \in Objects, NEW c \in Objects, NEW w \in Seq(Objects), NEW s, NEW r \in Objects,
         NEW v, NEW rep, NEW m,
         MetricsKey(a, c, w, s, r, v, rep, m),
         NEW d \in Objects, Alike(c, d), NEW t, NEW q \in Objects, Handed(t, q),
         Holds(t, q) => Alike(c, q) \/ (Holds(s, r) /\ Alike(r, q))
  PROVE  MetricsKey(a, d, w, t, q, v, rep, m)
<1> DEFINE S == InSight(a, c, w, s, r)
           T == InSight(a, d, w, t, q)
<1>1. /\ S \subseteq Objects /\ a \in S /\ c \in S
      /\ \A i \in DOMAIN w : w[i] \in S /\ w[i] \in Objects
      /\ Holds(s, r) => r \in S
  BY InSightTyped
<1>2. \A o \in T : \E p \in S : Alike(p, o)
  <2> SUFFICES ASSUME NEW o \in T PROVE \E p \in S : Alike(p, o)
    OBVIOUS
  <2>1. o = a \/ o = d \/ (\E i \in DOMAIN w : o = w[i]) \/ (o = q /\ Holds(t, q))
    BY InSightTyped
  <2>2. QED
    BY <1>1, <2>1, SucceedsFacts
<1>3. T \subseteq Objects
  BY InSightTyped
<1>4. /\ Len(m.before) = a.inc /\ Accounted(S, a, v, rep, m) /\ Succession(a, c, w, s, r)
  BY DEF MetricsKey
<1> HIDE DEF S
<1>5. \A p \in S : Succeeds(p, a)
  BY <1>4 DEF Succession, S
<1>6. \A o \in T : Succeeds(o, a)
  <2> SUFFICES ASSUME NEW o \in T PROVE Succeeds(o, a)
    OBVIOUS
  <2>1. PICK p \in S : Alike(p, o)
    BY <1>2
  <2>2. p \in Objects /\ o \in Objects
    BY <1>1, <1>3
  <2>3. Succeeds(o, p) /\ Succeeds(p, a)
    BY <1>5, <2>1, <2>2, SucceedsFacts
  <2>4. QED
    BY <2>2, <2>3, SucceedsFacts
<1>7. Accounted(T, a, v, rep, m)
  <2> HIDE DEF T
  <2>1. QED
    BY <1>2, <1>4, AccountedAlike
<1>8. Succession(a, d, w, t, q)
  <2>1. Succeeds(d, c) /\ Succeeds(c, d) /\ \A i \in DOMAIN w : Succeeds(c, w[i])
    BY <1>4, SucceedsFacts DEF Succession
  <2>2. \A i \in DOMAIN w : Succeeds(d, w[i])
    BY <1>1, <2>1, SucceedsFacts
  <2>3. ASSUME Holds(t, q)
        PROVE  Succeeds(q, d) /\ \A i \in DOMAIN w : Succeeds(q, w[i])
    <3>1. Succeeds(q, c)
      <4>1. CASE Alike(c, q)
        BY <4>1, SucceedsFacts
      <4>2. CASE Holds(s, r) /\ Alike(r, q)
        <5>1. Succeeds(q, r) /\ Succeeds(r, c)
          BY <1>4, <4>2, SucceedsFacts DEF Succession
        <5>2. QED
          BY <5>1, SucceedsFacts
      <4>3. QED
        BY <2>3, <4>1, <4>2
    <3>2. Succeeds(q, d)
      BY <2>1, <3>1, SucceedsFacts
    <3>3. QED
      BY <1>1, <2>1, <3>1, <3>2, SucceedsFacts
  <2>4. QED
    BY <1>4, <1>6, <2>2, <2>3 DEF Succession, T
<1>9. QED
  BY <1>4, <1>7, <1>8 DEF MetricsKey, T

\* Fewer objects are in sight.
LEMMA AccountedFewer ==
  ASSUME NEW S, NEW T \in SUBSET S, NEW a, NEW v, NEW rep, NEW m, Accounted(S, a, v, rep, m)
  PROVE  Accounted(T, a, v, rep, m)
  BY DEF Accounted

\* The informer gets a change.
LEMMA KeyDelivered ==
  ASSUME NEW a \in Objects, NEW c \in Objects, NEW w \in Seq(Objects), NEW s, NEW r \in Objects,
         NEW v, NEW rep, NEW m, MetricsKey(a, c, w, s, r, v, rep, m), Len(w) > 0
  PROVE  MetricsKey(a, Head(w), Tail(w), s, r, v, rep, m)
<1> DEFINE S == InSight(a, c, w, s, r)
           d == Head(w)
           x == Tail(w)
           T == InSight(a, d, x, s, r)
<1>1. /\ d \in Objects /\ x \in Seq(Objects) /\ 1 \in DOMAIN w /\ d = w[1]
      /\ \A i \in DOMAIN x : i + 1 \in DOMAIN w /\ x[i] = w[i + 1] /\ 1 < i + 1
      /\ \A i, j \in DOMAIN x : i < j => i + 1 < j + 1
  OBVIOUS
<1> HIDE DEF d, x
<1>2. T \subseteq S
  <2> SUFFICES ASSUME NEW o \in T PROVE o \in S
    OBVIOUS
  <2>1. o = a \/ o = d \/ (\E i \in DOMAIN x : o = x[i]) \/ (o = r /\ Holds(s, r))
    BY <1>1, InSightTyped
  <2>2. QED
    BY <1>1, <2>1, InSightTyped
<1>3. /\ Len(m.before) = a.inc /\ Accounted(S, a, v, rep, m) /\ Handed(s, r)
      /\ Succession(a, c, w, s, r)
  BY DEF MetricsKey
<1> HIDE DEF S, T
<1>4. Accounted(T, a, v, rep, m)
  BY <1>2, <1>3, AccountedFewer
<1>5. Succession(a, d, x, s, r)
  <2>1. \A p \in T : Succeeds(p, a)
    BY <1>2, <1>3 DEF Succession, S
  <2>2. /\ \A i \in DOMAIN x : Succeeds(d, x[i])
        /\ \A i, j \in DOMAIN x : i < j => Succeeds(x[i], x[j])
    BY <1>1, <1>3 DEF Succession
  <2>3. Holds(s, r) => Succeeds(r, d) /\ \A i \in DOMAIN x : Succeeds(r, x[i])
    BY <1>1, <1>3 DEF Succession
  <2>4. QED
    BY <2>1, <2>2, <2>3 DEF Succession, T
<1>6. QED
  BY <1>3, <1>4, <1>5 DEF MetricsKey, T, d, x

\* The informer lists.
LEMMA KeyListed ==
  ASSUME NEW a \in Objects, NEW c \in Objects, NEW w \in Seq(Objects), NEW s, NEW r \in Objects,
         NEW v, NEW rep, NEW m, MetricsKey(a, c, w, s, r, v, rep, m)
  PROVE  MetricsKey(a, a, <<>>, s, r, v, rep, m)
<1> DEFINE S == InSight(a, c, w, s, r)
           T == InSight(a, a, <<>>, s, r)
<1>1. T \subseteq S
  BY DEF InSight
<1>2. /\ Len(m.before) = a.inc /\ Accounted(S, a, v, rep, m) /\ Handed(s, r)
      /\ Succession(a, c, w, s, r)
  BY DEF MetricsKey
<1>3. Accounted(T, a, v, rep, m)
  <2> HIDE DEF S, T
  <2>1. QED
    BY <1>1, <1>2, AccountedFewer
<1>4. Holds(s, r) => Succeeds(r, a)
  BY <1>2, InSightTyped DEF Succession
<1>5. \A p \in T : Succeeds(p, a)
  <2> HIDE DEF T
  <2>1. QED
    BY <1>1, <1>2 DEF Succession
<1>6. Succession(a, a, <<>>, s, r)
  BY <1>4, <1>5 DEF Succession
<1>7. QED
  BY <1>2, <1>3, <1>6 DEF MetricsKey

\* The operator starts anew.
LEMMA KeyRestarted ==
  ASSUME NEW a \in Objects, NEW m \in Made, NEW n \in Made,
         Len(m.before) = a.inc, Live(a) => GenerationsCount(a, a, m),
         n.before = m.before, n.edits = m.edits, n.creations = 0, n.there = Exists(a)
  PROVE  MetricsKey(a, a, <<>>, "idle", Empty, NotServed, NoReports, n)
<1>1. InSight(a, a, <<>>, "idle", Empty) = {a}
  BY DEF InSight, Holds, HoldStages
<1>2. /\ NoReports["edit"] = 0 /\ NoReports["creation"] = 0
      /\ n.edits \in Nat /\ a.inc \in Nat /\ Creations(n) \in Nat /\ Creations(n) >= 0
      /\ Live(a) => Creations(n) = 1
  BY ChangeNames DEF NoReports, Creations, Live, Exists, Made, Objects
<1>3. Handed("idle", Empty)
  BY DEF Handed
<1>4. Succession(a, a, <<>>, "idle", Empty)
  BY <1>1, SucceedsFacts DEF Succession, Holds, HoldStages
<1>5. Live(a) => GenerationsCount(a, a, n)
  BY DEF GenerationsCount
<1>6. Live(a) => Unreported(a, a, NoReports, n)
  <2> SUFFICES ASSUME Live(a) PROVE Unreported(a, a, NoReports, n)
    OBVIOUS
  <2>1. a.inc \in 1 .. Len(n.before)
    BY <1>2 DEF GenerationsCount
  <2>2. n.before[a.inc] \in Nat
    BY <2>1 DEF Made
  <2>3. QED
    BY <1>2, <2>2 DEF Unreported
<1>7. Accounted({a}, a, NotServed, NoReports, n)
  <2>1. ~(a.inc < a.inc)
    BY <1>2
  <2>2. NoReports["edit"] <= n.edits /\ NoReports["creation"] <= Creations(n)
    BY <1>2
  <2>3. GenerationsCount(a, a, n)
    BY <1>5 DEF GenerationsCount
  <2>4. QED
    BY <1>6, <2>1, <2>2, <2>3 DEF Accounted
<1>8. QED
  BY <1>1, <1>3, <1>4, <1>7 DEF MetricsKey

\* FinalizeKind forgets the generation: what lives now is a later incarnation.
LEMMA KeyFinalized ==
  ASSUME NEW a \in Objects, NEW c \in Objects, NEW w \in Seq(Objects), NEW r \in Objects,
         NEW v, NEW rep, NEW m, MetricsKey(a, c, w, "finalizeKind", r, v, rep, m),
         NEW t, t \notin HoldStages
  PROVE  MetricsKey(a, c, w, t, r, NotServed, rep, m)
<1> DEFINE s == "finalizeKind"
           S == InSight(a, c, w, s, r)
           T == InSight(a, c, w, t, r)
<1>1. /\ Len(m.before) = a.inc /\ Accounted(S, a, v, rep, m) /\ Handed(s, r)
      /\ Succession(a, c, w, s, r)
  BY DEF MetricsKey
<1>2. r.phase = "deleting" /\ Holds(s, r) /\ ~Live(r) /\ ~Holds(t, r)
  BY <1>1 DEF Handed, Holds, HoldStages, Live
<1>3. T \subseteq S
  BY <1>2 DEF InSight
<1>4. r \in S /\ \A o \in T : Succeeds(r, o)
  <2>1. Succeeds(r, a) /\ Succeeds(r, c) /\ \A i \in DOMAIN w : Succeeds(r, w[i])
    BY <1>1, <1>2, InSightTyped DEF Succession
  <2>2. \A o \in T : o = a \/ o = c \/ \E i \in DOMAIN w : o = w[i]
    BY <1>2, InSightTyped
  <2>3. QED
    BY <1>2, <2>1, <2>2, InSightTyped
<1> HIDE DEF S, T
<1>5. \A o \in T : Live(o) => Unreported(o, a, rep, m)
  BY <1>1, <1>2, <1>3, <1>4 DEF Accounted, Succeeds
<1>6. Accounted(T, a, NotServed, rep, m)
  BY <1>1, <1>3, <1>5 DEF Accounted
<1>7. Handed(t, r)
  BY DEF Handed, HoldStages
<1>8. Succession(a, c, w, t, r)
  BY <1>1, <1>2, <1>3 DEF Succession, S, T
<1>9. QED
  BY <1>1, <1>6, <1>7, <1>8 DEF MetricsKey, T

\* The sums of the lemma that follows: E edits and Q creations have been reported, F
\* and P are now, of an object of generation G and incarnation R with B edits before it.
LEMMA ReportedSums ==
  ASSUME NEW E \in Nat, NEW F \in Nat, NEW P \in Nat, NEW Q \in Nat, NEW B \in Nat, NEW G \in Nat,
         NEW R \in Nat, NEW A \in Nat, NEW C \in Nat, NEW M \in Nat, NEW v \in Int, NEW u \in Int,
         G >= 1, R <= A, B + G - 1 <= M, E <= M, u = IF G < v THEN v ELSE G,
         \/ v = -1 /\ E <= B /\ Q + A <= R + C - 1 /\ F = E /\ P <= Q + 1
         \/ v >= 1 /\ E <= B + v - 1 /\ Q + A <= R + C /\ P = Q /\ F = IF G > v THEN E + 1 ELSE E
  PROVE  /\ F <= B + G - 1 \/ F = E
         /\ P + A <= R + C /\ F <= M /\ P <= C /\ u >= v /\ u >= 1 /\ u >= G
  OBVIOUS

\* The same, of an object of incarnation I with D edits before it.
LEMMA ReportedSumsLater ==
  ASSUME NEW E \in Nat, NEW F \in Nat, NEW P \in Nat, NEW B \in Nat, NEW G \in Nat,
         NEW R \in Nat, NEW A \in Nat, NEW C \in Nat, NEW v \in Int, NEW u \in Int,
         NEW I \in Nat, NEW D \in Nat, P + A <= R + C, u >= v, u >= 1, u >= G, G >= 1,
         F <= B + G - 1 \/ F = E, R <= I, R = I => B = D, R < I => B + G - 1 <= D
  PROVE  /\ P + A <= I + C
         /\ (v = -1 /\ E <= D) \/ (v >= 1 /\ E <= D + v - 1) => F <= D + u - 1
         /\ R < I => P + A <= I + C - 1
         /\ R < I /\ E <= D => F <= D
<1>1. R = I \/ R < I
  OBVIOUS
<1>2. QED
  BY <1>1

\* The change reported is that of the object in hand, which may have been; every
\* object that lives and is still in sight is no older.
LEMMA KeyReconciled ==
  ASSUME NEW a \in Objects, NEW c \in Objects, NEW w \in Seq(Objects), NEW r \in Objects,
         NEW v \in Int, NEW rep \in [Changes -> Nat], NEW m \in Made,
         MetricsKey(a, c, w, "reconcileKind", r, v, rep, m), Live(r),
         NEW t, t \notin HoldStages, NEW q \in Objects,
         NEW u \in Int, u = IF r.gen < v THEN v ELSE r.gen,
         NEW now \in [Changes -> Nat],
         \A x \in Changes : now[x] = IF x \in ChangeOf(r.gen, v) THEN rep[x] + 1 ELSE rep[x]
  PROVE  MetricsKey(a, c, w, t, q, u, now, m)
<1> DEFINE s == "reconcileKind"
           S == InSight(a, c, w, s, r)
           T == InSight(a, c, w, t, q)
           C == Creations(m)
           E == rep["edit"]
           Q == rep["creation"]
           F == now["edit"]
           P == now["creation"]
           B == m.before[r.inc]
           R == r.inc
           G == r.gen
           A == a.inc
           M == m.edits
<1>0. /\ Creations(m) = C /\ rep["edit"] = E /\ rep["creation"] = Q
      /\ now["edit"] = F /\ now["creation"] = P /\ m.before[r.inc] = B
      /\ r.inc = R /\ r.gen = G /\ a.inc = A /\ m.edits = M
  OBVIOUS
<1>1. /\ Len(m.before) = a.inc /\ Accounted(S, a, v, rep, m)
      /\ Succession(a, c, w, s, r)
  BY DEF MetricsKey
<1>2. Holds(s, r) /\ ~Holds(t, q)
  BY DEF Holds, HoldStages, Live
<1>3. T \subseteq S
  BY <1>2 DEF InSight
<1>4. /\ r \in S /\ Succeeds(r, a) /\ S \subseteq Objects /\ T \subseteq Objects
      /\ \A o \in T : Succeeds(r, o) /\ Succeeds(o, a)
  <2>1. Succeeds(r, a) /\ Succeeds(r, c) /\ \A i \in DOMAIN w : Succeeds(r, w[i])
    BY <1>1, <1>2, InSightTyped DEF Succession
  <2>2. \A o \in T : o = a \/ o = c \/ \E i \in DOMAIN w : o = w[i]
    BY <1>2, InSightTyped
  <2>3. \A o \in S : Succeeds(o, a)
    BY <1>1 DEF Succession
  <2>4. S \subseteq Objects /\ r \in S
    BY <1>2, InSightTyped
  <2>5. \A o \in T : Succeeds(r, o)
    BY <2>1, <2>2
  <2>6. QED
    BY <1>3, <2>1, <2>3, <2>4, <2>5
<1>5. /\ m.before \in Seq(Nat) /\ R \in Nat /\ G \in Nat /\ A \in Nat /\ M \in Nat /\ C \in Nat
      /\ E \in Nat /\ Q \in Nat /\ F \in Nat /\ P \in Nat
  <2>1. m.creations \in Nat /\ M \in Nat /\ m.before \in Seq(Nat)
    BY DEF Made
  <2>2. C \in Nat
    BY <2>1 DEF Creations
  <2>3. R \in Nat /\ G \in Nat /\ A \in Nat
    BY DEF Objects
  <2>4. QED
    BY <2>1, <2>2, <2>3, ChangeNames
<1> HIDE DEF C, E, Q, F, P, B, R, G, A, M, S, T
<1>6. ASSUME NEW o \in S, Live(o)
      PROVE  /\ o.inc \in Nat /\ o.inc >= 1 /\ o.inc <= A /\ m.before[o.inc] \in Nat
             /\ o.gen >= 1 /\ m.before[o.inc] + o.gen - 1 <= M
             /\ \A j \in o.inc + 1 .. A : m.before[o.inc] + o.gen - 1 <= m.before[j]
  <2>1. GenerationsCount(o, a, m)
    BY <1>1 DEF Accounted
  <2>2. o.inc \in Nat /\ o.inc <= A
    BY <1>0, <1>1, <1>4 DEF Succession, Succeeds, Objects, S
  <2>3. o.inc \in 1 .. Len(m.before)
    BY <1>0, <1>1, <1>5, <1>6, <2>1, <2>2 DEF GenerationsCount
  <2>4. m.before[o.inc] \in Nat
    BY <1>5, <2>3
  <2>5. QED
    BY <1>0, <1>6, <2>1, <2>2, <2>4 DEF GenerationsCount
<1>7. /\ B \in Nat /\ G >= 1 /\ R <= A /\ B + G - 1 <= M
      /\ \A j \in R + 1 .. A : B + G - 1 <= m.before[j]
  BY <1>0, <1>4, <1>6
\* What there may be of reports of r and of what it succeeds.
<1>8. /\ F <= B + G - 1 \/ F = E
      /\ P + A <= R + C /\ F <= M /\ P <= C /\ u >= v /\ u >= 1 /\ u >= G
  <2>1. /\ F = IF "edit" \in ChangeOf(G, v) THEN E + 1 ELSE E
        /\ P = IF "creation" \in ChangeOf(G, v) THEN Q + 1 ELSE Q
    BY <1>0, ChangeNames
  <2>2. E <= M /\ (v = NotServed \/ v >= 1)
    BY <1>0, <1>1 DEF Accounted
  <2>3. u = IF G < v THEN v ELSE G
    BY <1>0
  <2>4. CASE v = NotServed
    <3>1. E <= B /\ Q + A <= R + C - 1
      BY <1>0, <1>1, <1>4, <2>4 DEF Accounted, Unreported
    <3>2. F = E /\ P <= Q + 1 /\ v = -1
      BY <1>5, <2>1, <2>4 DEF ChangeOf, NotServed
    <3>3. QED
      BY <1>5, <1>7, <2>2, <2>3, <3>1, <3>2, ReportedSums
  <2>5. CASE v # NotServed
    <3>1. E <= B + v - 1 /\ Q + A <= R + C
      BY <1>0, <1>1, <1>4, <2>5 DEF Accounted, ReportedUpTo
    <3>2. P = Q /\ F = IF G > v THEN E + 1 ELSE E
      BY <2>1, <2>5 DEF ChangeOf
    <3>3. QED
      BY <1>5, <1>7, <2>2, <2>3, <2>5, <3>1, <3>2, ReportedSums
  <2>6. QED
    BY <2>4, <2>5
<1>9. ASSUME NEW o \in T, Live(o)
      PROVE  /\ ReportedUpTo(o, a, u, now, m)
             /\ \A p \in T : ~Live(p) /\ p.inc < o.inc => Unreported(o, a, now, m)
  <2> DEFINE I == o.inc
             D == m.before[o.inc]
  <2>0. o.inc = I /\ m.before[o.inc] = D
    OBVIOUS
  <2>1. o \in S /\ I \in Nat /\ I <= A /\ D \in Nat /\ R <= I
    BY <1>0, <1>3, <1>4, <1>6, <1>9 DEF Succeeds
  <2>2. (R = I => B = D) /\ (R < I => B + G - 1 <= D)
    <3>1. R = I => B = D
      BY <1>0
    <3>2. R < I => I \in R + 1 .. A
      BY <1>5, <2>1
    <3>3. QED
      BY <1>7, <3>1, <3>2
  <2> HIDE DEF I, D
  <2>3. /\ P + A <= I + C
        /\ (v = -1 /\ E <= D) \/ (v >= 1 /\ E <= D + v - 1) => F <= D + u - 1
        /\ R < I => P + A <= I + C - 1
        /\ R < I /\ E <= D => F <= D
    BY <1>5, <1>7, <1>8, <2>1, <2>2, ReportedSumsLater
  <2>4. (v = -1 /\ E <= D) \/ (v >= 1 /\ E <= D + v - 1)
    <3>1. v = NotServed => E <= D
      BY <1>0, <1>1, <1>9, <2>0, <2>1 DEF Accounted, Unreported
    <3>2. v # NotServed => v >= 1 /\ E <= D + v - 1
      BY <1>0, <1>1, <1>9, <2>0, <2>1 DEF Accounted, ReportedUpTo
    <3>3. QED
      BY <3>1, <3>2 DEF NotServed
  <2>5. ReportedUpTo(o, a, u, now, m)
    BY <1>0, <2>0, <2>3, <2>4 DEF ReportedUpTo
  <2>6. ASSUME NEW p \in T, ~Live(p), p.inc < o.inc
        PROVE  Unreported(o, a, now, m)
    <3>1. p \in S /\ p.inc \in Nat /\ R <= p.inc /\ p.inc < I
      BY <1>0, <1>3, <1>4, <2>0, <2>6 DEF Succeeds, Objects
    <3>2. R < I
      BY <1>5, <2>1, <3>1
    <3>3. E <= D
      BY <1>0, <1>1, <1>9, <2>0, <2>1, <2>6, <3>1 DEF Accounted, Unreported
    <3>4. QED
      BY <1>0, <2>0, <2>3, <3>2, <3>3 DEF Unreported
  <2>7. QED
    BY <2>5, <2>6
<1>10. Accounted(T, a, u, now, m)
  <2>1. u # NotServed
    BY <1>8 DEF NotServed
  <2>2. \A p \in T : GenerationsCount(p, a, m)
    BY <1>1, <1>3 DEF Accounted
  <2>3. QED
    BY <1>0, <1>8, <1>9, <2>1, <2>2 DEF Accounted
<1>11. Handed(t, q)
  BY DEF Handed, HoldStages
<1>12. Succession(a, c, w, t, q)
  BY <1>1, <1>2, <1>4 DEF Succession, T
<1>13. QED
  BY <1>1, <1>10, <1>11, <1>12 DEF MetricsKey, T

-----------------------------------------------------------------------------
(* Steps that report nothing and forget nothing.                            *)

\* The object of key j is as it was, or a new one is on its way to the informer.
Written(j) ==
  \/ api'[j] = api[j] /\ watch'[j] = watch[j]
  \/ watch'[j] = Append(watch[j], api'[j]) /\ Grows(api[j], api'[j])

\* Besides, the worker of key j holds an object like the one it held, or like the
\* cached one.
Steady(j) ==
  /\ Written(j) /\ Alike(cache[j], cache'[j])
  /\ Handed(pc'[j], res'[j])
  /\ Holds(pc'[j], res'[j]) =>
       Alike(cache[j], res'[j]) \/ (Holds(pc[j], res[j]) /\ Alike(res[j], res'[j]))
  /\ servings'[j] = servings[j]

KeyHolds(j) ==
  MetricsKey(api[j], cache[j], watch[j], pc[j], res[j], servings[j], reported[j], made[j])

\* What Count makes of one key, when its stored object grows.
LEMMA CountKey ==
  ASSUME TypeOK, TypeOK', MetricsTypes, Count, NEW j \in Keys
  PROVE  /\ made'[j] \in Made
         /\ api'[j] = api[j] => made'[j] = made[j]
         /\ Grows(api[j], api'[j]) => Tallies(api[j], api'[j], made[j], made'[j])
<1> DEFINE m == made[j]
           n == made'[j]
           born == api'[j].inc > api[j].inc
           edited == api'[j].inc = api[j].inc /\ api'[j].phase = api[j].phase
                     /\ api'[j].gen > api[j].gen
<1>1. /\ api[j].inc \in Nat /\ api'[j].inc \in Nat /\ api[j].gen \in Nat /\ api'[j].gen \in Nat
  BY DEF TypeOK, Objects
<1>2. m \in Made
  BY DEF MetricsTypes
<1>3. n = [m EXCEPT !.creations = IF born THEN @ + 1 ELSE @,
                    !.before = IF born THEN Append(@, m.edits) ELSE @,
                    !.edits = IF edited THEN @ + 1 ELSE @]
  BY DEF Count
<1>4. /\ m.creations \in Nat /\ m.edits \in Nat /\ m.there \in BOOLEAN /\ m.before \in Seq(Nat)
      /\ m = [creations |-> m.creations, edits |-> m.edits, there |-> m.there, before |-> m.before]
  BY <1>2 DEF Made
<1>5. n = [creations |-> IF born THEN m.creations + 1 ELSE m.creations,
           edits |-> IF edited THEN m.edits + 1 ELSE m.edits, there |-> m.there,
           before |-> IF born THEN Append(m.before, m.edits) ELSE m.before]
  BY <1>2, <1>3 DEF Made
<1> HIDE DEF m, n
<1>6. Append(m.before, m.edits) \in Seq(Nat)
  BY <1>4
<1>7. n \in Made
  BY <1>4, <1>5, <1>6 DEF Made
<1>8. api'[j] = api[j] => n = m
  BY <1>1, <1>4, <1>5
<1>9. Grows(api[j], api'[j]) => Tallies(api[j], api'[j], m, n)
  <2>1. Grows(api[j], api'[j]) => (Born(api[j], api'[j]) <=> born)
    BY <1>1 DEF Grows, Born, Alike, Changed, Fallen, Live
  <2>2. Born(api[j], api'[j]) => ~edited
    BY <1>1 DEF Born
  <2>3. Changed(api[j], api'[j]) => edited
    BY <1>1 DEF Changed, Live
  <2>4. n.edits >= m.edits
    BY <1>4, <1>5
  <2>5. QED
    BY <1>5, <2>1, <2>2, <2>3, <2>4 DEF Tallies
<1>10. QED
  BY <1>7, <1>8, <1>9 DEF m, n

\* A step that brings nothing new into sight, and reports nothing, keeps the key.
LEMMA SteadyKey ==
  ASSUME TypeOK, TypeOK', MetricsTypes, Count, NEW j \in Keys, KeyHolds(j), Steady(j),
         reported'[j] = reported[j]
  PROVE  KeyHolds(j)'
<1>1. /\ api[j] \in Objects /\ cache[j] \in Objects /\ res[j] \in Objects /\ watch[j] \in Seq(Objects)
      /\ api'[j] \in Objects /\ cache'[j] \in Objects /\ res'[j] \in Objects
      /\ watch'[j] \in Seq(Objects) /\ servings[j] \in Int
  BY DEF TypeOK, ServingKeys
<1>2. reported[j] \in [Changes -> Nat] /\ made[j] \in Made /\ made'[j] \in Made
  BY CountKey DEF MetricsTypes, ServingKeys
<1>3. MetricsKey(api'[j], cache[j], watch'[j], pc[j], res[j], servings[j], reported[j], made'[j])
  <2>1. CASE api'[j] = api[j] /\ watch'[j] = watch[j]
    BY <2>1, CountKey DEF KeyHolds
  <2>2. CASE watch'[j] = Append(watch[j], api'[j]) /\ Grows(api[j], api'[j])
    BY <1>1, <1>2, <2>2, CountKey, KeyStored DEF KeyHolds
  <2>3. QED
    BY <2>1, <2>2 DEF Steady, Written
<1>4. MetricsKey(api'[j], cache'[j], watch'[j], pc'[j], res'[j], servings[j], reported[j], made'[j])
  BY <1>1, <1>3, KeyWorker DEF Steady
<1>5. QED
  BY <1>4 DEF Steady, KeyHolds

\* An object carried out as asked, or removed, grows from the stored one.
LEMMA CommittedGrows ==
  ASSUME NEW a \in Objects, NEW o \in Objects, Alike(a, o) \/ Changed(a, o) \/ Fallen(a, o)
  PROVE  Grows(a, Committed(o))
<1>1. CASE o.phase = "deleting" /\ Len(o.fin) = 0
  <2>1. Committed(o) = Gone(o.inc, o.rv + 1)
    BY <1>1 DEF Committed
  <2>2. Committed(o).phase = "absent" /\ Committed(o).inc = a.inc
    BY <2>1 DEF Gone, Alike, Changed, Fallen
  <2>3. QED
    BY <2>2 DEF Grows, Fallen, Live
<1>2. CASE ~(o.phase = "deleting" /\ Len(o.fin) = 0)
  <2>1. Committed(o) = Bumped(o)
    BY <1>2 DEF Committed
  <2>2. Committed(o).phase = o.phase /\ Committed(o).inc = o.inc /\ Committed(o).gen = o.gen
    BY <2>1 DEF Bumped, Objects
  <2>3. QED
    BY <2>2 DEF Grows, Alike, Changed, Fallen, Live
<1>3. QED
  BY <1>1, <1>2

\* Requests that change finalizers or a status.
LEMMA RequestWrites ==
  ASSUME TypeOK, NEW k \in Keys,
         \/ \E rv : \E fin \in Seq(Finalizers) : Patches(k, rv, fin)
         \/ \E rv : \E st \in Statuses : Updates(k, rv, st)
  PROVE  \A j \in Keys : Written(j)
<1>1. api[k] \in Objects
  BY KeyTyped
<1>2. ASSUME NEW rv, NEW o \in Objects, Alike(api[k], o), NEW reply, Write(k, rv, o, reply)
      PROVE  \A j \in Keys : Written(j)
  <2>1. Grows(api[k], Committed(o))
    BY <1>1, <1>2, CommittedGrows
  <2>2. /\ \A j \in Keys \ {k} : api'[j] = api[j] /\ watch'[j] = watch[j]
        /\ \/ api'[k] = api[k] /\ watch'[k] = watch[k]
           \/ api'[k] = Committed(o) /\ watch'[k] = Append(watch[k], Committed(o))
    BY <1>2, WriteEffect
  <2>3. Written(k)
    BY <2>1, <2>2 DEF Written
  <2>4. QED
    BY <2>2, <2>3 DEF Written
<1>3. ASSUME NEW rv, NEW fin \in Seq(Finalizers), Patches(k, rv, fin)
      PROVE  \A j \in Keys : Written(j)
  <2> DEFINE o == [api[k] EXCEPT !.fin = fin]
  <2>1. o \in Objects /\ Alike(api[k], o)
    BY <1>1 DEF Objects, Alike
  <2>2. PICK reply \in {"ok", "conflict", "notfound", "error"} : Write(k, rv, o, reply)
    BY <1>3 DEF Patches
  <2> HIDE DEF o
  <2>3. QED
    BY <1>2, <2>1, <2>2
<1>4. ASSUME NEW rv, NEW st \in Statuses, Updates(k, rv, st)
      PROVE  \A j \in Keys : Written(j)
  <2> DEFINE o == [api[k] EXCEPT !.status = st]
  <2>1. o \in Objects /\ Alike(api[k], o)
    BY <1>1 DEF Objects, Alike
  <2>2. PICK reply \in {"ok", "conflict", "notfound", "error"} : Write(k, rv, o, reply)
    BY <1>4 DEF Updates
  <2> HIDE DEF o
  <2>3. QED
    BY <1>2, <2>1, <2>2
<1>5. QED
  BY <1>3, <1>4

\* A step that writes nothing grows nothing.
LEMMA QuietWrites ==
  ASSUME UNCHANGED <<api, watch>>
  PROVE  \A j \in Keys : Written(j)
  BY DEF Written

\* The users' steps and the garbage collector's.
LEMMA EnvironmentWrites ==
  ASSUME TypeOK, NEW k \in Keys, Environment(k)
  PROVE  /\ UNCHANGED <<cache, pc, res, servings>>
         /\ \A j \in Keys : Written(j)
<1> DEFINE a == api[k]
<1>1. a \in Objects /\ a.inc + 1 \in Nat /\ a.rv + 1 \in Nat /\ a.gen + 1 \in Nat
  BY KeyTyped DEF Objects
<1>2. UNCHANGED <<cache, pc, res, servings>>
  BY DEF Environment, CreateCR, EditSpec, DeleteCR, DeploymentUp, DeploymentLost,
         CollectDeployment, ForegroundDone, worker, objects
<1>3. ASSUME NEW o, Store(k, o), Grows(a, o)
      PROVE  \A j \in Keys : Written(j)
  BY <1>3 DEF Store, TypeOK, Written
<1>4. ASSUME NEW o \in Objects, Store(k, Committed(o)), Alike(a, o) \/ Changed(a, o) \/ Fallen(a, o)
      PROVE  \A j \in Keys : Written(j)
  BY <1>1, <1>3, <1>4, CommittedGrows
<1>5. ASSUME NEW spec \in Specs, CreateCR(k, spec)
      PROVE  \A j \in Keys : Written(j)
  <2> DEFINE o == Created(a.inc + 1, a.rv + 1, spec)
  <2>1. Store(k, o) /\ ~Live(a)
    BY <1>5 DEF CreateCR, Exists, Live
  <2>2. Born(a, o)
    BY <2>1 DEF Born, Created, Live
  <2> HIDE DEF o
  <2>3. QED
    BY <1>3, <2>1, <2>2 DEF Grows
<1>6. ASSUME NEW spec \in Specs, EditSpec(k, spec)
      PROVE  \A j \in Keys : Written(j)
  <2> DEFINE o == Edited(a, spec)
  <2>1. o \in Objects
    BY <1>1 DEF Edited, Objects
  <2>2. Changed(a, o) \/ Fallen(a, o)
    BY DEF Changed, Fallen, Live, Edited
  <2>3. Store(k, Committed(o))
    BY <1>6 DEF EditSpec
  <2> HIDE DEF o
  <2>4. QED
    BY <1>4, <2>1, <2>2, <2>3
<1>7. ASSUME NEW foreground \in BOOLEAN, DeleteCR(k, foreground)
      PROVE  \A j \in Keys : Written(j)
  <2> DEFINE fin == IF foreground THEN Append(a.fin, ForegroundFinalizer) ELSE a.fin
             o == Marked(a, fin)
  <2>1. fin \in Seq(Finalizers)
    BY <1>1 DEF Objects, Finalizers
  <2>2. o \in Objects
    BY <1>1, <2>1 DEF Marked, Objects, Phases
  <2>3. Fallen(a, o)
    BY DEF Fallen, Live, Marked
  <2>4. Store(k, Committed(o))
    BY <1>7 DEF DeleteCR
  <2> HIDE DEF o
  <2>5. QED
    BY <1>4, <2>2, <2>3, <2>4
<1>8. ASSUME ForegroundDone(k)
      PROVE  \A j \in Keys : Written(j)
  <2>1. PICK i \in DOMAIN a.fin :
          a.fin[i] = ForegroundFinalizer /\ Store(k, Committed([a EXCEPT !.fin = Without(@, i)]))
    BY <1>8 DEF ForegroundDone
  <2> DEFINE o == [a EXCEPT !.fin = Without(@, i)]
  <2>2. Without(a.fin, i) \in Seq(Finalizers)
    <3>1. a.fin \in Seq(Finalizers)
      BY <1>1 DEF Objects
    <3>2. QED
      BY <2>1, <3>1, WithoutFacts
  <2>3. o \in Objects /\ Alike(a, o)
    BY <1>1, <2>2 DEF Objects, Alike
  <2>4. Store(k, Committed(o))
    BY <2>1
  <2> HIDE DEF o
  <2>5. QED
    BY <1>4, <2>3, <2>4
<1>9. ASSUME UNCHANGED objects
      PROVE  \A j \in Keys : Written(j)
  BY <1>9, QuietWrites DEF objects
<1>10. QED
  BY <1>2, <1>5, <1>6, <1>7, <1>8, <1>9
     DEF Environment, DeploymentUp, DeploymentLost, CollectDeployment

\* The users and the garbage collector bring nothing into sight but what is stored.
LEMMA EnvironmentSteady ==
  ASSUME TypeOK, \A j \in Keys : Handed(pc[j], res[j]), NEW k \in Keys, Environment(k)
  PROVE  \A j \in Keys : Steady(j)
<1>1. /\ UNCHANGED <<cache, pc, res, servings>>
      /\ \A j \in Keys : Written(j)
  BY EnvironmentWrites
<1>2. QED
  BY <1>1 DEF Steady, Alike

\* The other keys, when a worker takes a step.
LEMMA SteadyElsewhere ==
  ASSUME TypeOK, \A j \in Keys : Handed(pc[j], res[j]), NEW k \in Keys, Elsewhere(k),
         NEW j \in Keys \ {k}, servings'[j] = servings[j]
  PROVE  Steady(j)
  BY DEF Elsewhere, Steady, Written, Alike

\* The worker takes its object from the lister.
LEMMA ReconcileSteady ==
  ASSUME TypeOK, \A j \in Keys : Handed(pc[j], res[j]), NEW k \in Keys, Reconcile(k)
  PROVE  Steady(k)
<1>1. UNCHANGED <<api, watch, cache, servings>>
  BY DEF Reconcile, objects
<1>2. \/ pc'[k] = pc[k] /\ res'[k] = res[k]
      \/ /\ Exists(cache[k]) /\ res'[k] = cache[k]
         /\ pc'[k] = IF cache[k].phase = "live" THEN "setFinalizer" ELSE "finalizeKind"
  BY DEF Reconcile, Goto, SetRes, TypeOK
<1>3. Handed(pc'[k], res'[k])
  BY <1>2 DEF Handed, Exists, Live
<1>4. QED
  BY <1>1, <1>2, <1>3 DEF Steady, Written, Alike

\* setFinalizer hands on what the patch returns, or what it was given.
LEMMA SetFinalizerSteady ==
  ASSUME IInv, CacheCurrent, NEW k \in Keys, Handed(pc[k], res[k]), SetFinalizer(k)
  PROVE  Steady(k)
<1>1. TypeOK /\ api[k] \in Objects /\ cache[k] \in Objects /\ res[k] \in Objects
  BY KeyTyped DEF IInv
<1>2. cache' = cache /\ servings' = servings /\ pc[k] = "setFinalizer" /\ pc'[k] = "reconcileKind"
  BY <1>1 DEF SetFinalizer, At, Goto, TypeOK
<1>3. Written(k)
  BY <1>1, FinalizerRequest, RequestWrites, QuietWrites
<1>4. Live(res[k]) /\ Holds(pc[k], res[k])
  BY <1>2 DEF Handed, Holds, HoldStages, Live
<1> DEFINE S == SetOf(res[k].fin) \cup {DefaultFinalizer}
           q == [res[k] EXCEPT !.fin = SortedList(S)]
           fin == Append(cache[k].fin, DefaultFinalizer)
           patched == [api[k] EXCEPT !.fin = fin]
<1>5. S \in SUBSET Finalizers /\ SortedList(S) \in Seq(Finalizers)
  BY SortedListFacts DEF SetOf, Finalizers
<1>6. q.fin = SortedList(S) /\ Alike(res[k], q)
  BY <1>1 DEF Objects, Alike
<1>7. Has(q.fin, DefaultFinalizer)
  <2>1. DefaultFinalizer \in S
    OBVIOUS
  <2>2. QED
    BY <1>5, <1>6, <2>1, SortedListDefault
<1>8. UpdateFinalizersFiltered(k, q)
  BY DEF SetFinalizer
<1> HIDE DEF q
<1>9. \/ res'[k] = q
      \/ res'[k] = Empty
      \/ /\ res'[k] = Bumped(patched)
         /\ api[k].phase # "deleting" /\ Write(k, cache[k].rv, patched, "ok")
  BY <1>1, <1>7, <1>8 DEF UpdateFinalizersFiltered, SetRes, TypeOK
<1>10. CASE res'[k] = q
  <2>1. Handed(pc'[k], res'[k])
    BY <1>2, <1>4, <1>6, <1>10 DEF Handed, Live, Alike
  <2>2. QED
    BY <1>2, <1>3, <1>4, <1>6, <1>10, <2>1 DEF Steady, Alike
<1>11. CASE res'[k] = Empty
  <2>1. Handed(pc'[k], res'[k]) /\ ~Holds(pc'[k], res'[k])
    BY <1>2, <1>11 DEF Handed, Holds, Empty
  <2>2. QED
    BY <1>2, <1>3, <2>1 DEF Steady, Alike
<1>12. CASE /\ res'[k] = Bumped(patched)
            /\ api[k].phase # "deleting" /\ Write(k, cache[k].rv, patched, "ok")
  <2>1. Exists(api[k]) /\ api[k].rv = cache[k].rv
    BY <1>12 DEF Write
  <2>2. api[k].phase = "live" /\ api[k] = cache[k]
    BY <1>12, <2>1, CachedPatch DEF Exists
  <2>3. Alike(api[k], res'[k])
    BY <1>1, <1>12 DEF Bumped, Objects, Alike
  <2>4. Handed(pc'[k], res'[k])
    BY <1>2, <2>2, <2>3 DEF Handed, Alike, Live
  <2>5. QED
    BY <1>2, <1>3, <2>2, <2>3, <2>4 DEF Steady, Alike
<1>13. QED
  BY <1>9, <1>10, <1>11, <1>12

\* The other steps of a worker, but for those that act on the generation, leave it
\* with nothing to report of.
LateStep(k) ==
  \/ EnsureFinalizer(k) \/ InitStatus(k) \/ Install(k) \/ CheckDeployments(k)
  \/ DeleteObsoleteResources(k) \/ Delete(k) \/ Release(k) \/ ClearFinalizer(k)
  \/ SyncStatus(k) \/ GetStatus(k)

\* After ReconcileKind a worker neither holds an object unseen nor serves one.
LEMMA LateStages ==
  ASSUME TypeOK, NEW k \in Keys, LateStep(k)
  PROVE  pc'[k] \notin HoldStages /\ servings' = servings
<1>1. servings' = servings
  BY DEF LateStep, EnsureFinalizer, InitStatus, Install, CheckDeployments,
         DeleteObsoleteResources, Delete, Release, ClearFinalizer, SyncStatus, GetStatus
<1>2. /\ \A stage : Goto(k, stage) => pc'[k] = stage
      /\ \A failed : Done(k, failed) => pc'[k] = "idle"
  BY DEF Goto, Done, TypeOK
<1>3. EnsureFinalizer(k) => pc'[k] \in {"initStatus", "syncStatus"}
  BY <1>2 DEF EnsureFinalizer
<1>4. InitStatus(k) => pc'[k] \in {"install", "syncStatus"}
  BY <1>2 DEF InitStatus
<1>5. Install(k) => pc'[k] \in {"install", "checkDeployments", "syncStatus"}
  BY <1>2 DEF Install, At
<1>6. CheckDeployments(k) => pc'[k] \in {"deleteObsoleteResources", "syncStatus"}
  BY <1>2 DEF CheckDeployments
<1>7. DeleteObsoleteResources(k) \/ ClearFinalizer(k) => pc'[k] = "syncStatus"
  BY <1>2 DEF DeleteObsoleteResources, ClearFinalizer
<1>8. Delete(k) => pc'[k] \in {"delete", "release", "clearFinalizer"}
  BY <1>2 DEF Delete, At
<1>9. Release(k) => pc'[k] = "clearFinalizer"
  BY <1>2 DEF Release
<1>10. SyncStatus(k) \/ GetStatus(k) => pc'[k] \in {"idle", "getStatus", "syncStatus"}
  BY <1>2 DEF SyncStatus, GetStatus
<1>11. QED
  BY <1>1, <1>3, <1>4, <1>5, <1>6, <1>7, <1>8, <1>9, <1>10 DEF LateStep, HoldStages

\* A worker past ReconcileKind brings nothing into sight.
LEMMA LateSteady ==
  ASSUME IInv, NEW k \in Keys, LateStep(k)
  PROVE  Steady(k)
<1>1. TypeOK /\ cache[k] \in Objects
  BY KeyTyped DEF IInv
<1>2. Written(k)
  <2>1. CASE ClearFinalizer(k)
    BY <1>1, <2>1, FinalizerRequest, RequestWrites, QuietWrites
  <2>2. CASE EnsureFinalizer(k)
    BY <1>1, <2>2, EnsureRequest, RequestWrites, QuietWrites
  <2>3. CASE InitStatus(k) \/ SyncStatus(k)
    BY <1>1, <2>3, StatusRequest, RequestWrites, QuietWrites
  <2>4. CASE Release(k)
    BY <1>1, <2>4, ReleaseRequest, RequestWrites
  <2>5. CASE UNCHANGED objects
    BY <2>5, QuietWrites DEF objects
  <2>6. QED
    BY <2>1, <2>2, <2>3, <2>4, <2>5, LocalSteps DEF LateStep
<1>3. Alike(cache[k], cache'[k])
  <2>1. CASE Release(k)
    <3>1. PICK fin \in Seq(Finalizers) :
            cache' = [cache EXCEPT ![k] = [cache[k] EXCEPT !.fin = fin]]
      BY <2>1, ReleaseRequest
    <3>2. cache'[k] = [cache[k] EXCEPT !.fin = fin]
      BY <1>1, <3>1 DEF TypeOK
    <3>3. QED
      BY <1>1, <3>2 DEF Alike, Objects
  <2>2. CASE ~Release(k)
    <3>1. cache' = cache
      BY <1>1, <2>2, WorkerSends DEF LateStep, WorkerStep
    <3>2. QED
      BY <3>1 DEF Alike
  <2>3. QED
    BY <2>1, <2>2
<1>4. pc'[k] \notin HoldStages /\ servings' = servings
  BY <1>1, LateStages
<1>5. Handed(pc'[k], res'[k]) /\ ~Holds(pc'[k], res'[k])
  BY <1>4 DEF Handed, Holds, HoldStages
<1>6. QED
  BY <1>2, <1>3, <1>4, <1>5 DEF Steady

-----------------------------------------------------------------------------
(* The steps that report, forget or learn.                                  *)

\* Of a key that a step leaves alone.
LEMMA KeyElsewhere ==
  ASSUME TypeOK, NEW k \in Keys, Elsewhere(k), NEW j \in Keys \ {k}, KeyHolds(j),
         made'[j] = made[j], reported'[j] = reported[j], servings'[j] = servings[j]
  PROVE  KeyHolds(j)'
  BY DEF Elsewhere, KeyHolds

\* FinalizeKind forgets the generation, of an object that is being deleted.
LEMMA FinalizeKindKey ==
  ASSUME IInv, NEW k \in Keys, FinalizeKind(k), KeyHolds(k),
         made'[k] = made[k], reported'[k] = reported[k]
  PROVE  KeyHolds(k)'
<1>1. /\ TypeOK /\ api[k] \in Objects /\ cache[k] \in Objects /\ res[k] \in Objects
      /\ watch[k] \in Seq(Objects)
  BY KeyTyped DEF IInv
<1>2. /\ UNCHANGED <<api, cache, watch, res>> /\ pc[k] = "finalizeKind"
      /\ servings'[k] = NotServed
  BY <1>1 DEF FinalizeKind, objects, At, Unserve, TypeOK, ServingKeys
<1>3. pc'[k] \notin HoldStages
  BY <1>1 DEF FinalizeKind, Goto, TypeOK, HoldStages
<1>4. MetricsKey(api[k], cache[k], watch[k], pc'[k], res[k], NotServed, reported[k], made[k])
  BY <1>1, <1>2, <1>3, KeyFinalized DEF KeyHolds
<1>5. QED
  BY <1>2, <1>4 DEF KeyHolds

\* The informer takes out of sight what it has passed.
LEMMA InformerKey ==
  ASSUME IInv, NEW k \in Keys, Informer(k), KeyHolds(k),
         made'[k] = made[k], reported'[k] = reported[k]
  PROVE  KeyHolds(k)'
<1>1. /\ TypeOK /\ api[k] \in Objects /\ cache[k] \in Objects /\ res[k] \in Objects
      /\ watch[k] \in Seq(Objects)
  BY KeyTyped DEF IInv
<1>2. UNCHANGED <<api, pc, res, servings>>
  BY DEF Informer, WatchEvent, Relist, Resync, worker, objects
<1>3. \/ UNCHANGED <<cache, watch>>
      \/ Len(watch[k]) > 0 /\ cache'[k] = Head(watch[k]) /\ watch'[k] = Tail(watch[k])
      \/ cache'[k] = api[k] /\ watch'[k] = <<>>
  BY <1>1 DEF Informer, WatchEvent, Relist, Resync, objects, TypeOK
<1>4. MetricsKey(api[k], cache'[k], watch'[k], pc[k], res[k], servings[k], reported[k], made[k])
  <2>1. CASE UNCHANGED <<cache, watch>>
    BY <2>1 DEF KeyHolds
  <2>2. CASE Len(watch[k]) > 0 /\ cache'[k] = Head(watch[k]) /\ watch'[k] = Tail(watch[k])
    BY <1>1, <2>2, KeyDelivered DEF KeyHolds
  <2>3. CASE cache'[k] = api[k] /\ watch'[k] = <<>>
    BY <1>1, <2>3, KeyListed DEF KeyHolds
  <2>4. QED
    BY <1>3, <2>1, <2>2, <2>3
<1>5. QED
  BY <1>2, <1>4 DEF KeyHolds

\* ReconcileKind reports of its own key, or of none.
LEMMA ReconcileKindKey ==
  ASSUME IInv, TypeOK', MetricsTypes, NEW k \in Keys, ReconcileKind(k), Report(k), UNCHANGED made,
         KeyHolds(k), servings[NoKey] \in {NotServed, 0}, NamedChangesOnly
  PROVE  /\ KeyHolds(k)' /\ MetricsTypes'
         /\ servings'[NoKey] \in {NotServed, 0} /\ NamedChangesOnly'
         /\ \A j \in Keys \ {k} : reported'[j] = reported[j] /\ servings'[j] = servings[j]
<1> DEFINE r == res[k]
           key == KeyOf(k)
           v == servings[key]
           u == IF r.gen < v THEN v ELSE r.gen
           now == [x \in Changes |-> IF x \in ChangeOf(r.gen, v) THEN reported[key][x] + 1
                                     ELSE reported[key][x]]
<1>1. /\ TypeOK /\ api[k] \in Objects /\ cache[k] \in Objects /\ r \in Objects /\ r.gen \in Int
      /\ watch[k] \in Seq(Objects) /\ res'[k] \in Objects
  <2>1. TypeOK
    BY DEF IInv
  <2>2. res'[k] \in Objects
    BY DEF TypeOK
  <2>3. r \in Objects /\ r.gen \in Int
    BY <2>1, KeyTyped DEF Objects
  <2>4. QED
    BY <2>1, <2>2, <2>3, KeyTyped
<1>2. k \in ServingKeys /\ NoKey \in ServingKeys /\ NoKey \notin Keys /\ key \in ServingKeys
  BY KeysAssumption DEF ServingKeys, KeyOf
<1>3. /\ pc[k] = "reconcileKind" /\ pc'[k] \notin HoldStages
      /\ UNCHANGED <<api, cache, watch>>
      /\ servings' = [servings EXCEPT ![key] = u]
  <2>1. /\ pc[k] = "reconcileKind" /\ UNCHANGED <<api, cache, watch>>
        /\ pc'[k] \in {"syncStatus", "ensureFinalizer"}
    BY <1>1 DEF ReconcileKind, objects, At, Goto, TypeOK
  <2>2. servings' = IF r.gen < v THEN servings ELSE [servings EXCEPT ![key] = r.gen]
    BY DEF ReconcileKind, Outdated
  <2>3. servings = [servings EXCEPT ![key] = v]
    BY <1>1, <1>2 DEF TypeOK
  <2>4. QED
    BY <2>1, <2>2, <2>3 DEF HoldStages
<1>4. reported' = [reported EXCEPT ![key] = now]
  BY DEF Report, ReportKnativeservingChange
<1>5. v \in Int /\ u \in Int /\ reported[key] \in [Changes -> Nat]
  BY <1>1, <1>2 DEF TypeOK, MetricsTypes
<1>6. now \in [Changes -> Nat]
  BY <1>5
<1> HIDE DEF u, now, v
<1>7. /\ servings'[key] = u /\ reported'[key] = now
      /\ \A j \in ServingKeys \ {key} : servings'[j] = servings[j] /\ reported'[j] = reported[j]
  BY <1>1, <1>2, <1>3, <1>4 DEF TypeOK, MetricsTypes
<1>8. MetricsTypes'
  BY <1>4, <1>6 DEF MetricsTypes
<1>9. Handed("reconcileKind", r) /\ made[k] \in Made
  BY <1>3 DEF KeyHolds, MetricsKey, MetricsTypes
<1>10. CASE Live(r)
  <2>1. key = k
    BY <1>10 DEF KeyOf, Live
  <2>2. MetricsKey(api[k], cache[k], watch[k], pc'[k], res'[k], u, now, made[k])
    <3>1. MetricsKey(api[k], cache[k], watch[k], "reconcileKind", r, v, reported[k], made[k])
      BY <1>3, <2>1 DEF KeyHolds, v
    <3>2. u = IF r.gen < v THEN v ELSE r.gen
      BY DEF u
    <3>3. \A x \in Changes : now[x] = IF x \in ChangeOf(r.gen, v) THEN reported[k][x] + 1
                                     ELSE reported[k][x]
      BY <2>1 DEF now
    <3>4. reported[k] \in [Changes -> Nat]
      BY <1>5, <2>1
    <3> HIDE DEF r, key
    <3>5. QED
      BY <1>1, <1>3, <1>5, <1>6, <1>9, <1>10, <3>1, <3>2, <3>3, <3>4, KeyReconciled
  <2>3. KeyHolds(k)'
    BY <1>3, <1>7, <2>1, <2>2 DEF KeyHolds
  <2>4. servings'[NoKey] = servings[NoKey] /\ reported'[NoKey] = reported[NoKey]
    BY <1>2, <1>7, <2>1
  <2>5. QED
    BY <1>7, <1>8, <2>1, <2>3, <2>4 DEF NamedChangesOnly, ServingKeys
<1>11. CASE r.phase = "empty" /\ r.gen = 0
  <2>1. key = NoKey /\ key # k
    BY <1>2, <1>11 DEF KeyOf
  <2>2. v \in {NotServed, 0} /\ u = 0
    BY <1>11, <2>1 DEF u, v, NotServed
  <2>3. now = NoReports
    <3>1. ChangeOf(r.gen, v) = {}
      BY <1>11, <2>2 DEF ChangeOf, NotServed
    <3>2. reported[key] = NoReports
      BY <2>1 DEF NamedChangesOnly
    <3>3. now = [x \in Changes |-> reported[key][x]]
      BY <3>1 DEF now
    <3>4. QED
      BY <3>2, <3>3 DEF NoReports
  <2>4. Handed(pc'[k], res'[k]) /\ ~Holds(pc'[k], res'[k])
    BY <1>3 DEF Handed, Holds, HoldStages
  <2>5. MetricsKey(api[k], cache[k], watch[k], pc'[k], res'[k], servings[k], reported[k], made[k])
    <3>1. Alike(cache[k], cache[k])
      BY DEF Alike
    <3>2. QED
      BY <1>1, <2>4, <3>1, KeyWorker DEF KeyHolds
  <2>6. servings'[k] = servings[k] /\ reported'[k] = reported[k]
    BY <1>2, <1>7, <2>1
  <2>7. KeyHolds(k)'
    BY <1>3, <2>5, <2>6 DEF KeyHolds
  <2>8. QED
    BY <1>2, <1>7, <1>8, <2>1, <2>2, <2>3, <2>7 DEF NamedChangesOnly, ServingKeys
<1>12. QED
  BY <1>9, <1>10, <1>11 DEF Handed

-----------------------------------------------------------------------------
(* The invariant.                                                           *)

\* A step of ChangeMetrics is one of Reconciler.
LEMMA MetricsStepIsStep == [MetricsNext]_metricsVars => [Next]_vars
  BY DEF MetricsNext, metricsVars, OtherSteps, Next, WorkerStep

\* Whether an object exists is a truth value.
LEMMA ExistsBoolean ==
  ASSUME NEW o
  PROVE  Exists(o) \in BOOLEAN
  BY DEF Exists

\* A restart forgets what was reported, and counts the object it finds in.
LEMMA RestartMetrics ==
  ASSUME IInv, TypeOK', MetricsInv, Restart,
         reported' = [k \in ServingKeys |-> NoReports],
         made' = [k \in Keys |-> [made[k] EXCEPT !.creations = 0, !.there = Exists(api[k])]]
  PROVE  MetricsInv'
<1>1. NoReports \in [Changes -> Nat]
  BY DEF NoReports
<1>2. ASSUME NEW k \in Keys
      PROVE  made'[k] \in Made /\ KeyHolds(k)'
  <2> DEFINE m == made[k]
             n == made'[k]
             a == api[k]
  <2>1. a \in Objects /\ m \in Made /\ cache[k] \in Objects /\ res[k] \in Objects /\ watch[k] \in Seq(Objects)
    BY KeyTyped DEF IInv, MetricsInv, MetricsTypes
  <2>2. n = [m EXCEPT !.creations = 0, !.there = Exists(a)]
    OBVIOUS
  <2>3. n \in Made /\ n.before = m.before /\ n.edits = m.edits /\ n.creations = 0 /\ n.there = Exists(a)
    <3> HIDE DEF m, n
    <3>1. m = [creations |-> m.creations, edits |-> m.edits, there |-> m.there, before |-> m.before]
      BY <2>1 DEF Made
    <3>2. n = [creations |-> 0, edits |-> m.edits, there |-> Exists(a), before |-> m.before]
      BY <2>2, <3>1
    <3>3. n \in Made
      <4>1. Exists(a) \in BOOLEAN
        BY ExistsBoolean
      <4>2. m.edits \in Nat /\ m.before \in Seq(Nat) /\ 0 \in Nat
        BY <2>1 DEF Made
      <4> HIDE DEF a
      <4>3. QED
        BY <3>2, <4>1, <4>2 DEF Made
    <3>4. QED
      BY <3>2, <3>3
  <2>4. Len(m.before) = a.inc /\ GenerationsCount(a, a, m)
    <3>1. MetricsKey(a, cache[k], watch[k], pc[k], res[k], servings[k], reported[k], m)
      BY DEF MetricsInv
    <3>2. QED
      BY <2>1, <3>1, InSightTyped DEF MetricsKey, Accounted
  <2>5. /\ api'[k] = a /\ cache'[k] = a /\ watch'[k] = <<>> /\ pc'[k] = "idle" /\ res'[k] = Empty
        /\ servings'[k] = NotServed /\ reported'[k] = NoReports
    BY DEF Restart, ServingKeys
  <2> HIDE DEF m, n, a
  <2>6. MetricsKey(a, a, <<>>, "idle", Empty, NotServed, NoReports, n)
    BY <2>1, <2>3, <2>4, KeyRestarted
  <2>7. QED
    BY <2>3, <2>5, <2>6 DEF KeyHolds, n
<1>3. MetricsTypes'
  BY <1>1, <1>2 DEF MetricsTypes
<1>4. servings'[NoKey] = NotServed /\ reported'[NoKey] = NoReports
  BY DEF Restart, ServingKeys
<1>5. QED
  BY <1>2, <1>3, <1>4 DEF MetricsInv, KeyHolds, NamedChangesOnly

\* The steps that report nothing.
LEMMA OtherMetrics ==
  ASSUME IInv, CacheCurrent, TypeOK', MetricsInv, OtherSteps, Count, UNCHANGED reported
  PROVE  MetricsInv'
<1>1. /\ TypeOK /\ MetricsTypes /\ \A j \in Keys : KeyHolds(j)
      /\ \A j \in Keys : Handed(pc[j], res[j])
      /\ servings[NoKey] \in {NotServed, 0} /\ NamedChangesOnly
  BY DEF IInv, MetricsInv, KeyHolds, MetricsKey
<1>2. MetricsTypes'
  <2>1. \A j \in Keys : made'[j] \in Made
    BY <1>1, CountKey
  <2>2. made' = [j \in Keys |-> made'[j]]
    BY DEF Count
  <2>3. QED
    BY <1>1, <2>1, <2>2 DEF MetricsTypes
<1>3. NoKey \in ServingKeys /\ NoKey \notin Keys /\ Keys \subseteq ServingKeys
  BY KeysAssumption DEF ServingKeys
<1> SUFFICES (\A j \in Keys : KeyHolds(j)') /\ servings'[NoKey] = servings[NoKey]
  BY <1>1, <1>2 DEF MetricsInv, KeyHolds, NamedChangesOnly
<1>4. ASSUME NEW j \in Keys, Steady(j)
      PROVE  KeyHolds(j)'
  BY <1>1, <1>4, SteadyKey
<1>5. ASSUME NEW k \in Keys, Environment(k)
      PROVE  (\A j \in Keys : KeyHolds(j)') /\ servings'[NoKey] = servings[NoKey]
  <2>1. \A j \in Keys : Steady(j)
    BY <1>1, <1>5, EnvironmentSteady
  <2>2. servings' = servings
    BY <1>1, <1>5, EnvironmentWrites
  <2>3. QED
    BY <1>4, <2>1, <2>2
<1>6. ASSUME NEW k \in Keys, Reconcile(k) \/ SetFinalizer(k) \/ LateStep(k)
      PROVE  (\A j \in Keys : KeyHolds(j)') /\ servings'[NoKey] = servings[NoKey]
  <2>1. servings' = servings
    BY <1>1, <1>6, LateStages DEF Reconcile, SetFinalizer
  <2>2. Elsewhere(k)
    BY <1>1, <1>6, WorkerElsewhere DEF WorkerStep, LateStep
  <2>3. Steady(k)
    BY <1>1, <1>6, ReconcileSteady, SetFinalizerSteady, LateSteady
  <2>4. \A j \in Keys \ {k} : Steady(j)
    BY <1>1, <2>1, <2>2, SteadyElsewhere
  <2>5. QED
    BY <1>4, <2>1, <2>3, <2>4
<1>7. ASSUME NEW k \in Keys, Informer(k) \/ FinalizeKind(k)
      PROVE  (\A j \in Keys : KeyHolds(j)') /\ servings'[NoKey] = servings[NoKey]
  <2>1. UNCHANGED api
    BY <1>7 DEF Informer, WatchEvent, Relist, Resync, FinalizeKind, objects
  <2>2. \A j \in Keys : made'[j] = made[j]
    BY <1>1, <2>1, CountKey
  <2>3. Elsewhere(k)
    BY <1>1, <1>7, WorkerElsewhere, OutsideElsewhere DEF WorkerStep
  <2>4. \A j \in ServingKeys \ {k} : servings'[j] = servings[j]
    BY <1>1, <1>7 DEF Informer, WatchEvent, Relist, Resync, FinalizeKind, Unserve, TypeOK
  <2>5. KeyHolds(k)'
    BY <1>1, <1>7, <2>2, FinalizeKindKey, InformerKey
  <2>6. \A j \in Keys \ {k} : KeyHolds(j)'
    BY <1>1, <1>3, <2>2, <2>3, <2>4, KeyElsewhere
  <2>7. QED
    BY <1>3, <2>4, <2>5, <2>6
<1>8. PICK k \in Keys : \/ Environment(k) \/ Informer(k) \/ Reconcile(k)
                        \/ WorkerStep(k) /\ ~At(k, "reconcileKind")
  BY DEF OtherSteps
<1>9. ~ReconcileKind(k) \/ ~(WorkerStep(k) /\ ~At(k, "reconcileKind"))
  BY DEF ReconcileKind
<1>10. \/ Environment(k) \/ Informer(k) \/ Reconcile(k)
       \/ SetFinalizer(k) \/ FinalizeKind(k) \/ LateStep(k)
  BY <1>8, <1>9 DEF WorkerStep, LateStep
<1>11. QED
  BY <1>5, <1>6, <1>7, <1>10

\* Every step keeps the invariant.
LEMMA StepMetrics ==
  ASSUME IInv, CacheCurrent, TypeOK', MetricsInv, [MetricsNext]_metricsVars
  PROVE  MetricsInv'
<1>1. CASE UNCHANGED metricsVars
  BY <1>1 DEF metricsVars, vars, MetricsInv, MetricsTypes, NamedChangesOnly
<1>2. ASSUME NEW k \in Keys, ReconcileKind(k), Report(k), UNCHANGED made
      PROVE  MetricsInv'
  <2>1. /\ TypeOK /\ MetricsTypes /\ \A j \in Keys : KeyHolds(j)
        /\ servings[NoKey] \in {NotServed, 0} /\ NamedChangesOnly
    BY DEF IInv, MetricsInv, KeyHolds
  <2>2. /\ KeyHolds(k)' /\ MetricsTypes'
        /\ servings'[NoKey] \in {NotServed, 0} /\ NamedChangesOnly'
        /\ \A j \in Keys \ {k} : reported'[j] = reported[j] /\ servings'[j] = servings[j]
    BY <1>2, <2>1, ReconcileKindKey
  <2>3. Elsewhere(k)
    BY <1>2, <2>1, WorkerElsewhere DEF WorkerStep
  <2>4. \A j \in Keys \ {k} : KeyHolds(j)'
    BY <1>2, <2>1, <2>2, <2>3, KeyElsewhere
  <2>5. \A j \in Keys : KeyHolds(j)'
    BY <2>2, <2>4
  <2>6. QED
    BY <2>2, <2>5 DEF MetricsInv, KeyHolds
<1>3. CASE OtherSteps /\ Count /\ UNCHANGED reported
  BY <1>3, OtherMetrics
<1>4. CASE /\ Restart
           /\ reported' = [k \in ServingKeys |-> NoReports]
           /\ made' = [k \in Keys |-> [made[k] EXCEPT !.creations = 0, !.there = Exists(api[k])]]
  BY <1>4, RestartMetrics
<1>5. QED
  BY <1>1, <1>2, <1>3, <1>4 DEF MetricsNext

\* Nothing is stored and nothing reported at first.
LEMMA InitMetrics == MetricsInit => MetricsInv
<1> SUFFICES ASSUME MetricsInit PROVE MetricsInv
  OBVIOUS
<1>1. TypeOK
  BY InitTyped DEF MetricsInit
<1>2. NoReports \in [Changes -> Nat]
  BY DEF NoReports
<1>3. ASSUME NEW k \in Keys
      PROVE  made[k] \in Made /\ KeyHolds(k)
  <2> DEFINE a == api[k]
             m == made[k]
  <2>1. /\ a \in Objects /\ a.inc \in Nat
        /\ a.inc \in {0, 1} /\ (Live(a) => a.inc = 1 /\ a.gen = 1)
    BY <1>1, KeyTyped DEF MetricsInit, Init, LegacyObject, Gone, Live, Objects
  <2>2. m = [creations |-> 0, edits |-> 0, there |-> Exists(a), before |-> [i \in 1 .. a.inc |-> 0]]
    BY DEF MetricsInit
  <2>3. [i \in 1 .. a.inc |-> 0] \in Seq(Nat) /\ Len([i \in 1 .. a.inc |-> 0]) = a.inc
    BY <2>1
  <2>4. m \in Made
    BY <2>2, <2>3 DEF Made, Exists
  <2>5. GenerationsCount(a, a, m)
    BY <2>1, <2>2 DEF GenerationsCount
  <2>6. /\ cache[k] = a /\ watch[k] = <<>> /\ pc[k] = "idle" /\ res[k] = Empty
        /\ servings[k] = NotServed /\ reported[k] = NoReports
    BY DEF MetricsInit, Init, ServingKeys
  <2>7. Len(m.before) = a.inc /\ m.creations = 0 /\ m.there = Exists(a) /\ m.edits = 0
    <3> HIDE DEF m
    <3>1. m.before = [i \in 1 .. a.inc |-> 0] /\ m.creations = 0 /\ m.there = Exists(a) /\ m.edits = 0
      BY <2>2
    <3>2. QED
      BY <2>3, <3>1
  <2> HIDE DEF a, m
  <2>8. MetricsKey(a, a, <<>>, "idle", Empty, NotServed, NoReports, m)
    BY <2>1, <2>4, <2>5, <2>7, KeyRestarted
  <2>9. QED
    BY <2>4, <2>6, <2>8 DEF KeyHolds, a, m
<1>4. MetricsTypes
  BY <1>2, <1>3 DEF MetricsTypes, MetricsInit
<1>5. servings[NoKey] = NotServed /\ reported[NoKey] = NoReports
  BY DEF MetricsInit, Init, ServingKeys
<1>6. QED
  BY <1>3, <1>4, <1>5 DEF MetricsInv, KeyHolds, NamedChangesOnly

\* The reports are accounted for: whatever the informer has missed, however often
\* the operator restarts, fails and comes again, no object that a worker may still
\* see can be reported of more often than it, and all before it, was changed.
THEOREM ReportsAreAccountedFor == MetricsSpec => []MetricsInv
<1>1. MetricsInit => Init /\ MetricsInv
  BY InitMetrics DEF MetricsInit
<1>2. [MetricsNext]_metricsVars => [Next]_vars
  BY MetricsStepIsStep
<1>3. MetricsSpec => Spec
  BY <1>1, <1>2, PTL DEF MetricsSpec, Spec
<1>4. MetricsSpec => [](IInv /\ TypeOK /\ CacheCurrent)
  BY <1>3, Invariant, TypeCorrect, CacheIsCurrent, PTL
<1>5. IInv /\ CacheCurrent /\ TypeOK' /\ MetricsInv /\ [MetricsNext]_metricsVars => MetricsInv'
  BY StepMetrics
<1>6. QED
  BY <1>1, <1>4, <1>5, PTL DEF MetricsSpec

\* What is reported has happened: the counters of ReportKnativeservingChange never
\* run ahead of the creations and edits that users have made.
THEOREM ReportsHaveHappened == MetricsSpec => []NoPhantomChanges
<1>1. MetricsInv => NoPhantomChanges
  BY DEF MetricsInv, MetricsKey, Accounted, NoPhantomChanges, Creations, There
<1>2. QED
  BY <1>1, ReportsAreAccountedFor, PTL

\* Nothing is reported of the KnativeServing without a name that a failed patch
\* returns.
THEOREM ReportsHaveNames == MetricsSpec => []NamedChangesOnly
<1>1. MetricsInv => NamedChangesOnly
  BY DEF MetricsInv
<1>2. QED
  BY <1>1, ReportsAreAccountedFor, PTL

=============================================================================
