--------------------------- MODULE KVStoreProofs ---------------------------
(***************************************************************************)
(* What the store of amber:kv keeps to for any keys, values, times and     *)
(* number of operations, crashes and faults: a store that is alone on its  *)
(* path can be read back from its log at any moment, and shows its caller  *)
(* what its operations have made. With two stores on a path one goes on    *)
(* writing to the file that the other has replaced, so these theorems have *)
(* one store as their hypothesis.                                          *)
(***************************************************************************)
EXTENDS KVStore, FiniteSetTheorems, SequenceTheorems, NaturalsInduction, WellFoundedInduction, TLAPS

-----------------------------------------------------------------------------
(* Maps and what a caller sees of them *)

\* The kinds of records.
LEMMA RecordFacts ==
  /\ NL \in Record /\ Torn \in Record /\ ClearRec \in Record
  /\ NL.op = "nl" /\ Torn.op = "torn" /\ ClearRec.op = "clear"
  /\ \A k \in Key : DelRec(k) \in Record /\ DelRec(k).op = "del" /\ DelRec(k).key = k
  /\ \A k \in Key, v \in Value, e \in Nat \cup {NoExp} :
       /\ SetRec(k, v, e) \in Record /\ SetRec(k, v, e).op = "set"
       /\ SetRec(k, v, e).key = k /\ SetRec(k, v, e).val = v /\ SetRec(k, v, e).exp = e
  /\ \A r \in Record :
       \/ r = NL \/ r = Torn \/ r = ClearRec
       \/ r.op = "del" /\ r.key \in Key
       \/ /\ r.op = "set" /\ r.key \in Key /\ r.val \in Value /\ r.exp \in Nat \cup {NoExp}
          /\ [val |-> r.val, exp |-> r.exp] \in Entry
<1>1. /\ NL \in Record /\ Torn \in Record /\ ClearRec \in Record
      /\ NL.op = "nl" /\ Torn.op = "torn" /\ ClearRec.op = "clear"
  BY DEF Record, NL, Torn, ClearRec
<1>2. \A k \in Key : DelRec(k) \in Record /\ DelRec(k).op = "del" /\ DelRec(k).key = k
  BY DEF Record, DelRec
<1>3. ASSUME NEW k \in Key, NEW v \in Value, NEW e \in Nat \cup {NoExp}
      PROVE  /\ SetRec(k, v, e) \in Record /\ SetRec(k, v, e).op = "set"
             /\ SetRec(k, v, e).key = k /\ SetRec(k, v, e).val = v /\ SetRec(k, v, e).exp = e
  BY DEF Record, SetRec
<1>4. ASSUME NEW r \in Record
      PROVE  \/ r = NL \/ r = Torn \/ r = ClearRec
             \/ r.op = "del" /\ r.key \in Key
             \/ /\ r.op = "set" /\ r.key \in Key /\ r.val \in Value /\ r.exp \in Nat \cup {NoExp}
                /\ [val |-> r.val, exp |-> r.exp] \in Entry
  <2>1. CASE r \in {NL, Torn, ClearRec}
    BY <2>1
  <2>2. CASE r \in {DelRec(k) : k \in Key}
    BY <2>2 DEF DelRec
  <2>3. CASE r \in [op : {"set"}, key : Key, val : Value, exp : Nat \cup {NoExp}]
    BY <2>3 DEF Entry
  <2> QED
    BY <2>1, <2>2, <2>3 DEF Record
<1> QED
  BY <1>1, <1>2, <1>3, <1>4

\* What a record does to a map.
LEMMA ApplyFacts ==
  ASSUME NEW m, NEW r \in Record, r # NL, r # Torn
  PROVE  /\ r.op = "set" => Apply(m, r) = Put(m, r.key, [val |-> r.val, exp |-> r.exp])
         /\ r.op = "del" => Apply(m, r) = Without(m, r.key)
         /\ r.op = "clear" => Apply(m, r) = <<>>
         /\ r.op \in {"set", "del", "clear"}
         /\ r.op \in {"set", "del"} => r.key \in Key
<1>1. r.op \in {"set", "del", "clear"} /\ (r.op \in {"set", "del"} => r.key \in Key)
  BY RecordFacts
<1>2. CASE r.op = "set"
  <2>1. Apply(m, r) = Put(m, r.key, [val |-> r.val, exp |-> r.exp])
    BY <1>2 DEF Apply
  <2> QED
    BY <1>1, <1>2, <2>1
<1>3. CASE r.op = "del"
  <2>1. Apply(m, r) = Without(m, r.key)
    BY <1>3 DEF Apply
  <2> QED
    BY <1>1, <1>3, <2>1
<1>4. CASE r.op = "clear"
  <2>1. Apply(m, r) = <<>>
    BY <1>4 DEF Apply, Empty
  <2> QED
    BY <1>1, <1>4, <2>1
<1> QED
  BY <1>1, <1>2, <1>3, <1>4

\* Records make maps of maps.
LEMMA ApplyType ==
  ASSUME NEW m, IsMap(m), NEW r \in Record, r # NL, r # Torn
  PROVE  IsMap(Apply(m, r)) /\ (r.op = "set" => IsMap(Without(m, r.key)))
<1>1. r.op = "set" => [val |-> r.val, exp |-> r.exp] \in Entry
  BY RecordFacts
<1>2. /\ IsFiniteSet(DOMAIN m) /\ DOMAIN m \subseteq Key /\ \A k \in DOMAIN m : m[k] \in Entry
      /\ IsFiniteSet(DOMAIN m \cup {r.key}) /\ IsFiniteSet({})
  BY FS_AddElement, FS_EmptySet DEF IsMap
<1>3. IsMap(Apply(m, r))
  <2>1. PICK a : a = Apply(m, r)
    OBVIOUS
  <2>2. CASE r.op = "set"
    <3>1. /\ DOMAIN a = DOMAIN m \cup {r.key} /\ a[r.key] = [val |-> r.val, exp |-> r.exp]
          /\ \A k \in DOMAIN m : k # r.key => a[k] = m[k]
          /\ r.key \in Key
      <4>1. a = Put(m, r.key, [val |-> r.val, exp |-> r.exp]) /\ r.key \in Key
        BY <2>1, <2>2, ApplyFacts
      <4> QED
        BY <4>1 DEF Put
    <3>2. IsMap(a)
      BY <1>1, <1>2, <2>2, <3>1 DEF IsMap
    <3> QED
      BY <2>1, <3>2
  <2>3. CASE r.op = "del"
    <3>1. DOMAIN a = DOMAIN m \ {r.key} /\ \A k \in DOMAIN m : k # r.key => a[k] = m[k]
      <4>1. a = Without(m, r.key)
        BY <2>1, <2>3, ApplyFacts
      <4> QED
        BY <4>1 DEF Without
    <3>2. IsFiniteSet(DOMAIN a)
      BY <1>2, <3>1, FS_Subset
    <3>3. IsMap(a)
      BY <1>2, <3>1, <3>2 DEF IsMap
    <3> QED
      BY <2>1, <3>3
  <2>4. CASE r.op = "clear"
    <3>1. DOMAIN a = {}
      <4>1. a = <<>>
        BY <2>1, <2>4, ApplyFacts
      <4> QED
        BY <4>1
    <3>2. IsMap(a)
      BY <1>2, <3>1 DEF IsMap
    <3> QED
      BY <2>1, <3>2
  <2> QED
    BY <2>2, <2>3, <2>4, ApplyFacts
<1>4. IsMap(Without(m, r.key))
  <2>1. /\ DOMAIN Without(m, r.key) \subseteq DOMAIN m
        /\ \A k \in DOMAIN Without(m, r.key) : Without(m, r.key)[k] = m[k]
    BY DEF Without
  <2> QED
    BY <2>1, FS_Subset DEF IsMap
<1> QED
  BY <1>3, <1>4

\* A caller sees the entry of k at time t.
Alive(m, k, t) == k \in DOMAIN m /\ ~IsExpired(m[k], t)

\* A caller cannot tell two maps apart.
Same(m, n, t) ==
  \A k : (Alive(m, k, t) <=> Alive(n, k, t)) /\ (Alive(m, k, t) => m[k] = n[k])

\* That is what Live compares.
LEMMA LiveSame ==
  ASSUME NEW m, NEW n, NEW t
  PROVE  Live(m, t) = Live(n, t) <=> Same(m, n, t)
<1>1. ASSUME NEW q
      PROVE  /\ \A k : k \in DOMAIN Live(q, t) <=> Alive(q, k, t)
             /\ \A k : Alive(q, k, t) => Live(q, t)[k] = q[k]
             /\ Live(q, t) = [k \in DOMAIN Live(q, t) |-> Live(q, t)[k]]
  BY DEF Live, Alive
<1>2. ASSUME Live(m, t) = Live(n, t) PROVE Same(m, n, t)
  <2> SUFFICES ASSUME NEW k
               PROVE  (Alive(m, k, t) <=> Alive(n, k, t)) /\ (Alive(m, k, t) => m[k] = n[k])
    BY DEF Same
  <2>1. Alive(m, k, t) <=> Alive(n, k, t)
    BY <1>1, <1>2
  <2>2. ASSUME Alive(m, k, t) PROVE m[k] = n[k]
    <3>1. Live(m, t)[k] = m[k] /\ Live(n, t)[k] = n[k]
      BY <1>1, <2>1, <2>2
    <3> QED
      BY <1>2, <3>1
  <2> QED
    BY <2>1, <2>2
<1>3. ASSUME Same(m, n, t) PROVE Live(m, t) = Live(n, t)
  <2>1. DOMAIN Live(m, t) = DOMAIN Live(n, t)
    BY <1>1, <1>3 DEF Same
  <2>2. \A k \in DOMAIN Live(m, t) : Live(m, t)[k] = Live(n, t)[k]
    BY <1>1, <1>3 DEF Same
  <2> QED
    BY <1>1, <2>1, <2>2
<1> QED
  BY <1>2, <1>3

\* What cannot be told apart stays so as time passes.
LEMMA SameTime ==
  ASSUME NEW m, IsMap(m), NEW n, IsMap(n), NEW t \in Nat, NEW u \in Nat, t <= u, Same(m, n, t)
  PROVE  Same(m, n, u)
<1>1. \A e \in Entry : ~IsExpired(e, u) => ~IsExpired(e, t)
  BY DEF IsExpired, Entry, NoExp
<1> QED
  BY <1>1 DEF Same, Alive, IsMap

\* The relation is an equivalence.
LEMMA SameOrder ==
  \A m, n, q, t : /\ Same(m, m, t) /\ (Same(m, n, t) => Same(n, m, t))
                  /\ Same(m, n, t) /\ Same(n, q, t) => Same(m, q, t)
  BY DEF Same

\* What a caller sees after a record.
LEMMA AliveApply ==
  ASSUME NEW m, NEW r \in Record, r # NL, r # Torn, NEW k, NEW t
  PROVE  /\ r.op = "set" =>
              /\ Alive(Apply(m, r), k, t) <=>
                   IF k = r.key THEN ~IsExpired(r, t) ELSE Alive(m, k, t)
              /\ k = r.key => Apply(m, r)[k] = [val |-> r.val, exp |-> r.exp]
         /\ r.op = "del" =>
              (Alive(Apply(m, r), k, t) <=> Alive(m, k, t) /\ k # r.key)
         /\ r.op = "clear" => ~Alive(Apply(m, r), k, t)
<1>1. PICK a : a = Apply(m, r)
  OBVIOUS
<1>2. CASE r.op = "set"
  <2>1. /\ DOMAIN a = DOMAIN m \cup {r.key} /\ a[r.key] = [val |-> r.val, exp |-> r.exp]
        /\ \A x \in DOMAIN m : x # r.key => a[x] = m[x]
    <3>1. a = Put(m, r.key, [val |-> r.val, exp |-> r.exp])
      BY <1>1, <1>2, ApplyFacts
    <3> QED
      BY <3>1 DEF Put
  <2>2. a[r.key].exp = r.exp
    BY <2>1
  <2>3. /\ Alive(a, k, t) <=> IF k = r.key THEN ~IsExpired(r, t) ELSE Alive(m, k, t)
        /\ k # r.key => (Alive(a, k, t) => a[k] = m[k])
    BY <2>1, <2>2 DEF Alive, IsExpired
  <2> QED
    BY <1>1, <1>2, <2>1, <2>3
<1>3. CASE r.op = "del"
  <2>1. DOMAIN a = DOMAIN m \ {r.key} /\ \A x \in DOMAIN m : x # r.key => a[x] = m[x]
    <3>1. a = Without(m, r.key)
      BY <1>1, <1>3, ApplyFacts
    <3> QED
      BY <3>1 DEF Without
  <2>2. /\ Alive(a, k, t) <=> Alive(m, k, t) /\ k # r.key
        /\ Alive(a, k, t) => a[k] = m[k]
    BY <2>1 DEF Alive
  <2> QED
    BY <1>1, <1>3, <2>2
<1>4. CASE r.op = "clear"
  <2>1. DOMAIN a = {}
    <3>1. a = <<>>
      BY <1>1, <1>4, ApplyFacts
    <3> QED
      BY <3>1
  <2>2. ~Alive(a, k, t)
    BY <2>1 DEF Alive
  <2> QED
    BY <1>1, <1>4, <2>2
<1> QED
  BY <1>2, <1>3, <1>4, ApplyFacts

\* Other entries stay as they are.
LEMMA ApplyOther ==
  ASSUME NEW m, NEW r \in Record, r # NL, r # Torn, NEW k, NEW t,
         r.op # "set" \/ k # r.key, Alive(Apply(m, r), k, t)
  PROVE  Apply(m, r)[k] = m[k]
<1>1. PICK a : a = Apply(m, r)
  OBVIOUS
<1>2. k \in DOMAIN a
  BY <1>1 DEF Alive
<1>3. a[k] = m[k]
  <2>1. CASE r.op = "set"
    <3>1. a = Put(m, r.key, [val |-> r.val, exp |-> r.exp])
      BY <1>1, <2>1, ApplyFacts
    <3> QED
      BY <1>2, <2>1, <3>1 DEF Put
  <2>2. CASE r.op = "del"
    <3>1. a = Without(m, r.key)
      BY <1>1, <2>2, ApplyFacts
    <3> QED
      BY <1>2, <3>1 DEF Without
  <2>3. CASE r.op = "clear"
    <3>1. a = <<>>
      BY <1>1, <2>3, ApplyFacts
    <3> QED
      BY <1>2, <3>1
  <2> QED
    BY <2>1, <2>2, <2>3, ApplyFacts
<1> QED
  BY <1>1, <1>3

\* A record does the same to maps that cannot be told apart.
LEMMA ApplySame ==
  ASSUME NEW m, NEW n, NEW r \in Record, r # NL, r # Torn, NEW u, Same(m, n, u)
  PROVE  Same(Apply(m, r), Apply(n, r), u)
<1>1. PICK a, b : a = Apply(m, r) /\ b = Apply(n, r)
  OBVIOUS
<1> SUFFICES ASSUME NEW k
             PROVE  (Alive(a, k, u) <=> Alive(b, k, u)) /\ (Alive(a, k, u) => a[k] = b[k])
  BY <1>1 DEF Same
<1>2. (Alive(m, k, u) <=> Alive(n, k, u)) /\ (Alive(m, k, u) => m[k] = n[k])
  BY DEF Same
<1>3. /\ r.op = "set" =>
           /\ Alive(a, k, u) <=> IF k = r.key THEN ~IsExpired(r, u) ELSE Alive(m, k, u)
           /\ k = r.key => a[k] = [val |-> r.val, exp |-> r.exp]
      /\ r.op = "del" => (Alive(a, k, u) <=> Alive(m, k, u) /\ k # r.key)
      /\ r.op = "clear" => ~Alive(a, k, u)
  BY <1>1, AliveApply
<1>4. /\ r.op = "set" =>
           /\ Alive(b, k, u) <=> IF k = r.key THEN ~IsExpired(r, u) ELSE Alive(n, k, u)
           /\ k = r.key => b[k] = [val |-> r.val, exp |-> r.exp]
      /\ r.op = "del" => (Alive(b, k, u) <=> Alive(n, k, u) /\ k # r.key)
      /\ r.op = "clear" => ~Alive(b, k, u)
  BY <1>1, AliveApply
<1>5. r.op \in {"set", "del", "clear"}
  BY ApplyFacts
<1>6. ASSUME r.op # "set" \/ k # r.key
      PROVE  (Alive(a, k, u) => a[k] = m[k]) /\ (Alive(b, k, u) => b[k] = n[k])
  BY <1>1, <1>6, ApplyOther
<1> QED
  BY <1>2, <1>3, <1>4, <1>5, <1>6

\* Replaying a record makes what applying it made, for a caller that comes later.
LEMMA ReplaySame ==
  ASSUME NEW m, NEW n, NEW r \in Record, r # NL, r # Torn,
         NEW t \in Nat, NEW u \in Nat, t <= u, Same(m, n, u)
  PROVE  Same(ReplayRecord(m, r, t), Apply(n, r), u)
<1>1. Same(Apply(m, r), Apply(n, r), u)
  BY ApplySame
<1>2. CASE r.op = "set" /\ IsExpired(r, t)
  <2>1. PICK a, b : a = Without(m, r.key) /\ b = Apply(n, r)
    OBVIOUS
  <2>2. ReplayRecord(m, r, t) = a
    BY <1>2, <2>1 DEF ReplayRecord
  <2>3. IsExpired(r, u)
    <3>1. r.exp \in Nat \cup {NoExp}
      BY <1>2, RecordFacts
    <3> QED
      BY <1>2, <3>1 DEF IsExpired
  <2>4. DOMAIN a = DOMAIN m \ {r.key} /\ \A k \in DOMAIN a : a[k] = m[k]
    BY <2>1 DEF Without
  <2>5. SUFFICES ASSUME NEW k
                 PROVE  (Alive(a, k, u) <=> Alive(b, k, u)) /\ (Alive(a, k, u) => a[k] = b[k])
    BY <2>1, <2>2 DEF Same
  <2>6. (Alive(m, k, u) <=> Alive(n, k, u)) /\ (Alive(m, k, u) => m[k] = n[k])
    BY DEF Same
  <2>7. (Alive(a, k, u) <=> Alive(m, k, u) /\ k # r.key) /\ (Alive(a, k, u) => a[k] = m[k])
    BY <2>4 DEF Alive
  <2>8. /\ Alive(b, k, u) <=> Alive(n, k, u) /\ k # r.key
        /\ Alive(b, k, u) => b[k] = n[k]
    <3>1. Alive(b, k, u) <=> IF k = r.key THEN ~IsExpired(r, u) ELSE Alive(n, k, u)
      BY <1>2, <2>1, AliveApply
    <3>2. ASSUME k # r.key, Alive(Apply(n, r), k, u) PROVE Apply(n, r)[k] = n[k]
      BY <3>2, ApplyOther
    <3> QED
      BY <1>2, <2>1, <2>3, <3>1, <3>2
  <2> QED
    BY <2>6, <2>7, <2>8
<1>3. CASE ~(r.op = "set" /\ IsExpired(r, t))
  <2>1. ReplayRecord(m, r, t) = Apply(m, r)
    BY <1>3 DEF ReplayRecord
  <2> QED
    BY <1>1, <2>1
<1> QED
  BY <1>2, <1>3


-----------------------------------------------------------------------------
(* Reading a log. Parsed goes through the writes one by one, so what it is   *)
(* for every file is shown by its least counterexample.                      *)

\* A set of numbers has a least one.
LEMMA LeastNumber ==
  ASSUME NEW T \in SUBSET Nat, T # {}
  PROVE  \E x \in T : \A y \in T : x <= y
<1>1. \A x, y \in Nat : y < x => <<y, x>> \in OpToRel(<, Nat)
  BY DEF OpToRel
<1>2. \E R : IsWellFoundedOn(R, Nat) /\ \A x, y \in Nat : y < x => <<y, x>> \in R
  BY <1>1, NatLessThanWellFounded, Zenon
<1>3. PICK R : IsWellFoundedOn(R, Nat) /\ \A x, y \in Nat : y < x => <<y, x>> \in R
  BY <1>2
<1>4. PICK x \in T : \A y \in T : ~(<<y, x>> \in R)
  BY <1>3, WFMin
<1>5. \A y \in T : ~(y < x)
  BY <1>3, <1>4, Zenon
<1>6. \A y \in T : x <= y
  BY <1>5
<1> QED
  BY <1>6

\* Before the first write
Start == [map |-> Empty, line |-> <<>>]

\* f[m] is the state after the first m writes.
Reads(f, file, t, n) == f[0] = Start /\ \A m \in 1..n : f[m] = ReplayStep(f[m - 1], file[m], t)

\* Two readings of the same writes agree.
LEMMA ReadsAgree ==
  ASSUME NEW a, NEW b, NEW t, NEW f, NEW g, NEW n \in Nat, Reads(f, a, t, n),
         Reads(g, b, t, n), \A m \in 1..n : a[m] = b[m]
  PROVE  \A m \in 0..n : f[m] = g[m]
<1> SUFFICES ASSUME ~(\A m \in 0..n : f[m] = g[m])
             PROVE  FALSE
  OBVIOUS
<1> DEFINE T == {m \in 0..n : f[m] # g[m]}
<1>1. T # {} /\ T \in SUBSET Nat
  OBVIOUS
<1>2. PICK x \in T : \A y \in T : x <= y
  BY <1>1, LeastNumber
<1>3. x \in 0..n /\ x # 0
  BY <1>2 DEF Reads
<1>4. x - 1 \in 0..n /\ x \in 1..n /\ ~(x <= x - 1)
  BY <1>3
<1>5. f[x - 1] = g[x - 1]
  BY <1>2, <1>4
<1>6. f[x] = ReplayStep(f[x - 1], a[x], t) /\ g[x] = ReplayStep(g[x - 1], b[x], t)
  BY <1>4 DEF Reads
<1> QED
  BY <1>2, <1>4, <1>5, <1>6

\* There is a reading.
LEMMA ReadsExist ==
  ASSUME NEW file, NEW t, NEW l \in Nat
  PROVE  \E f : f = [n \in 0..l |-> f[n]] /\ Reads(f, file, t, l)
<1> DEFINE P(n) == \E f : f = [m \in 0..n |-> f[m]] /\ Reads(f, file, t, n)
           T == {n \in 0..l : ~P(n)}
<1> SUFFICES ASSUME T # {}
             PROVE  FALSE
  OBVIOUS
<1>b. T \in SUBSET Nat
  OBVIOUS
<1> HIDE DEF P
<1>1. PICK x \in T : \A y \in T : x <= y
  BY <1>b, LeastNumber
<1>2. P(0)
  <2> DEFINE h == [n \in 0..0 |-> Start]
  <2>1. h = [m \in 0..0 |-> h[m]] /\ h[0] = Start
    OBVIOUS
  <2> HIDE DEF h
  <2>2. Reads(h, file, t, 0)
    BY <2>1 DEF Reads
  <2> QED
    BY <2>1, <2>2 DEF P
<1>3. x \in 1..l /\ x - 1 \in 0..l /\ ~(x <= x - 1)
  BY <1>1, <1>2
<1>4. PICK f : f = [m \in 0..(x - 1) |-> f[m]] /\ Reads(f, file, t, x - 1)
  BY <1>1, <1>3 DEF P
<1> DEFINE g == [n \in 0..x |-> IF n = x THEN ReplayStep(f[x - 1], file[x], t) ELSE f[n]]
<1>7. g = [n \in 0..x |-> g[n]]
  OBVIOUS
<1>8. g[x] = ReplayStep(f[x - 1], file[x], t) /\ \A n \in 0..(x - 1) : g[n] = f[n]
  BY <1>3
<1> HIDE DEF g
<1>9. Reads(g, file, t, x)
  <2>1. g[0] = Start
    BY <1>3, <1>4, <1>8, SMTT(30) DEF Reads
  <2>2. ASSUME NEW m \in 1..x
        PROVE  g[m] = ReplayStep(g[m - 1], file[m], t)
    <3>1. m - 1 \in 0..(x - 1) /\ g[m - 1] = f[m - 1]
      BY <1>3, <1>8
    <3>2. CASE m = x
      BY <1>8, <3>1, <3>2
    <3>3. CASE m # x
      <4>1. m \in 1..(x - 1) /\ m \in 0..(x - 1)
        BY <1>3, <3>3
      <4>2. g[m] = f[m]
        BY <1>8, <4>1
      <4>3. f[m] = ReplayStep(f[m - 1], file[m], t)
        BY <1>4, <4>1 DEF Reads
      <4> QED
        BY <3>1, <4>2, <4>3
    <3> QED
      BY <3>2, <3>3
  <2> QED
    BY <2>1, <2>2 DEF Reads
<1> QED
  BY <1>1, <1>7, <1>9 DEF P

\* Parsed is the last state of the reading.
LEMMA ParsedReads ==
  ASSUME NEW S, NEW file \in Seq(S), NEW t
  PROVE  \E f : Reads(f, file, t, Len(file)) /\ Parsed(file, t) = f[Len(file)]
<1> DEFINE Def(f) == [n \in 0..Len(file) |->
             IF n = 0 THEN [map |-> Empty, line |-> <<>>] ELSE ReplayStep(f[n - 1], file[n], t)]
           state == CHOOSE f : f = Def(f)
<1>a. Len(file) \in Nat
  OBVIOUS
<1>1. PICK f : f = [n \in 0..Len(file) |-> f[n]] /\ Reads(f, file, t, Len(file))
  BY <1>a, ReadsExist
<1>2. f = Def(f)
  <2>1. ASSUME NEW n \in 0..Len(file)
        PROVE  f[n] = Def(f)[n]
    <3>1. CASE n = 0
      BY <1>1, <3>1 DEF Reads, Start
    <3>2. CASE n # 0
      <4>1. n \in 1..Len(file)
        BY <3>2, <1>a
      <4>2. f[n] = ReplayStep(f[n - 1], file[n], t)
        BY <1>1, <4>1 DEF Reads
      <4> QED
        BY <3>2, <4>2
    <3> QED
      BY <3>1, <3>2
  <2> QED
    BY <1>1, <2>1
<1>3. state = Def(state)
  BY <1>2
<1>4. Reads(state, file, t, Len(file))
  <2> HIDE DEF state
  <2>1. 0 \in 0..Len(file) /\ \A m \in 1..Len(file) : m \in 0..Len(file) /\ m # 0
    BY <1>a
  <2>2. state[0] = Start
    BY <1>3, <2>1 DEF Start
  <2>3. \A m \in 1..Len(file) : state[m] = ReplayStep(state[m - 1], file[m], t)
    BY <1>3, <2>1
  <2> QED
    BY <2>2, <2>3 DEF Reads
<1>5. Parsed(file, t) = state[Len(file)]
  BY DEF Parsed
<1> QED
  BY <1>4, <1>5

\* An empty file.
LEMMA ParsedEmpty == \A t : Parsed(<<>>, t) = Start
<1> TAKE t
<1>1. <<>> \in Seq({}) /\ Len(<<>>) = 0
  OBVIOUS
<1>2. PICK f : Reads(f, <<>>, t, Len(<<>>)) /\ Parsed(<<>>, t) = f[Len(<<>>)]
  BY <1>1, ParsedReads
<1> QED
  BY <1>1, <1>2 DEF Reads

\* One more write.
LEMMA ParsedAppend ==
  ASSUME NEW S, NEW file \in Seq(S), NEW w \in S, NEW t
  PROVE  Parsed(Append(file, w), t) = ReplayStep(Parsed(file, t), w, t)
<1> DEFINE l == Append(file, w)
<1>a. /\ Len(file) \in Nat /\ l \in Seq(S) /\ Len(l) = Len(file) + 1
      /\ l[Len(file) + 1] = w /\ \A m \in 1..Len(file) : l[m] = file[m]
  OBVIOUS
<1> HIDE DEF l
<1>1. PICK f : Reads(f, file, t, Len(file)) /\ Parsed(file, t) = f[Len(file)]
  BY ParsedReads
<1>2. PICK g : Reads(g, l, t, Len(l)) /\ Parsed(l, t) = g[Len(l)]
  BY <1>a, ParsedReads
<1>3. Reads(g, l, t, Len(file))
  BY <1>2, <1>a DEF Reads
<1>4. f[Len(file)] = g[Len(file)]
  <2>1. Len(file) \in Nat /\ \A m \in 1..Len(file) : file[m] = l[m]
    BY <1>a
  <2>2. \A m \in 0..Len(file) : f[m] = g[m]
    BY <1>1, <1>3, <2>1, ReadsAgree, SMTT(30)
  <2> QED
    BY <2>2, <1>a
<1>5. Len(file) + 1 \in 1..Len(l) /\ (Len(file) + 1) - 1 = Len(file)
  BY <1>a
<1>6. g[Len(file) + 1] = ReplayStep(g[Len(file)], w, t)
  BY <1>2, <1>5, <1>a DEF Reads
<1> QED
  BY <1>1, <1>2, <1>4, <1>6, <1>a DEF l

\* What a reading is made of
IsState(state) == IsMap(state.map) /\ state.line \in Seq(Record \ {NL})

\* A line makes a map of a map.
LEMMA LineType ==
  ASSUME NEW m, IsMap(m), NEW line \in Seq(Record \ {NL}), NEW t
  PROVE  IsMap(ReplayLine(m, line, t))
<1>1. CASE Len(line) = 1 /\ line[1] # Torn
  <2>1. PICK r : r = line[1]
    OBVIOUS
  <2>2. r \in Record /\ r # NL /\ r # Torn
    BY <1>1, <2>1
  <2>3. IsMap(Apply(m, r)) /\ (r.op = "set" => IsMap(Without(m, r.key)))
    BY <2>2, ApplyType
  <2>4. IsMap(ReplayRecord(m, r, t))
    BY <2>3 DEF ReplayRecord
  <2> QED
    BY <1>1, <2>1, <2>4 DEF ReplayLine
<1>2. CASE ~(Len(line) = 1 /\ line[1] # Torn)
  BY <1>2 DEF ReplayLine
<1> QED
  BY <1>1, <1>2

\* Reading keeps to it.
LEMMA StepType ==
  ASSUME NEW state, IsState(state), NEW w \in Record, NEW t
  PROVE  /\ IsState(ReplayStep(state, w, t))
         /\ w = NL => /\ ReplayStep(state, w, t).map = ReplayLine(state.map, state.line, t)
                      /\ ReplayStep(state, w, t).line = <<>>
         /\ w # NL => /\ ReplayStep(state, w, t).map = state.map
                      /\ ReplayStep(state, w, t).line = Append(state.line, w)
<1>1. CASE w = NL
  <2>1. ReplayStep(state, w, t) = [map |-> ReplayLine(state.map, state.line, t), line |-> <<>>]
    BY <1>1 DEF ReplayStep
  <2>2. IsMap(ReplayLine(state.map, state.line, t))
    BY LineType DEF IsState
  <2> QED
    BY <1>1, <2>1, <2>2 DEF IsState
<1>2. CASE w # NL
  <2>1. ReplayStep(state, w, t) = [map |-> state.map, line |-> Append(state.line, w)]
    BY <1>2 DEF ReplayStep
  <2>2. Append(state.line, w) \in Seq(Record \ {NL})
    BY <1>2 DEF IsState
  <2> QED
    BY <1>2, <2>1, <2>2 DEF IsState
<1> QED
  BY <1>1, <1>2


\* Every state of a reading is one.
LEMMA ReadsType ==
  ASSUME NEW file \in Seq(Record), NEW t, NEW f, Reads(f, file, t, Len(file))
  PROVE  \A m \in 0..Len(file) : IsState(f[m])
<1>a. Len(file) \in Nat
  OBVIOUS
<1> DEFINE T == {m \in 0..Len(file) : ~IsState(f[m])}
<1> SUFFICES ASSUME T # {}
             PROVE  FALSE
  OBVIOUS
<1>1. T \in SUBSET Nat
  BY <1>a
<1>2. PICK x \in T : \A y \in T : x <= y
  BY <1>1, LeastNumber
<1>3. IsState(f[0])
  <2>1. f[0] = [map |-> <<>>, line |-> <<>>]
    BY DEF Reads, Start, Empty
  <2>2. IsMap(<<>>)
    BY FS_EmptySet DEF IsMap
  <2> QED
    BY <2>1, <2>2 DEF IsState
<1>4. x \in 1..Len(file) /\ x - 1 \in 0..Len(file) /\ ~(x <= x - 1) /\ x \in T
  BY <1>2, <1>3, <1>a
<1>5. IsState(f[x - 1])
  BY <1>2, <1>4
<1>6. f[x] = ReplayStep(f[x - 1], file[x], t) /\ file[x] \in Record
  BY <1>4 DEF Reads
<1>7. IsState(f[x])
  BY <1>5, <1>6, StepType
<1> QED
  BY <1>4, <1>7

\* What a file is read as has its type.
LEMMA ParsedType ==
  ASSUME NEW file \in Seq(Record), NEW t
  PROVE  IsState(Parsed(file, t)) /\ IsMap(Replay(file, t))
<1>1. PICK f : Reads(f, file, t, Len(file)) /\ Parsed(file, t) = f[Len(file)]
  BY ParsedReads
<1>2. IsState(Parsed(file, t))
  <2>1. Len(file) \in 0..Len(file)
    OBVIOUS
  <2> QED
    BY <1>1, <2>1, ReadsType
<1>3. IsMap(Replay(file, t))
  BY <1>2, LineType DEF IsState, Replay
<1> QED
  BY <1>2, <1>3

\* A line does the same to maps that cannot be told apart, read now or earlier.
LEMMA LineSame ==
  ASSUME NEW m, NEW n, NEW line \in Seq(Record \ {NL}), NEW t \in Nat, NEW u \in Nat, t <= u,
         Same(m, n, u)
  PROVE  Same(ReplayLine(m, line, t), ReplayLine(n, line, u), u)
<1>1. CASE Len(line) = 1 /\ line[1] # Torn
  <2>1. PICK r : r = line[1]
    OBVIOUS
  <2>2. r \in Record /\ r # NL /\ r # Torn
    BY <1>1, <2>1
  <2>3. Same(n, n, u)
    BY SameOrder
  <2>4. u <= u
    OBVIOUS
  <2>5. Same(ReplayRecord(m, r, t), Apply(n, r), u)
    BY <2>2, ReplaySame
  <2>6. Same(ReplayRecord(n, r, u), Apply(n, r), u)
    BY <2>2, <2>3, <2>4, ReplaySame
  <2>7. Same(ReplayRecord(m, r, t), ReplayRecord(n, r, u), u)
    BY <2>5, <2>6, SameOrder
  <2> QED
    BY <1>1, <2>1, <2>7 DEF ReplayLine
<1>2. CASE ~(Len(line) = 1 /\ line[1] # Torn)
  BY <1>2 DEF ReplayLine
<1> QED
  BY <1>1, <1>2

\* A file read earlier shows the same to a caller that comes later.
LEMMA ParsedTime ==
  ASSUME NEW file \in Seq(Record), NEW t \in Nat, NEW u \in Nat, t <= u
  PROVE  /\ Parsed(file, t).line = Parsed(file, u).line
         /\ Same(Replay(file, t), Replay(file, u), u)
<1>a. Len(file) \in Nat
  OBVIOUS
<1>1. PICK f : Reads(f, file, t, Len(file)) /\ Parsed(file, t) = f[Len(file)]
  BY ParsedReads
<1>2. PICK g : Reads(g, file, u, Len(file)) /\ Parsed(file, u) = g[Len(file)]
  BY ParsedReads
<1>3. \A m \in 0..Len(file) : IsState(f[m]) /\ IsState(g[m])
  BY <1>1, <1>2, ReadsType
<1> DEFINE P(m) == f[m].line = g[m].line /\ Same(f[m].map, g[m].map, u)
           T == {m \in 0..Len(file) : ~P(m)}
<1>4. ASSUME T # {} PROVE FALSE
  <2>1. T \in SUBSET Nat
    BY <1>a
  <2> HIDE DEF P
  <2>2. PICK x \in T : \A y \in T : x <= y
    BY <1>4, <2>1, LeastNumber
  <2>3. P(0)
    BY <1>1, <1>2, SameOrder DEF P, Reads
  <2>4. x \in 1..Len(file) /\ x - 1 \in 0..Len(file) /\ ~(x <= x - 1) /\ x \in T
    BY <2>2, <2>3, <1>a
  <2>5. P(x - 1)
    BY <2>2, <2>4
  <2>6. PICK w : w = file[x]
    OBVIOUS
  <2>7. /\ f[x] = ReplayStep(f[x - 1], w, t) /\ g[x] = ReplayStep(g[x - 1], w, u)
        /\ w \in Record
    BY <1>1, <1>2, <2>4, <2>6 DEF Reads
  <2>8. PICK a, b : a = f[x - 1] /\ b = g[x - 1]
    OBVIOUS
  <2>9. IsState(a) /\ IsState(b) /\ a.line = b.line /\ Same(a.map, b.map, u)
    BY <1>3, <2>4, <2>5, <2>8 DEF P
  <2>10. CASE w = NL
    <3>1. /\ ReplayStep(a, w, t).map = ReplayLine(a.map, a.line, t)
          /\ ReplayStep(a, w, t).line = <<>>
      BY <2>7, <2>9, <2>10, StepType
    <3>2. /\ ReplayStep(b, w, u).map = ReplayLine(b.map, b.line, u)
          /\ ReplayStep(b, w, u).line = <<>>
      BY <2>7, <2>9, <2>10, StepType
    <3>3. Same(ReplayLine(a.map, a.line, t), ReplayLine(b.map, b.line, u), u)
      BY <2>9, LineSame DEF IsState
    <3> QED
      BY <2>4, <2>7, <2>8, <3>1, <3>2, <3>3 DEF P
  <2>11. CASE w # NL
    <3>1. ReplayStep(a, w, t).map = a.map /\ ReplayStep(a, w, t).line = Append(a.line, w)
      BY <2>7, <2>9, <2>11, StepType
    <3>2. ReplayStep(b, w, u).map = b.map /\ ReplayStep(b, w, u).line = Append(b.line, w)
      BY <2>7, <2>9, <2>11, StepType
    <3> QED
      BY <2>4, <2>7, <2>8, <2>9, <3>1, <3>2 DEF P
  <2> QED
    BY <2>10, <2>11
<1>5. P(Len(file)) /\ IsState(f[Len(file)])
  BY <1>3, <1>4, <1>a
<1>6. PICK a, b : a = Parsed(file, t) /\ b = Parsed(file, u)
  OBVIOUS
<1>7. a.line = b.line /\ Same(a.map, b.map, u) /\ IsState(a)
  BY <1>1, <1>2, <1>5, <1>6
<1>8. Same(ReplayLine(a.map, a.line, t), ReplayLine(b.map, b.line, u), u)
  BY <1>7, LineSame DEF IsState
<1> QED
  BY <1>6, <1>7, <1>8 DEF Replay

\* A record after a complete line is replayed, whether or not its own line has an end.
LEMMA AppendRecord ==
  ASSUME NEW file \in Seq(Record), NEW t, Parsed(file, t).line = <<>>,
         NEW r \in Record, r # NL, r # Torn
  PROVE  /\ Append(file, r) \in Seq(Record)
         /\ Parsed(Append(file, r), t).line = <<r>>
         /\ Replay(Append(file, r), t) = ReplayRecord(Replay(file, t), r, t)
<1>1. PICK a, b : a = Parsed(file, t) /\ b = Parsed(Append(file, r), t)
  OBVIOUS
<1>2. b = ReplayStep(a, r, t) /\ IsState(a)
  BY <1>1, ParsedAppend, ParsedType
<1>3. b.map = a.map /\ b.line = Append(a.line, r)
  BY <1>2, StepType
<1>4. a.line = <<>>
  BY <1>1
<1>5. b.line = <<r>> /\ Len(b.line) = 1 /\ b.line[1] = r
  BY <1>3, <1>4
<1>6. ReplayLine(a.map, a.line, t) = a.map
  BY <1>4 DEF ReplayLine
<1>7. ReplayLine(b.map, b.line, t) = ReplayRecord(a.map, r, t)
  BY <1>3, <1>5 DEF ReplayLine
<1>8. Append(file, r) \in Seq(Record)
  OBVIOUS
<1> QED
  BY <1>1, <1>5, <1>6, <1>7, <1>8 DEF Replay

\* The end of a line changes nothing in what is read.
LEMMA AppendEnd ==
  ASSUME NEW file \in Seq(Record), NEW t
  PROVE  /\ Append(file, NL) \in Seq(Record)
         /\ Parsed(Append(file, NL), t).line = <<>>
         /\ Replay(Append(file, NL), t) = Replay(file, t)
<1>a. NL \in Record
  BY RecordFacts
<1>1. PICK a, b : a = Parsed(file, t) /\ b = Parsed(Append(file, NL), t)
  OBVIOUS
<1>2. b = ReplayStep(a, NL, t) /\ IsState(a)
  BY <1>1, <1>a, ParsedAppend, ParsedType
<1>3. b.map = ReplayLine(a.map, a.line, t) /\ b.line = <<>>
  BY <1>2, <1>a, StepType
<1>4. ReplayLine(b.map, b.line, t) = b.map
  BY <1>3 DEF ReplayLine
<1>5. Append(file, NL) \in Seq(Record)
  BY <1>a
<1> QED
  BY <1>1, <1>3, <1>4, <1>5 DEF Replay


-----------------------------------------------------------------------------
(* What an operation logs *)

\* The records an operation logs
Logged == Record \ {NL, Torn}

\* Records and ends of lines take turns, and the last write is an end.
Paired(q) ==
  /\ q # <<>> => q[Len(q)] = NL
  /\ \A n \in 1..(Len(q) - 1) : q[n] = NL <=> q[n + 1] # NL

\* A line without its end is what is to be written next.
Opening(q) == q # <<>> /\ Head(q) = NL

\* The writes of a sequence of records.
LEMMA LinesFacts ==
  ASSUME NEW recs \in Seq(Logged)
  PROVE  /\ Lines(recs) \in Seq(Record \ {Torn}) /\ Paired(Lines(recs))
         /\ Lines(recs) = <<>> <=> recs = <<>>
         /\ ~Opening(Lines(recs))
         /\ \A n \in DOMAIN Lines(recs) :
              Lines(recs)[n] # NL => \E m \in DOMAIN recs : Lines(recs)[n] = recs[m]
         /\ \A m \in DOMAIN recs : \E n \in DOMAIN Lines(recs) : Lines(recs)[n] = recs[m]
<1>1. PICK l : l = Len(recs)
  OBVIOUS
<1>2. /\ l \in Nat /\ DOMAIN recs = 1..l /\ (recs = <<>> <=> l = 0)
      /\ \A m \in 1..l : recs[m] \in Logged
  BY <1>1
<1>3. PICK q : q = Lines(recs)
  OBVIOUS
<1>4. q = [n \in 1..(2 * l) |-> IF n % 2 = 1 THEN recs[(n + 1) \div 2] ELSE NL]
  BY <1>1, <1>3 DEF Lines
<1>5. \A n \in 1..(2 * l) :
        /\ n % 2 = 1 => (n + 1) \div 2 \in 1..l
        /\ n % 2 = 1 <=> (n + 1) % 2 # 1
  BY <1>2
<1>6. (2 * l) % 2 # 1
  BY <1>2
<1>7. \A m \in 1..l : /\ 2 * m - 1 \in 1..(2 * l) /\ (2 * m - 1) % 2 = 1
                      /\ ((2 * m - 1) + 1) \div 2 = m
  BY <1>2
<1>8. DOMAIN q = 1..(2 * l) /\ 2 * l \in Nat
  BY <1>2, <1>4
<1>9. \A n \in 1..(2 * l) : /\ n % 2 = 1 => q[n] = recs[(n + 1) \div 2] /\ q[n] \in Logged
                            /\ n % 2 # 1 => q[n] = NL
  BY <1>2, <1>4, <1>5
<1>10. \A n \in 1..(2 * l) : q[n] \in Record \ {Torn} /\ (q[n] = NL <=> n % 2 # 1)
  <2>1. NL \in Record \ {Torn}
    BY RecordFacts
  <2> QED
    BY <1>9, <2>1 DEF Logged
<1>11. q \in Seq(Record \ {Torn}) /\ Len(q) = 2 * l
  <2>1. q \in [1..(2 * l) -> Record \ {Torn}]
    BY <1>4, <1>8, <1>10
  <2> QED
    BY <1>8, <2>1
<1>12. Paired(q)
  <2>1. q # <<>> => q[Len(q)] = NL
    <3>1. q # <<>> => 2 * l \in 1..(2 * l)
      BY <1>2, <1>11
    <3> QED
      BY <1>6, <1>10, <1>11, <3>1
  <2>2. ASSUME NEW n \in 1..(Len(q) - 1)
        PROVE  q[n] = NL <=> q[n + 1] # NL
    <3>1. n \in 1..(2 * l) /\ n + 1 \in 1..(2 * l)
      BY <1>2, <1>11
    <3> QED
      BY <1>5, <1>10, <3>1
  <2> QED
    BY <2>1, <2>2 DEF Paired
<1>13. q = <<>> <=> recs = <<>>
  BY <1>2, <1>11
<1>14. ~Opening(q)
  <2>1. CASE q = <<>>
    BY <2>1 DEF Opening
  <2>2. CASE q # <<>>
    <3>1. 1 \in 1..(2 * l) /\ 1 % 2 = 1 /\ Head(q) = q[1]
      BY <1>2, <1>11, <2>2
    <3> QED
      BY <1>10, <3>1 DEF Opening
  <2> QED
    BY <2>1, <2>2
<1>15. \A n \in DOMAIN q : q[n] # NL => \E m \in DOMAIN recs : q[n] = recs[m]
  BY <1>2, <1>5, <1>8, <1>9
<1>16. \A m \in DOMAIN recs : \E n \in DOMAIN q : q[n] = recs[m]
  <2> SUFFICES ASSUME NEW m \in DOMAIN recs PROVE \E n \in DOMAIN q : q[n] = recs[m]
    OBVIOUS
  <2>1. 2 * m - 1 \in DOMAIN q /\ q[2 * m - 1] = recs[m]
    BY <1>2, <1>7, <1>8, <1>9
  <2> QED
    BY <2>1
<1> QED
  BY <1>3, <1>11, <1>12, <1>13, <1>14, <1>15, <1>16

\* One write less.
LEMMA TailFacts ==
  ASSUME NEW q \in Seq(Record \ {Torn}), Paired(q), q # <<>>
  PROVE  /\ Head(q) \in Record \ {Torn} /\ Tail(q) \in Seq(Record \ {Torn}) /\ Paired(Tail(q))
         /\ Head(q) = NL => ~Opening(Tail(q))
         /\ Head(q) # NL => Opening(Tail(q)) /\ Len(q) >= 2
         /\ Tail(q) = <<>> <=> Len(q) = 1
         /\ \A n \in DOMAIN q : q[n] = Head(q) \/ \E m \in DOMAIN Tail(q) : q[n] = Tail(q)[m]
         /\ \A n \in DOMAIN Tail(q) : \E m \in DOMAIN q : Tail(q)[n] = q[m]
<1>1. PICK l, x : l = Len(q) /\ x = Tail(q)
  OBVIOUS
<1>2. /\ l \in Nat \ {0} /\ DOMAIN q = 1..l /\ Head(q) = q[1] /\ q[1] \in Record \ {Torn}
      /\ x \in Seq(Record \ {Torn}) /\ Len(x) = l - 1 /\ DOMAIN x = 1..(l - 1)
      /\ \A n \in 1..(l - 1) : x[n] = q[n + 1]
  BY <1>1
<1>3. q[l] = NL /\ \A n \in 1..(l - 1) : q[n] = NL <=> q[n + 1] # NL
  BY <1>1 DEF Paired
<1>4. Paired(x)
  <2>1. x # <<>> => x[Len(x)] = NL
    BY <1>2, <1>3
  <2>2. ASSUME NEW n \in 1..(Len(x) - 1)
        PROVE  x[n] = NL <=> x[n + 1] # NL
    <3>1. n + 1 \in 1..(l - 1) /\ n \in 1..(l - 1)
      BY <1>2
    <3> QED
      BY <1>2, <1>3, <3>1
  <2> QED
    BY <2>1, <2>2 DEF Paired
<1>5. x = <<>> <=> l = 1
  BY <1>2
<1>6. l # 1 => 1 \in 1..(l - 1) /\ Head(x) = x[1] /\ x[1] = q[2]
  BY <1>2
<1>7. Head(q) = NL => ~Opening(x)
  BY <1>2, <1>3, <1>5, <1>6 DEF Opening
<1>8. Head(q) # NL => Opening(x) /\ l >= 2
  BY <1>2, <1>3, <1>5, <1>6 DEF Opening
<1>9. \A n \in DOMAIN q : q[n] = Head(q) \/ \E m \in DOMAIN x : q[n] = x[m]
  <2> SUFFICES ASSUME NEW n \in 1..l, n # 1 PROVE \E m \in DOMAIN x : q[n] = x[m]
    BY <1>2
  <2>1. n - 1 \in DOMAIN x /\ x[n - 1] = q[n]
    BY <1>2
  <2> QED
    BY <2>1
<1>10. \A n \in DOMAIN x : \E m \in DOMAIN q : x[n] = q[m]
  BY <1>2
<1> QED
  BY <1>1, <1>2, <1>4, <1>5, <1>7, <1>8, <1>9, <1>10

\* A set in some order is a sequence.
LEMMA OrdersFacts ==
  ASSUME NEW keys \in SUBSET Key, IsFiniteSet(keys), NEW order \in Orders(keys)
  PROVE  order \in Seq(keys) /\ \A k \in keys : \E n \in DOMAIN order : order[n] = k
<1>1. Cardinality(keys) \in Nat
  BY FS_CardinalityType
<1>2. /\ order \in [1..Cardinality(keys) -> keys]
      /\ \A k \in keys : \E n \in DOMAIN order : order[n] = k
  BY DEF Orders
<1> QED
  BY <1>1, <1>2

\* Deletions are records.
LEMMA DelsType == \A keys \in Seq(Key) : Dels(keys) \in Seq(Logged)
<1> SUFFICES ASSUME NEW keys \in Seq(Key) PROVE Dels(keys) \in Seq(Logged)
  OBVIOUS
<1>1. \A k \in Key : DelRec(k) \in Logged
  BY RecordFacts DEF Logged
<1>2. Len(keys) \in Nat /\ DOMAIN keys = 1..Len(keys) /\ \A n \in 1..Len(keys) : keys[n] \in Key
  OBVIOUS
<1>3. Dels(keys) \in [1..Len(keys) -> Logged]
  BY <1>1, <1>2 DEF Dels
<1> QED
  BY <1>2, <1>3

\* The entries of a map are records.
LEMMA DumpFacts ==
  ASSUME NEW map, IsMap(map), NEW keys \in Orders(DOMAIN map)
  PROVE  /\ Dump(map, keys) \in Seq(Logged)
         /\ \A n \in DOMAIN Dump(map, keys) :
              \E k \in DOMAIN map : Dump(map, keys)[n] = SetRec(k, map[k].val, map[k].exp)
         /\ \A k \in DOMAIN map : \E n \in DOMAIN Dump(map, keys) :
              Dump(map, keys)[n] = SetRec(k, map[k].val, map[k].exp)
<1>1. keys \in Seq(DOMAIN map) /\ \A k \in DOMAIN map : \E n \in DOMAIN keys : keys[n] = k
  BY OrdersFacts DEF IsMap
<1>2. ASSUME NEW k \in DOMAIN map PROVE SetRec(k, map[k].val, map[k].exp) \in Logged
  <2>1. k \in Key /\ map[k] \in Entry
    BY DEF IsMap
  <2>2. map[k].val \in Value /\ map[k].exp \in Nat \cup {NoExp}
    BY <2>1 DEF Entry
  <2>3. /\ SetRec(k, map[k].val, map[k].exp) \in Record
        /\ SetRec(k, map[k].val, map[k].exp).op = "set"
    BY <2>1, <2>2, RecordFacts
  <2> QED
    BY <2>3, RecordFacts DEF Logged
<1>3. /\ Len(keys) \in Nat /\ DOMAIN keys = 1..Len(keys)
      /\ \A n \in 1..Len(keys) : keys[n] \in DOMAIN map
  BY <1>1
<1>4. PICK d : d = Dump(map, keys)
  OBVIOUS
<1>5. /\ d = [n \in DOMAIN keys |-> d[n]]
      /\ \A n \in DOMAIN keys : d[n] = SetRec(keys[n], map[keys[n]].val, map[keys[n]].exp)
  BY <1>4 DEF Dump
<1>6. d \in [1..Len(keys) -> Logged]
  BY <1>2, <1>3, <1>5
<1>7. DOMAIN d = DOMAIN keys /\ d \in Seq(Logged)
  BY <1>3, <1>5, <1>6
<1>8. \A n \in DOMAIN d : \E k \in DOMAIN map : d[n] = SetRec(k, map[k].val, map[k].exp)
  BY <1>3, <1>5, <1>7
<1>9. \A k \in DOMAIN map : \E n \in DOMAIN d : d[n] = SetRec(k, map[k].val, map[k].exp)
  BY <1>1, <1>5, <1>7
<1> QED
  BY <1>4, <1>7, <1>8, <1>9

\* Numbers stay in their width.
LEMMA WrapType == \A n \in Int : Wrap(n) \in Number
<1> SUFFICES ASSUME NEW n \in Int PROVE Wrap(n) \in Number
  OBVIOUS
<1>1. PICK d, x : d = 2 * Half /\ x = n + Half
  OBVIOUS
<1>2. d \in Nat \ {0} /\ x \in Int /\ Half \in Nat \ {0}
  BY <1>1, KVAssumption
<1>3. x % d \in 0..(d - 1)
  BY <1>2
<1>4. Wrap(n) = (x % d) - Half
  BY <1>1 DEF Wrap
<1> QED
  BY <1>1, <1>2, <1>3, <1>4 DEF Number

\* What a batch of two logs.
LEMMA KnownType ==
  ASSUME TypeOK, NEW a \in BatchOp, NEW b \in BatchOp
  PROVE  Known(<<a, b>>) \in Seq(Logged)
<1>1. \A x \in BatchOp : x # Unknown => x \in Logged
  <2>1. \A k \in Key : DelRec(k) \in Logged
    BY RecordFacts DEF Logged
  <2>a. now \in Nat
    BY KVAssumption DEF TypeOK
  <2>2. 0 \in Value /\ \A ttl \in Ttl \cup {NoExp} : ExpiresAt(ttl) \in Nat \cup {NoExp}
    BY <2>a, KVAssumption DEF Value, Number, ExpiresAt
  <2>3. ASSUME NEW k \in Key, NEW ttl \in Ttl \cup {NoExp}
        PROVE  SetRec(k, 0, ExpiresAt(ttl)) \in Logged
    <3>1. PICK v \in Value, e \in Nat \cup {NoExp} : v = 0 /\ e = ExpiresAt(ttl)
      BY <2>2
    <3>2. SetRec(k, v, e) \in Record /\ SetRec(k, v, e).op = "set"
      BY RecordFacts
    <3>3. SetRec(k, v, e) \in Logged
      BY <3>2, RecordFacts DEF Logged
    <3> QED
      BY <3>1, <3>3
  <2> QED
    BY <2>1, <2>3 DEF BatchOp
<1>2. PICK q : q = <<a, b>>
  OBVIOUS
<1>3. PICK S : S = {n \in DOMAIN q : \A m \in 1..n : q[m] # Unknown}
  OBVIOUS
<1>4. DOMAIN q = 1..2 /\ q[1] = a /\ q[2] = b
  BY <1>2
<1>5. \A c \in 0..2 : (\A i \in 1..c : q[i] \in Logged) => SubSeq(q, 1, c) \in Seq(Logged)
  BY SubSeqProperties
<1>6. Known(q) = SubSeq(q, 1, Cardinality(S))
  BY <1>3 DEF Known
<1>7. Known(q) \in Seq(Logged)
  <2>1. CASE a = Unknown
    <3>1. S = {}
      BY <1>3, <1>4, <2>1
    <3>2. Cardinality(S) = 0
      BY <3>1, FS_EmptySet
    <3> QED
      BY <1>5, <1>6, <3>2
  <2>2. CASE a # Unknown /\ b = Unknown
    <3>1. S = {1}
      BY <1>3, <1>4, <2>2
    <3>2. Cardinality(S) = 1
      BY <3>1, FS_Singleton
    <3>3. \A i \in 1..1 : q[i] \in Logged
      BY <1>1, <1>4, <2>2
    <3> QED
      BY <1>5, <1>6, <3>2, <3>3
  <2>3. CASE a # Unknown /\ b # Unknown
    <3>1. S = 1..2
      BY <1>3, <1>4, <2>3
    <3>2. Cardinality(1..2) = 2
      <4>1. PICK x \in Int, y \in Int : x = 1 /\ y = 2
        OBVIOUS
      <4>2. Cardinality(x..y) = IF x > y THEN 0 ELSE y - x + 1
        BY FS_Interval
      <4> QED
        BY <4>1, <4>2
    <3>3. \A i \in 1..2 : q[i] \in Logged
      BY <1>1, <1>4, <2>3
    <3> QED
      BY <1>5, <1>6, <3>1, <3>2, <3>3
  <2> QED
    BY <2>1, <2>2, <2>3
<1> QED
  BY <1>2, <1>7


-----------------------------------------------------------------------------
(* Types *)

\* An operation that logs records and does nothing else at once
LogOp(s) ==
  /\ stage[s] = "idle" /\ ops' \in 0..MaxOps
  /\ \E recs \in Seq(Logged) : Logs(s, recs)

\* A step of a store, the operations that log taken together
StoreStep(s) ==
  \/ LogOp(s) \/ Open(s) \/ Compact(s) \/ Close(s)
  \/ Write(s) \/ WriteFails(s) \/ OpenTemp(s) \/ WriteTemp(s) \/ TempFails(s)
  \/ Rename(s) \/ Reopen(s) \/ RenameFails(s)

\* The expired entries in some order.
LEMMA ExpiredOrder ==
  ASSUME TypeOK, NEW s \in Store, NEW keys \in Orders(Expired(s))
  PROVE  /\ keys \in Seq(Expired(s)) /\ Expired(s) \subseteq DOMAIN data[s]
         /\ Dels(keys) \in Seq(Logged)
<1>1. IsMap(data[s])
  BY DEF TypeOK
<1>2. Expired(s) \subseteq DOMAIN data[s]
  BY DEF Expired
<1>3. IsFiniteSet(Expired(s)) /\ Expired(s) \subseteq Key
  BY <1>1, <1>2, FS_Subset DEF IsMap
<1>4. keys \in Seq(Expired(s))
  BY <1>3, OrdersFacts
<1>5. keys \in Seq(Key)
  BY <1>3, <1>4
<1> QED
  BY <1>2, <1>4, <1>5, DelsType

\* One record is a sequence of records.
LEMMA OneRecord == \A r \in Logged : <<r>> \in Seq(Logged)
  OBVIOUS

\* Every operation is one of those steps.
LEMMA OperationSteps ==
  ASSUME TypeOK, NEW s \in Store, Operation(s)
  PROVE  LogOp(s) \/ Open(s) \/ Compact(s) \/ Close(s)
<1>a. IsMap(data[s]) /\ now \in Nat /\ MaxOps \in Nat /\ ops \in 0..MaxOps
  BY KVAssumption DEF TypeOK
<1>b. \A k \in Key : DelRec(k) \in Logged
  BY RecordFacts DEF Logged
<1>c. ASSUME NEW k \in Key, NEW v \in Value, NEW e \in Nat \cup {NoExp}
      PROVE  SetRec(k, v, e) \in Logged
  <2>1. SetRec(k, v, e) \in Record /\ SetRec(k, v, e).op = "set"
    BY RecordFacts
  <2> QED
    BY <2>1, RecordFacts DEF Logged
<1>d. \A op, n : n \in Nat /\ Starts(s, op, n) => stage[s] = "idle" /\ ops' \in 0..MaxOps
  BY <1>a DEF Starts
<1>1. CASE Clear(s)
  <2>1. ClearRec \in Logged
    BY RecordFacts DEF Logged
  <2> QED
    BY <1>d, <1>1, <2>1, OneRecord DEF Clear, LogOp
<1>2. CASE Prune(s)
  <2>1. PICK keys \in Orders(Expired(s)) : Logs(s, Dels(keys))
    BY <1>2 DEF Prune
  <2>2. Dels(keys) \in Seq(Logged)
    BY ExpiredOrder
  <2> QED
    BY <1>d, <1>2, <2>1, <2>2 DEF Prune, LogOp
<1>3. ASSUME NEW k \in Key, GetExpired(s, k) \/ Delete(s, k)
      PROVE  LogOp(s)
  <2>1. <<DelRec(k)>> \in Seq(Logged)
    BY <1>b, OneRecord
  <2> QED
    BY <1>d, <1>3, <2>1 DEF GetExpired, Delete, LogOp
<1>4. ASSUME NEW k \in Key, NEW delta \in {-1, 1}, Incr(s, k, delta)
      PROVE  LogOp(s)
  <2> DEFINE live == Live(data[s], now)
             old == IF k \in DOMAIN live THEN live[k] ELSE [val |-> 0, exp |-> NoExp]
  <2>1. /\ old.val # Text /\ Starts(s, "incr", 1)
        /\ Logs(s, <<SetRec(k, Wrap(old.val + delta), old.exp)>>)
    BY <1>4 DEF Incr
  <2>2. old \in Entry
    <3>1. CASE k \in DOMAIN live
      BY <1>a, <3>1 DEF Live, IsMap
    <3>2. CASE k \notin DOMAIN live
      <4>1. 0 \in Value
        BY KVAssumption DEF Value, Number
      <4> QED
        BY <3>2, <4>1 DEF Entry
    <3> QED
      BY <3>1, <3>2
  <2> HIDE DEF old
  <2>3. old.val \in Int /\ old.exp \in Nat \cup {NoExp}
    BY <2>1, <2>2, KVAssumption DEF Entry, Value, Number
  <2>4. Wrap(old.val + delta) \in Value
    <3>1. old.val + delta \in Int
      BY <2>3
    <3> QED
      BY <3>1, WrapType DEF Value
  <2>5. <<SetRec(k, Wrap(old.val + delta), old.exp)>> \in Seq(Logged)
    BY <1>c, <2>3, <2>4, OneRecord
  <2> QED
    BY <1>d, <2>1, <2>5 DEF LogOp
<1>5. ASSUME NEW k \in Key, NEW v \in {0, Text}, NEW ttl \in Ttl \cup {NoExp}, Set(s, k, v, ttl)
      PROVE  LogOp(s)
  <2>1. v \in Value
    BY KVAssumption DEF Value, Number
  <2>2. ExpiresAt(ttl) \in Nat \cup {NoExp}
    BY <1>a, KVAssumption DEF ExpiresAt
  <2>3. <<SetRec(k, v, ExpiresAt(ttl))>> \in Seq(Logged)
    BY <1>c, <2>1, <2>2, OneRecord
  <2> QED
    BY <1>d, <1>5, <2>3 DEF Set, LogOp
<1>6. ASSUME NEW a \in BatchOp, NEW b \in BatchOp, Batch(s, <<a, b>>)
      PROVE  LogOp(s)
  <2>1. Known(<<a, b>>) \in Seq(Logged)
    BY KnownType
  <2>2. Len(<<a, b>>) \in Nat
    OBVIOUS
  <2> QED
    BY <1>d, <1>6, <2>1, <2>2 DEF Batch, LogOp
<1> QED
  BY <1>1, <1>2, <1>3, <1>4, <1>5, <1>6 DEF Operation

\* So is every step of Next.
LEMMA NextSteps ==
  ASSUME TypeOK, Next
  PROVE  Tick \/ Crash \/ \E s \in Store : StoreStep(s)
  BY OperationSteps DEF Next, Step, StoreStep


\* Where the writes of an operation are
TodoInv ==
  \A s \in Store :
    /\ Paired(todo[s])
    /\ stage[s] \in {"closed", "idle", "reopen"} => todo[s] = <<>>
    /\ stage[s] = "log" => todo[s] # <<>>

\* An empty map, and an empty sequence of writes.
LEMMA EmptyFacts == IsMap(Empty) /\ Paired(<<>>) /\ <<>> \in Seq(Record \ {Torn})
  BY FS_EmptySet DEF IsMap, Empty, Paired

\* The next write of a store.
LEMMA HeadFacts ==
  ASSUME TypeOK, TodoInv, NEW s \in Store, todo[s] # <<>>
  PROVE  /\ todo[s] \in Seq(Record \ {Torn}) /\ Paired(todo[s])
         /\ Head(todo[s]) \in Record /\ Head(todo[s]) # Torn
         /\ Tail(todo[s]) \in Seq(Record \ {Torn}) /\ Paired(Tail(todo[s]))
         /\ Tail(todo[s]) = <<>> <=> Len(todo[s]) = 1
<1>1. todo[s] \in Seq(Record \ {Torn}) /\ Paired(todo[s])
  BY DEF TypeOK, TodoInv
<1> QED
  BY <1>1, TailFacts

\* The types are kept when an operation starts.
LEMMA TypeStarts ==
  ASSUME TypeOK, TodoInv, NEW s \in Store, LogOp(s) \/ Open(s) \/ Compact(s) \/ Close(s)
  PROVE  TypeOK' /\ TodoInv'
<1>1. CASE LogOp(s)
  <2>1. PICK recs \in Seq(Logged) : Logs(s, recs)
    BY <1>1 DEF LogOp
  <2>2. PICK q : q = Lines(recs)
    OBVIOUS
  <2>3. q \in Seq(Record \ {Torn}) /\ Paired(q) /\ (q = <<>> <=> recs = <<>>)
    BY <2>2, LinesFacts
  <2>4. /\ todo' = [todo EXCEPT ![s] = q]
        /\ stage' = [stage EXCEPT ![s] = IF recs = <<>> THEN "idle" ELSE "log"]
        /\ UNCHANGED <<files, path, temp, now, data, wal, fd, acked, lossy>>
    BY <2>1, <2>2 DEF Logs
  <2>5. stage[s] = "idle" /\ ops' \in 0..MaxOps
    BY <1>1, KVAssumption DEF LogOp, TypeOK
  <2>6. TypeOK'
    BY <2>3, <2>4, <2>5 DEF TypeOK
  <2>7. TodoInv'
    BY <2>3, <2>4 DEF TypeOK, TodoInv
  <2> QED
    BY <2>6, <2>7
<1>2. CASE Open(s)
  <2>1. PICK m : m = Replay(files[path], now)
    OBVIOUS
  <2>2. IsMap(m)
    BY <2>1, ParsedType DEF TypeOK
  <2>3. /\ stage[s] = "closed" /\ data' = [data EXCEPT ![s] = m] /\ wal' = [wal EXCEPT ![s] = path]
        /\ stage' = [stage EXCEPT ![s] = "idle"]
        /\ UNCHANGED <<files, path, temp, now, todo, fd, ops, acked, lossy>>
    BY <1>2, <2>1 DEF Open
  <2>4. TypeOK'
    BY <2>2, <2>3 DEF TypeOK
  <2>5. TodoInv'
    BY <2>3 DEF TypeOK, TodoInv
  <2> QED
    BY <2>4, <2>5
<1>3. CASE Compact(s)
  <2>1. PICK keys \in Orders(Expired(s)) : todo' = [todo EXCEPT ![s] = Lines(Dels(keys))]
    BY <1>3 DEF Compact
  <2>2. PICK q : q = Lines(Dels(keys))
    OBVIOUS
  <2>3. q \in Seq(Record \ {Torn}) /\ Paired(q)
    BY <2>2, ExpiredOrder, LinesFacts
  <2>4. /\ stage' = [stage EXCEPT ![s] = "prune"] /\ todo' = [todo EXCEPT ![s] = q]
        /\ stage[s] = "idle" /\ ops' = ops + 1 /\ ops + 1 <= MaxOps
        /\ UNCHANGED <<files, path, temp, now, data, wal, fd, acked, lossy>>
    BY <1>3, <2>1, <2>2 DEF Compact, Starts
  <2>5. ops' \in 0..MaxOps
    BY <2>4, KVAssumption DEF TypeOK
  <2>6. TypeOK'
    BY <2>3, <2>4, <2>5 DEF TypeOK
  <2>7. TodoInv'
    BY <2>3, <2>4 DEF TypeOK, TodoInv
  <2> QED
    BY <2>6, <2>7
<1>4. CASE Close(s)
  <2>1. TypeOK'
    BY <1>4, EmptyFacts DEF TypeOK, Close
  <2>2. TodoInv'
    BY <1>4 DEF TypeOK, TodoInv, Close
  <2> QED
    BY <2>1, <2>2
<1> QED
  BY <1>1, <1>2, <1>3, <1>4

\* The types are kept when an operation writes to the log.
LEMMA TypeWrites ==
  ASSUME TypeOK, TodoInv, NEW s \in Store, Write(s) \/ WriteFails(s)
  PROVE  TypeOK' /\ TodoInv'
<1>1. PICK q, w : q = todo[s] /\ w = Head(todo[s])
  OBVIOUS
<1>2. stage[s] \in {"log", "prune"} /\ q # <<>>
  BY <1>1 DEF Write, WriteFails
<1>3. /\ q \in Seq(Record \ {Torn}) /\ Paired(q) /\ w = Head(q) /\ w \in Record /\ w # Torn
      /\ Tail(q) \in Seq(Record \ {Torn}) /\ Paired(Tail(q)) /\ (Tail(q) = <<>> <=> Len(q) = 1)
  BY <1>1, <1>2, HeadFacts
<1>4. IsMap(data[s]) /\ IsMap(acked)
  BY DEF TypeOK
<1>5. w # NL => IsMap(Apply(data[s], w)) /\ IsMap(Apply(acked, w))
  BY <1>3, <1>4, ApplyType
<1>6. wal[s] # NoFile => wal[s] \in 0..MaxInode /\ files[wal[s]] \in Seq(Record)
  BY DEF TypeOK
<1>7. CASE Write(s)
  <2>1. /\ IF w = NL THEN UNCHANGED <<data, acked>>
           ELSE /\ data' = [data EXCEPT ![s] = Apply(data[s], w)]
                /\ acked' = Apply(acked, w)
        /\ files' = IF wal[s] = NoFile THEN files
                    ELSE [files EXCEPT ![wal[s]] = Append(files[wal[s]], w)]
        /\ todo' = [todo EXCEPT ![s] = Tail(q)]
        /\ stage' = [stage EXCEPT ![s] =
                       IF stage[s] = "log" /\ Len(q) = 1 THEN "idle" ELSE stage[s]]
        /\ UNCHANGED <<path, temp, now, wal, fd, ops, lossy>>
    BY <1>1, <1>7 DEF Write, TypeOK
  <2>2. files' \in [0..MaxInode -> Seq(Record)]
    BY <1>3, <1>6, <2>1 DEF TypeOK
  <2>3. DOMAIN data' = Store /\ (\A x \in Store : IsMap(data'[x])) /\ IsMap(acked')
    BY <1>3, <1>5, <2>1 DEF TypeOK
  <2>4. todo' \in [Store -> Seq(Record \ {Torn})]
    BY <1>3, <2>1 DEF TypeOK
  <2>5. /\ stage' \in [Store -> {"closed", "idle", "log", "prune", "temp", "reopen"}]
        /\ \A x \in Store : stage'[x] = "closed" => data'[x] = Empty /\ wal'[x] = NoFile
    BY <1>2, <2>1 DEF TypeOK
  <2>6. TypeOK'
    BY <2>1, <2>2, <2>3, <2>4, <2>5 DEF TypeOK
  <2>7. TodoInv'
    BY <1>1, <1>2, <1>3, <2>1 DEF TypeOK, TodoInv
  <2> QED
    BY <2>6, <2>7
<1>8. CASE WriteFails(s)
  <2>1. w # NL /\ wal[s] # NoFile
    BY <1>1, <1>8 DEF WriteFails
  <2>2. PICK p, z : p = Tail(q) /\ z = Tail(Tail(q))
    OBVIOUS
  <2>3. p # <<>> /\ p \in Seq(Record \ {Torn}) /\ Paired(p) /\ Len(q) = Len(p) + 1
    BY <1>2, <1>3, <2>1, <2>2, TailFacts DEF Opening
  <2>4. z \in Seq(Record \ {Torn}) /\ Paired(z) /\ (z = <<>> <=> Len(q) = 2)
    <3>1. z \in Seq(Record \ {Torn}) /\ Paired(z) /\ (z = <<>> <=> Len(p) = 1)
      BY <2>2, <2>3, TailFacts
    <3>2. PICK n \in Nat : n = Len(p) /\ Len(q) = n + 1
      BY <2>3
    <3>3. n = 1 <=> n + 1 = 2
      OBVIOUS
    <3>4. Len(p) = 1 <=> Len(q) = 2
      BY <3>2, <3>3, Zenon
    <3> QED
      BY <3>1, <3>4
  <2>5. PICK written \in {<<>>, <<Torn>>} : files' = [files EXCEPT ![wal[s]] = @ \o written]
    BY <1>8 DEF WriteFails
  <2>6. /\ data' = [data EXCEPT ![s] = Apply(data[s], w)]
        /\ acked' = Apply(acked, w)
        /\ todo' = [todo EXCEPT ![s] = z]
        /\ stage' = [stage EXCEPT ![s] =
                       IF stage[s] = "log" /\ Len(q) = 2 THEN "idle" ELSE stage[s]]
        /\ UNCHANGED <<path, temp, now, wal, fd, ops>> /\ lossy' = TRUE
    BY <1>1, <1>8, <2>2 DEF WriteFails, TypeOK
  <2>7. files' \in [0..MaxInode -> Seq(Record)]
    <3>1. <<>> \in Seq(Record) /\ <<Torn>> \in Seq(Record)
      BY RecordFacts
    <3>2. files[wal[s]] \o written \in Seq(Record)
      <4>1. written \in Seq(Record)
        BY <3>1
      <4>2. PICK x : x = files[wal[s]]
        OBVIOUS
      <4>3. x \in Seq(Record)
        BY <1>6, <2>1, <4>2
      <4>4. x \o written \in Seq(Record)
        BY <4>1, <4>3
      <4> QED
        BY <4>2, <4>4
    <3> QED
      BY <1>6, <2>1, <2>5, <3>2 DEF TypeOK
  <2>8. DOMAIN data' = Store /\ (\A x \in Store : IsMap(data'[x])) /\ IsMap(acked')
    BY <1>5, <2>1, <2>6 DEF TypeOK
  <2>9. todo' \in [Store -> Seq(Record \ {Torn})]
    BY <2>4, <2>6 DEF TypeOK
  <2>10. /\ stage' \in [Store -> {"closed", "idle", "log", "prune", "temp", "reopen"}]
         /\ \A x \in Store : stage'[x] = "closed" => data'[x] = Empty /\ wal'[x] = NoFile
    BY <1>2, <2>6 DEF TypeOK
  <2>11. TypeOK'
    BY <2>6, <2>7, <2>8, <2>9, <2>10 DEF TypeOK
  <2>12. TodoInv'
    BY <1>1, <1>2, <2>4, <2>6 DEF TypeOK, TodoInv
  <2> QED
    BY <2>11, <2>12
<1> QED
  BY <1>7, <1>8

\* The file that a compact() writes to.
LEMMA TempFile ==
  ASSUME TypeOK, NEW s \in Store, OpenTemp(s)
  PROVE  /\ temp' \in 0..MaxInode
         /\ temp = NoFile => temp' \in Unused
         /\ temp # NoFile => temp' = temp
         /\ files' = [files EXCEPT ![temp'] = <<>>] /\ fd' = [fd EXCEPT ![s] = temp']
<1>1. /\ temp' = IF temp = NoFile THEN CHOOSE i \in Unused : TRUE ELSE temp
      /\ temp = NoFile => Unused # {}
      /\ files' = [files EXCEPT ![temp'] = <<>>] /\ fd' = [fd EXCEPT ![s] = temp']
  BY DEF OpenTemp
<1>2. Unused # {} => (CHOOSE i \in Unused : TRUE) \in Unused
  OBVIOUS
<1>3. Unused \subseteq 0..MaxInode
  BY DEF Unused
<1> QED
  BY <1>1, <1>2, <1>3 DEF TypeOK

\* The types are kept in a compact().
LEMMA TypeCompacts ==
  ASSUME TypeOK, TodoInv, NEW s \in Store,
         \/ OpenTemp(s) \/ WriteTemp(s) \/ TempFails(s) \/ Rename(s) \/ Reopen(s) \/ RenameFails(s)
  PROVE  TypeOK' /\ TodoInv'
<1>1. CASE OpenTemp(s)
  <2>1. PICK keys \in Orders(DOMAIN data[s]) :
          todo' = [todo EXCEPT ![s] = Lines(Dump(data[s], keys))]
    BY <1>1 DEF OpenTemp
  <2>2. PICK q : q = Lines(Dump(data[s], keys))
    OBVIOUS
  <2>3. q \in Seq(Record \ {Torn}) /\ Paired(q)
    <3>1. IsMap(data[s])
      BY DEF TypeOK
    <3> QED
      BY <2>2, <3>1, DumpFacts, LinesFacts
  <2>4. /\ stage[s] = "prune" /\ stage' = [stage EXCEPT ![s] = "temp"]
        /\ todo' = [todo EXCEPT ![s] = q] /\ UNCHANGED <<path, now, data, wal, ops, acked, lossy>>
    BY <1>1, <2>1, <2>2 DEF OpenTemp
  <2>5. /\ temp' \in 0..MaxInode /\ files' = [files EXCEPT ![temp'] = <<>>]
        /\ fd' = [fd EXCEPT ![s] = temp']
    BY <1>1, TempFile
  <2>6. files' \in [0..MaxInode -> Seq(Record)] /\ fd' \in [Store -> 0..MaxInode]
    BY <2>5 DEF TypeOK
  <2>7. TypeOK'
    BY <2>3, <2>4, <2>5, <2>6 DEF TypeOK
  <2>8. TodoInv'
    BY <2>3, <2>4 DEF TypeOK, TodoInv
  <2> QED
    BY <2>7, <2>8
<1>2. CASE WriteTemp(s)
  <2>1. PICK q, w : q = todo[s] /\ w = Head(todo[s])
    OBVIOUS
  <2>2. /\ stage[s] = "temp" /\ q # <<>> /\ todo' = [todo EXCEPT ![s] = Tail(q)]
        /\ files' = [files EXCEPT ![fd[s]] = Append(files[fd[s]], w)]
        /\ UNCHANGED <<path, temp, now, stage, data, wal, fd, ops, acked, lossy>>
    BY <1>2, <2>1 DEF WriteTemp, TypeOK
  <2>3. w \in Record /\ Tail(q) \in Seq(Record \ {Torn}) /\ Paired(Tail(q))
    BY <2>1, <2>2, HeadFacts
  <2>4. files' \in [0..MaxInode -> Seq(Record)]
    <3>1. fd[s] \in 0..MaxInode /\ files[fd[s]] \in Seq(Record)
      BY DEF TypeOK
    <3>2. Append(files[fd[s]], w) \in Seq(Record)
      BY <2>3, <3>1
    <3> QED
      BY <2>2, <3>1, <3>2 DEF TypeOK
  <2>5. TypeOK'
    BY <2>2, <2>3, <2>4 DEF TypeOK
  <2>6. TodoInv'
    BY <2>2, <2>3 DEF TypeOK, TodoInv
  <2> QED
    BY <2>5, <2>6
<1>3. CASE TempFails(s)
  <2>1. TypeOK'
    BY <1>3, EmptyFacts DEF TypeOK, TempFails
  <2>2. TodoInv'
    BY <1>3, EmptyFacts DEF TypeOK, TodoInv, TempFails
  <2> QED
    BY <2>1, <2>2
<1>4. CASE Rename(s)
  <2>1. TypeOK'
    BY <1>4 DEF TypeOK, Rename
  <2>2. TodoInv'
    BY <1>4 DEF TypeOK, TodoInv, Rename
  <2> QED
    BY <2>1, <2>2
<1>5. CASE Reopen(s)
  <2>1. TypeOK'
    BY <1>5 DEF TypeOK, Reopen
  <2>2. TodoInv'
    BY <1>5 DEF TypeOK, TodoInv, Reopen
  <2> QED
    BY <2>1, <2>2
<1>6. CASE RenameFails(s)
  <2>1. TypeOK'
    BY <1>6 DEF TypeOK, RenameFails
  <2>2. TodoInv'
    BY <1>6 DEF TypeOK, TodoInv, RenameFails
  <2> QED
    BY <2>1, <2>2
<1> QED
  BY <1>1, <1>2, <1>3, <1>4, <1>5, <1>6

\* Every step keeps the types.
LEMMA TypeStep ==
  ASSUME TypeOK, TodoInv, [Next]_vars
  PROVE  TypeOK' /\ TodoInv'
<1>1. CASE UNCHANGED vars
  <2>1. TypeOK'
    BY <1>1 DEF TypeOK, vars
  <2>2. TodoInv'
    BY <1>1 DEF TodoInv, vars
  <2> QED
    BY <2>1, <2>2
<1>2. CASE Tick
  <2>1. now' \in 0..MaxTime
    BY <1>2, KVAssumption DEF Tick, TypeOK
  <2>2. TypeOK'
    BY <1>2, <2>1 DEF Tick, TypeOK
  <2>3. TodoInv'
    BY <1>2 DEF Tick, TodoInv
  <2> QED
    BY <2>2, <2>3
<1>3. CASE Crash
  <2>1. TypeOK'
    BY <1>3, EmptyFacts DEF TypeOK, Crash
  <2>2. TodoInv'
    BY <1>3, EmptyFacts DEF TodoInv, Crash
  <2> QED
    BY <2>1, <2>2
<1>4. ASSUME NEW s \in Store, StoreStep(s) PROVE TypeOK' /\ TodoInv'
  BY <1>4, TypeStarts, TypeWrites, TypeCompacts DEF StoreStep
<1> QED
  BY <1>1, <1>2, <1>3, <1>4, NextSteps

\* The types hold at the start.
LEMMA TypeInit == Init => TypeOK /\ TodoInv
<1> SUFFICES ASSUME Init PROVE TypeOK /\ TodoInv
  OBVIOUS
<1>1. 0 \in 0..MaxInode /\ 0 \in 0..MaxTime /\ 0 \in 0..MaxOps
  BY KVAssumption
<1>2. TypeOK
  <2>1. files \in [0..MaxInode -> Seq(Record)]
    BY DEF Init
  <2>2. todo \in [Store -> Seq(Record \ {Torn})]
    BY EmptyFacts DEF Init
  <2>3. /\ DOMAIN data = Store /\ (\A s \in Store : IsMap(data[s])) /\ IsMap(acked)
        /\ \A s \in Store : stage[s] = "closed" => data[s] = Empty /\ wal[s] = NoFile
    BY EmptyFacts DEF Init
  <2>4. /\ path \in 0..MaxInode /\ temp \in 0..MaxInode \cup {NoFile}
        /\ now \in 0..MaxTime /\ ops \in 0..MaxOps /\ lossy \in BOOLEAN
        /\ stage \in [Store -> {"closed", "idle", "log", "prune", "temp", "reopen"}]
        /\ wal \in [Store -> 0..MaxInode \cup {NoFile}] /\ fd \in [Store -> 0..MaxInode]
    BY <1>1 DEF Init
  <2> QED
    BY <2>1, <2>2, <2>3, <2>4 DEF TypeOK
<1>3. TodoInv
  BY EmptyFacts DEF Init, TodoInv
<1> QED
  BY <1>2, <1>3

\* Every variable keeps its type, with any number of stores on the path: what is in
\* the files can be read, numbers keep their width, and a closed store holds neither
\* entries nor a file.
THEOREM KVTypeCorrect == Spec => []TypeOK
<1>1. Init => TypeOK /\ TodoInv
  BY TypeInit
<1>2. (TypeOK /\ TodoInv) /\ [Next]_vars => (TypeOK /\ TodoInv)'
  BY TypeStep
<1> QED
  BY <1>1, <1>2, PTL DEF Spec


-----------------------------------------------------------------------------
(* The file a compact() writes *)

\* The line that is being written is the last one.
Complete(file, q, t) == Opening(q) \/ Parsed(file, t).line = <<>>

\* An entry of the map as a record
EntryRec(d, k) == SetRec(k, d[k].val, d[k].exp)

\* Of the map d, what a caller can see is in m or has yet to be written, and m has
\* nothing else.
Dumped(m, d, q, t) ==
  /\ \A n \in DOMAIN q : q[n] # NL => \E k \in DOMAIN d : q[n] = EntryRec(d, k)
  /\ \A k : Alive(m, k, t) => k \in DOMAIN d /\ m[k] = d[k]
  /\ \A k : Alive(d, k, t) => Alive(m, k, t) \/ \E n \in DOMAIN q : q[n] = EntryRec(d, k)

\* The record of an entry.
LEMMA EntryRecFacts ==
  ASSUME NEW d, IsMap(d), NEW k \in DOMAIN d
  PROVE  /\ EntryRec(d, k) \in Record /\ EntryRec(d, k) # NL /\ EntryRec(d, k) # Torn
         /\ EntryRec(d, k).op = "set" /\ EntryRec(d, k).key = k
         /\ [val |-> EntryRec(d, k).val, exp |-> EntryRec(d, k).exp] = d[k]
         /\ \A t : IsExpired(EntryRec(d, k), t) <=> IsExpired(d[k], t)
<1>1. k \in Key /\ d[k] \in Entry
  BY DEF IsMap
<1>2. PICK v \in Value, e \in Nat \cup {NoExp} : d[k] = [val |-> v, exp |-> e]
  BY <1>1 DEF Entry
<1>3. EntryRec(d, k) = SetRec(k, v, e)
  BY <1>2 DEF EntryRec
<1>4. /\ SetRec(k, v, e) \in Record /\ SetRec(k, v, e).op = "set" /\ SetRec(k, v, e).key = k
      /\ SetRec(k, v, e).val = v /\ SetRec(k, v, e).exp = e
  BY <1>1, RecordFacts
<1>5. SetRec(k, v, e) # NL /\ SetRec(k, v, e) # Torn
  BY <1>4, RecordFacts
<1>6. \A t : IsExpired(SetRec(k, v, e), t) <=> IsExpired(d[k], t)
  BY <1>2, <1>4 DEF IsExpired
<1>7. [val |-> SetRec(k, v, e).val, exp |-> SetRec(k, v, e).exp] = d[k]
  BY <1>2, <1>4
<1> QED
  BY <1>3, <1>4, <1>5, <1>6, <1>7

\* The file is empty at first.
LEMMA DumpStart ==
  ASSUME NEW d, IsMap(d), NEW keys \in Orders(DOMAIN d), NEW t
  PROVE  /\ Complete(<<>>, Lines(Dump(d, keys)), t)
         /\ Dumped(Replay(<<>>, t), d, Lines(Dump(d, keys)), t)
<1>1. Parsed(<<>>, t).line = <<>> /\ Parsed(<<>>, t).map = <<>>
  BY ParsedEmpty DEF Start, Empty
<1>2. Replay(<<>>, t) = <<>>
  BY <1>1 DEF Replay, ReplayLine
<1>3. PICK r, q : r = Dump(d, keys) /\ q = Lines(Dump(d, keys))
  OBVIOUS
<1>4. /\ r \in Seq(Logged)
      /\ \A n \in DOMAIN r : \E k \in DOMAIN d : r[n] = EntryRec(d, k)
      /\ \A k \in DOMAIN d : \E n \in DOMAIN r : r[n] = EntryRec(d, k)
  BY <1>3, DumpFacts DEF EntryRec
<1>5. /\ \A n \in DOMAIN q : q[n] # NL => \E m \in DOMAIN r : q[n] = r[m]
      /\ \A m \in DOMAIN r : \E n \in DOMAIN q : q[n] = r[m]
  BY <1>3, <1>4, LinesFacts
<1>6. \A k : ~Alive(<<>>, k, t)
  BY DEF Alive
<1>7. \A n \in DOMAIN q : q[n] # NL => \E k \in DOMAIN d : q[n] = EntryRec(d, k)
  BY <1>4, <1>5
<1>8. \A k : Alive(d, k, t) => \E n \in DOMAIN q : q[n] = EntryRec(d, k)
  BY <1>4, <1>5 DEF Alive
<1>9. Dumped(<<>>, d, q, t)
  BY <1>6, <1>7, <1>8 DEF Dumped
<1> QED
  BY <1>1, <1>2, <1>3, <1>9 DEF Complete

\* One more write of it.
LEMMA DumpWrite ==
  ASSUME NEW file \in Seq(Record), NEW d, IsMap(d), NEW q \in Seq(Record \ {Torn}), Paired(q),
         q # <<>>, NEW t \in Nat, Complete(file, q, t), Dumped(Replay(file, t), d, q, t)
  PROVE  /\ Complete(Append(file, Head(q)), Tail(q), t)
         /\ Dumped(Replay(Append(file, Head(q)), t), d, Tail(q), t)
<1>1. PICK w, p : w = Head(q) /\ p = Tail(q)
  OBVIOUS
<1>2. /\ w \in Record \ {Torn} /\ p \in Seq(Record \ {Torn})
      /\ w = NL => ~Opening(p)
      /\ w # NL => Opening(p)
      /\ \A n \in DOMAIN q : q[n] = w \/ \E j \in DOMAIN p : q[n] = p[j]
      /\ \A n \in DOMAIN p : \E j \in DOMAIN q : p[n] = q[j]
  BY <1>1, TailFacts
<1>3. 1 \in DOMAIN q /\ q[1] = w
  BY <1>1
<1>4. PICK m : m = Replay(file, t)
  OBVIOUS
<1>5. /\ \A n \in DOMAIN q : q[n] # NL => \E k \in DOMAIN d : q[n] = EntryRec(d, k)
      /\ \A k : Alive(m, k, t) => k \in DOMAIN d /\ m[k] = d[k]
      /\ \A k : Alive(d, k, t) => Alive(m, k, t) \/ \E n \in DOMAIN q : q[n] = EntryRec(d, k)
  BY <1>4 DEF Dumped
<1>6. \A n \in DOMAIN p : p[n] # NL => \E k \in DOMAIN d : p[n] = EntryRec(d, k)
  BY <1>2, <1>5
<1>7. CASE w = NL
  <2>1. Parsed(Append(file, w), t).line = <<>> /\ Replay(Append(file, w), t) = m
    BY <1>4, <1>7, AppendEnd
  <2>2. ASSUME NEW k, Alive(d, k, t)
        PROVE  Alive(m, k, t) \/ \E n \in DOMAIN p : p[n] = EntryRec(d, k)
    <3>1. EntryRec(d, k) # NL
      BY <2>2, EntryRecFacts DEF Alive
    <3> QED
      BY <1>2, <1>5, <1>7, <2>2, <3>1
  <2>3. Dumped(m, d, p, t)
    BY <1>5, <1>6, <2>2 DEF Dumped
  <2> QED
    BY <1>1, <2>1, <2>3 DEF Complete
<1>8. CASE w # NL
  <2>1. Parsed(file, t).line = <<>>
    BY <1>1, <1>8 DEF Complete, Opening
  <2>2. PICK k \in DOMAIN d : w = EntryRec(d, k)
    BY <1>3, <1>5, <1>8
  <2>3. PICK a, b : a = Replay(Append(file, w), t) /\ b = Apply(m, w)
    OBVIOUS
  <2>4. /\ w \in Record /\ w # NL /\ w # Torn /\ w.op = "set" /\ w.key = k
        /\ [val |-> w.val, exp |-> w.exp] = d[k]
        /\ IsExpired(w, t) <=> IsExpired(d[k], t)
    BY <2>2, EntryRecFacts
  <2>5. Same(a, b, t)
    <3>1. a = ReplayRecord(m, w, t)
      BY <1>4, <2>1, <2>3, <2>4, AppendRecord
    <3>2. Same(m, m, t) /\ t <= t
      BY SameOrder
    <3> QED
      BY <2>3, <2>4, <3>1, <3>2, ReplaySame
  <2>6. ASSUME NEW x
        PROVE  /\ Alive(a, x, t) <=> IF x = k THEN ~IsExpired(d[k], t) ELSE Alive(m, x, t)
               /\ x = k /\ Alive(a, x, t) => a[x] = d[k]
               /\ x # k /\ Alive(a, x, t) => a[x] = m[x]
    <3>1. (Alive(a, x, t) <=> Alive(b, x, t)) /\ (Alive(a, x, t) => a[x] = b[x])
      BY <2>5 DEF Same
    <3>2. /\ Alive(b, x, t) <=> IF x = k THEN ~IsExpired(w, t) ELSE Alive(m, x, t)
          /\ x = k => b[x] = [val |-> w.val, exp |-> w.exp]
      BY <2>3, <2>4, AliveApply
    <3>3. ASSUME x # k, Alive(b, x, t) PROVE b[x] = m[x]
      BY <2>3, <2>4, <3>3, ApplyOther
    <3> QED
      BY <2>4, <3>1, <3>2, <3>3
  <2>7. ASSUME NEW x, Alive(a, x, t) PROVE x \in DOMAIN d /\ a[x] = d[x]
    BY <1>5, <2>2, <2>6, <2>7
  <2>8. ASSUME NEW x, Alive(d, x, t)
        PROVE  Alive(a, x, t) \/ \E n \in DOMAIN p : p[n] = EntryRec(d, x)
    <3>1. CASE x = k
      BY <2>6, <2>8, <3>1 DEF Alive
    <3>2. CASE x # k
      <4>1. EntryRec(d, x) # w
        BY <2>4, <2>8, <3>2, EntryRecFacts DEF Alive
      <4> QED
        BY <1>2, <1>5, <2>6, <2>8, <3>2, <4>1
    <3> QED
      BY <3>1, <3>2
  <2>9. Dumped(a, d, p, t)
    BY <1>6, <2>7, <2>8 DEF Dumped
  <2>10. Opening(p)
    BY <1>2, <1>8
  <2> QED
    BY <1>1, <2>3, <2>9, <2>10 DEF Complete
<1> QED
  BY <1>7, <1>8

\* Time passes.
LEMMA DumpTime ==
  ASSUME NEW file \in Seq(Record), NEW d, IsMap(d), NEW q, NEW t \in Nat, NEW u \in Nat, t <= u,
         Dumped(Replay(file, t), d, q, t)
  PROVE  Dumped(Replay(file, u), d, q, u)
<1>1. PICK m, n : m = Replay(file, t) /\ n = Replay(file, u)
  OBVIOUS
<1>2. IsMap(m) /\ IsMap(n) /\ Same(m, n, u)
  BY <1>1, ParsedType, ParsedTime
<1>3. \A e \in Entry : ~IsExpired(e, u) => ~IsExpired(e, t)
  BY DEF IsExpired, Entry, NoExp
<1>4. \A k : (Alive(m, k, u) => Alive(m, k, t)) /\ (Alive(d, k, u) => Alive(d, k, t))
  BY <1>2, <1>3 DEF Alive, IsMap
<1>5. /\ \A j \in DOMAIN q : q[j] # NL => \E k \in DOMAIN d : q[j] = EntryRec(d, k)
      /\ \A k : Alive(m, k, t) => k \in DOMAIN d /\ m[k] = d[k]
      /\ \A k : Alive(d, k, t) => Alive(m, k, t) \/ \E j \in DOMAIN q : q[j] = EntryRec(d, k)
  BY <1>1 DEF Dumped
<1>6. \A k : (Alive(m, k, u) <=> Alive(n, k, u)) /\ (Alive(m, k, u) => m[k] = n[k])
  BY <1>2 DEF Same
<1>7. \A k : Alive(n, k, u) => k \in DOMAIN d /\ n[k] = d[k]
  BY <1>4, <1>5, <1>6
<1>8. ASSUME NEW k, Alive(d, k, u)
      PROVE  Alive(n, k, u) \/ \E j \in DOMAIN q : q[j] = EntryRec(d, k)
  <2>1. CASE Alive(m, k, t)
    <3>1. Alive(m, k, u)
      BY <1>5, <1>8, <2>1 DEF Alive
    <3> QED
      BY <1>6, <3>1
  <2>2. CASE ~Alive(m, k, t)
    BY <1>4, <1>5, <1>8, <2>2
  <2> QED
    BY <2>1, <2>2
<1>9. Dumped(n, d, q, u)
  BY <1>5, <1>7, <1>8 DEF Dumped
<1> QED
  BY <1>1, <1>9

\* When all is written the file holds the map.
LEMMA DumpDone ==
  ASSUME NEW m, NEW d, NEW t, Dumped(m, d, <<>>, t)
  PROVE  Same(m, d, t)
<1>1. /\ \A k : Alive(m, k, t) => k \in DOMAIN d /\ m[k] = d[k]
      /\ \A k : Alive(d, k, t) => Alive(m, k, t)
  BY DEF Dumped
<1>2. \A k : Alive(m, k, t) => Alive(d, k, t)
  BY <1>1 DEF Alive
<1> QED
  BY <1>1, <1>2 DEF Same


-----------------------------------------------------------------------------
(* One store on its path *)

OneStore == \A q, r \in Store : q = r

\* Where a store writes
Placed(s) ==
  /\ wal[s] \in {path, NoFile}
  /\ ~lossy /\ stage[s] \notin {"closed", "reopen"} => wal[s] = path
  /\ stage[s] = "temp" => fd[s] = temp

PlaceInv == temp # path /\ \A s \in Store : Placed(s)

\* A running compact() has written a part of the map.
DumpInv ==
  \A s \in Store : stage[s] = "temp" =>
    /\ Complete(files[temp], todo[s], now)
    /\ Dumped(Replay(files[temp], now), data[s], todo[s], now)

\* After the rename the log is the map.
ReopenInv ==
  \A s \in Store : stage[s] = "reopen" =>
    /\ Parsed(files[path], now).line = <<>>
    /\ Same(Replay(files[path], now), data[s], now)

\* The log makes what the records so far have made, and so does the map of an open
\* store; a line without an end is one that is being written.
LogInv ==
  ~lossy =>
    /\ Same(Replay(files[path], now), acked, now)
    /\ \A s \in Store : \/ stage[s] \in {"log", "prune"} /\ Opening(todo[s])
                        \/ Parsed(files[path], now).line = <<>>
    /\ \A s \in Store : stage[s] # "closed" => Same(data[s], acked, now)

KVInv == PlaceInv /\ DumpInv /\ ReopenInv /\ LogInv

\* It holds at the start.
LEMMA KVInvInit == Init => KVInv
<1> SUFFICES ASSUME Init PROVE KVInv
  OBVIOUS
<1>1. /\ path = 0 /\ temp = -1 /\ acked = <<>> /\ files[path] = <<>>
      /\ \A s \in Store : stage[s] = "closed" /\ wal[s] = NoFile
  BY KVAssumption DEF Init, NoFile, Empty
<1>2. Parsed(<<>>, now).line = <<>> /\ Parsed(<<>>, now).map = <<>>
  BY ParsedEmpty DEF Start, Empty
<1>3. Replay(<<>>, now) = <<>>
  BY <1>2 DEF Replay, ReplayLine
<1>4. PlaceInv
  BY <1>1 DEF PlaceInv, Placed
<1>5. DumpInv /\ ReopenInv
  BY <1>1 DEF DumpInv, ReopenInv
<1>6. LogInv
  BY <1>1, <1>2, <1>3, SameOrder DEF LogInv
<1> QED
  BY <1>4, <1>5, <1>6 DEF KVInv

\* It is kept when time passes.
LEMMA KVInvTick ==
  ASSUME TypeOK, KVInv, Tick
  PROVE  KVInv'
<1>1. now \in Nat /\ now' \in Nat /\ now <= now'
  BY KVAssumption DEF TypeOK, Tick
<1>2. UNCHANGED <<files, path, temp, stage, todo, data, wal, fd, ops, acked, lossy>>
  BY DEF Tick
<1>3. \A i \in 0..MaxInode : files[i] \in Seq(Record)
  BY DEF TypeOK
<1>4. \A i \in 0..MaxInode : /\ Parsed(files[i], now).line = Parsed(files[i], now').line
                             /\ Same(Replay(files[i], now), Replay(files[i], now'), now')
                             /\ IsMap(Replay(files[i], now))
  BY <1>1, <1>3, ParsedTime, ParsedType
<1>5. path \in 0..MaxInode /\ IsMap(acked) /\ \A s \in Store : IsMap(data[s])
  BY DEF TypeOK
<1>6. PlaceInv'
  BY <1>2 DEF KVInv, PlaceInv, Placed
<1>7. DumpInv'
  <2> SUFFICES ASSUME NEW s \in Store, stage[s] = "temp"
               PROVE  /\ Complete(files[temp], todo[s], now')
                      /\ Dumped(Replay(files[temp], now'), data[s], todo[s], now')
    BY <1>2 DEF DumpInv
  <2>1. temp \in 0..MaxInode
    BY DEF KVInv, PlaceInv, Placed, TypeOK
  <2>2. /\ Complete(files[temp], todo[s], now)
        /\ Dumped(Replay(files[temp], now), data[s], todo[s], now)
    BY DEF KVInv, DumpInv
  <2>3. Complete(files[temp], todo[s], now')
    BY <1>4, <2>1, <2>2 DEF Complete
  <2>4. Dumped(Replay(files[temp], now'), data[s], todo[s], now')
    BY <1>1, <1>3, <1>5, <2>1, <2>2, DumpTime
  <2> QED
    BY <2>3, <2>4
<1>8. ReopenInv'
  <2> SUFFICES ASSUME NEW s \in Store, stage[s] = "reopen"
               PROVE  /\ Parsed(files[path], now').line = <<>>
                      /\ Same(Replay(files[path], now'), data[s], now')
    BY <1>2 DEF ReopenInv
  <2>1. Parsed(files[path], now).line = <<>> /\ Same(Replay(files[path], now), data[s], now)
    BY DEF KVInv, ReopenInv
  <2>2. Same(Replay(files[path], now), data[s], now')
    BY <1>1, <1>4, <1>5, <2>1, SameTime
  <2> QED
    BY <1>4, <1>5, <2>1, <2>2, SameOrder
<1>9. LogInv'
  <2> SUFFICES ASSUME ~lossy
               PROVE  /\ Same(Replay(files[path], now'), acked, now')
                      /\ \A s \in Store : \/ stage[s] \in {"log", "prune"} /\ Opening(todo[s])
                                          \/ Parsed(files[path], now').line = <<>>
                      /\ \A s \in Store : stage[s] # "closed" => Same(data[s], acked, now')
    BY <1>2 DEF LogInv
  <2>1. /\ Same(Replay(files[path], now), acked, now)
        /\ \A s \in Store : \/ stage[s] \in {"log", "prune"} /\ Opening(todo[s])
                            \/ Parsed(files[path], now).line = <<>>
        /\ \A s \in Store : stage[s] # "closed" => Same(data[s], acked, now)
    BY DEF KVInv, LogInv
  <2>2. Same(Replay(files[path], now), acked, now')
    BY <1>1, <1>4, <1>5, <2>1, SameTime
  <2>3. Same(Replay(files[path], now'), acked, now')
    BY <1>4, <1>5, <2>2, SameOrder
  <2>4. \A s \in Store : stage[s] # "closed" => Same(data[s], acked, now')
    BY <1>1, <1>5, <2>1, SameTime
  <2>5. Parsed(files[path], now).line = Parsed(files[path], now').line
    BY <1>4, <1>5
  <2> QED
    BY <2>1, <2>3, <2>4, <2>5
<1> QED
  BY <1>6, <1>7, <1>8, <1>9 DEF KVInv

\* It is kept when the process dies.
LEMMA KVInvCrash ==
  ASSUME TypeOK, KVInv, Crash
  PROVE  KVInv'
<1>1. /\ UNCHANGED <<files, path, temp, now, acked>>
      /\ lossy' = (lossy \/ BetweenWrites)
      /\ \A s \in Store : stage'[s] = "closed" /\ wal'[s] = NoFile
  BY DEF Crash
<1>2. PlaceInv'
  BY <1>1 DEF KVInv, PlaceInv, Placed
<1>3. DumpInv' /\ ReopenInv'
  BY <1>1 DEF DumpInv, ReopenInv
<1>4. LogInv'
  <2> SUFFICES ASSUME ~lossy, ~BetweenWrites
               PROVE  /\ Same(Replay(files[path], now), acked, now)
                      /\ \A s \in Store : Parsed(files[path], now).line = <<>>
    BY <1>1 DEF LogInv
  <2>1. \A s \in Store : ~(stage[s] \in {"log", "prune"} /\ Opening(todo[s]))
    BY DEF BetweenWrites, Opening
  <2> QED
    BY <2>1 DEF KVInv, LogInv
<1> QED
  BY <1>2, <1>3, <1>4 DEF KVInv

\* It is kept when an operation starts.
LEMMA KVInvStarts ==
  ASSUME OneStore, TypeOK, TodoInv, KVInv, NEW s \in Store,
         LogOp(s) \/ Open(s) \/ Compact(s) \/ Close(s)
  PROVE  KVInv'
<1>a. \A x \in Store : x = s
  BY DEF OneStore
<1>b. DOMAIN stage = Store /\ DOMAIN todo = Store /\ DOMAIN data = Store /\ DOMAIN wal = Store
  BY DEF TypeOK
<1>1. ASSUME stage[s] = "idle", NEW q, ~Opening(q), todo' = [todo EXCEPT ![s] = q],
             NEW z \in {"idle", "log", "prune"}, stage' = [stage EXCEPT ![s] = z],
             UNCHANGED <<files, path, temp, now, data, wal, fd, acked, lossy>>
      PROVE  KVInv'
  <2>1. stage'[s] = z /\ todo'[s] = q /\ z \notin {"closed", "temp", "reopen"}
    BY <1>1, <1>b
  <2>2. PlaceInv'
    BY <1>1, <1>a, <2>1 DEF KVInv, PlaceInv, Placed
  <2>3. DumpInv' /\ ReopenInv'
    BY <1>a, <2>1 DEF DumpInv, ReopenInv
  <2>4. LogInv'
    BY <1>1, <1>a, <2>1 DEF KVInv, LogInv
  <2> QED
    BY <2>2, <2>3, <2>4 DEF KVInv
<1>2. CASE LogOp(s)
  <2>1. PICK recs \in Seq(Logged) : Logs(s, recs)
    BY <1>2 DEF LogOp
  <2>2. PICK q : q = Lines(recs)
    OBVIOUS
  <2>3. ~Opening(q)
    BY <2>2, LinesFacts
  <2>4. PICK z \in {"idle", "log", "prune"} : stage' = [stage EXCEPT ![s] = z]
    BY <2>1 DEF Logs
  <2>5. /\ stage[s] = "idle" /\ todo' = [todo EXCEPT ![s] = q]
        /\ UNCHANGED <<files, path, temp, now, data, wal, fd, acked, lossy>>
    BY <1>2, <2>1, <2>2 DEF LogOp, Logs
  <2> QED
    BY <1>1, <2>3, <2>4, <2>5
<1>3. CASE Compact(s)
  <2>1. PICK keys \in Orders(Expired(s)) : todo' = [todo EXCEPT ![s] = Lines(Dels(keys))]
    BY <1>3 DEF Compact
  <2>2. PICK q : q = Lines(Dels(keys))
    OBVIOUS
  <2>3. ~Opening(q)
    BY <2>2, ExpiredOrder, LinesFacts
  <2>4. /\ stage[s] = "idle" /\ todo' = [todo EXCEPT ![s] = q]
        /\ stage' = [stage EXCEPT ![s] = "prune"]
        /\ UNCHANGED <<files, path, temp, now, data, wal, fd, acked, lossy>>
    BY <1>3, <2>1, <2>2 DEF Compact, Starts
  <2> QED
    BY <1>1, <2>3, <2>4
<1>4. CASE Open(s)
  <2>1. /\ stage[s] = "closed" /\ stage'[s] = "idle" /\ wal'[s] = path
        /\ data'[s] = Replay(files[path], now)
        /\ UNCHANGED <<files, path, temp, now, acked, lossy>>
    BY <1>4, <1>b DEF Open
  <2>2. PlaceInv'
    BY <1>a, <2>1 DEF KVInv, PlaceInv, Placed
  <2>3. DumpInv' /\ ReopenInv'
    BY <1>a, <2>1 DEF DumpInv, ReopenInv
  <2>4. LogInv'
    BY <1>a, <2>1 DEF KVInv, LogInv
  <2> QED
    BY <2>2, <2>3, <2>4 DEF KVInv
<1>5. CASE Close(s)
  <2>1. /\ stage[s] = "idle" /\ stage'[s] = "closed" /\ wal'[s] = NoFile
        /\ UNCHANGED <<files, path, temp, now, acked, lossy>>
    BY <1>5, <1>b DEF Close
  <2>2. PlaceInv'
    BY <1>a, <2>1 DEF KVInv, PlaceInv, Placed
  <2>3. DumpInv' /\ ReopenInv'
    BY <1>a, <2>1 DEF DumpInv, ReopenInv
  <2>4. LogInv'
    BY <1>a, <2>1 DEF KVInv, LogInv
  <2> QED
    BY <2>2, <2>3, <2>4 DEF KVInv
<1> QED
  BY <1>2, <1>3, <1>4, <1>5


\* It is kept when an operation writes to the log.
LEMMA KVInvWrite ==
  ASSUME OneStore, TypeOK, TodoInv, KVInv, NEW s \in Store, Write(s)
  PROVE  KVInv'
<1>a. \A x \in Store : x = s
  BY DEF OneStore
<1>1. PICK q, w : q = todo[s] /\ w = Head(todo[s])
  OBVIOUS
<1>2. stage[s] \in {"log", "prune"} /\ q # <<>>
  BY <1>1 DEF Write
<1>3. q \in Seq(Record \ {Torn}) /\ Paired(q) /\ w = Head(q) /\ w \in Record /\ w # Torn
  BY <1>1, <1>2, HeadFacts
<1>4. /\ w = NL => ~Opening(Tail(q))
      /\ w # NL => Opening(Tail(q)) /\ Len(q) # 1
  BY <1>2, <1>3, TailFacts
<1>5. /\ IF w = NL THEN UNCHANGED <<data, acked>>
         ELSE data'[s] = Apply(data[s], w) /\ acked' = Apply(acked, w)
      /\ files' = IF wal[s] = NoFile THEN files
                  ELSE [files EXCEPT ![wal[s]] = Append(files[wal[s]], w)]
      /\ todo'[s] = Tail(q)
      /\ stage'[s] = IF stage[s] = "log" /\ Len(q) = 1 THEN "idle" ELSE stage[s]
      /\ UNCHANGED <<path, temp, now, wal, fd, lossy>>
  BY <1>1 DEF Write, TypeOK
<1>6. stage'[s] \in {"idle", "log", "prune"}
  BY <1>2, <1>5
<1>7. PlaceInv'
  BY <1>2, <1>5, <1>6, <1>a DEF KVInv, PlaceInv, Placed
<1>8. DumpInv' /\ ReopenInv'
  BY <1>6, <1>a DEF DumpInv, ReopenInv
<1>9. LogInv'
  <2> SUFFICES ASSUME ~lossy
               PROVE  /\ Same(Replay(files'[path], now), acked', now)
                      /\ \/ stage'[s] \in {"log", "prune"} /\ Opening(todo'[s])
                         \/ Parsed(files'[path], now).line = <<>>
                      /\ Same(data'[s], acked', now)
    BY <1>5, <1>a DEF LogInv
  <2>1. /\ Same(Replay(files[path], now), acked, now)
        /\ Opening(q) \/ Parsed(files[path], now).line = <<>>
        /\ Same(data[s], acked, now)
    BY <1>1, <1>2 DEF KVInv, LogInv
  <2>2. PICK f : f = files[path]
    OBVIOUS
  <2>3. f \in Seq(Record) /\ files'[path] = Append(f, w)
    <3>1. wal[s] = path /\ path \in 0..MaxInode /\ path # NoFile
      <4>1. stage[s] \notin {"closed", "reopen"}
        BY <1>2
      <4>2. wal[s] = path
        BY <4>1 DEF KVInv, PlaceInv, Placed
      <4> QED
        BY <4>2 DEF TypeOK, NoFile
    <3> QED
      BY <1>5, <2>2, <3>1 DEF TypeOK
  <2>4. now \in Nat /\ now <= now
    BY KVAssumption DEF TypeOK
  <2>5. CASE w = NL
    <3>1. Parsed(Append(f, w), now).line = <<>> /\ Replay(Append(f, w), now) = Replay(f, now)
      BY <2>3, <2>5, AppendEnd
    <3> QED
      BY <1>5, <2>1, <2>2, <2>3, <2>5, <3>1
  <2>6. CASE w # NL
    <3>1. Parsed(f, now).line = <<>>
      BY <1>3, <2>1, <2>2, <2>6 DEF Opening
    <3>2. Replay(Append(f, w), now) = ReplayRecord(Replay(f, now), w, now)
      BY <1>3, <2>3, <2>6, <3>1, AppendRecord
    <3>3. Same(ReplayRecord(Replay(f, now), w, now), Apply(acked, w), now)
      BY <1>3, <2>1, <2>2, <2>4, <2>6, ReplaySame
    <3>4. Same(Apply(data[s], w), Apply(acked, w), now)
      BY <1>3, <2>1, <2>6, ApplySame
    <3>5. stage'[s] \in {"log", "prune"} /\ Opening(todo'[s])
      BY <1>2, <1>4, <1>5, <2>6
    <3> QED
      BY <1>5, <2>3, <2>6, <3>2, <3>3, <3>4, <3>5
  <2> QED
    BY <2>5, <2>6
<1> QED
  BY <1>7, <1>8, <1>9 DEF KVInv

\* It is kept when a write fails: the log is lossy then.
LEMMA KVInvWriteFails ==
  ASSUME OneStore, TypeOK, TodoInv, KVInv, NEW s \in Store, WriteFails(s)
  PROVE  KVInv'
<1>a. \A x \in Store : x = s
  BY DEF OneStore
<1>1. stage[s] \in {"log", "prune"} /\ stage'[s] \in {"idle", "log", "prune"}
  BY DEF WriteFails, TypeOK
<1>2. lossy' = TRUE /\ UNCHANGED <<path, temp, wal>>
  BY DEF WriteFails
<1>3. PlaceInv'
  BY <1>1, <1>2, <1>a DEF KVInv, PlaceInv, Placed
<1>4. DumpInv' /\ ReopenInv'
  BY <1>1, <1>a DEF DumpInv, ReopenInv
<1>5. LogInv'
  BY <1>2 DEF LogInv
<1> QED
  BY <1>3, <1>4, <1>5 DEF KVInv

\* It is kept when a compact() opens the temporary file.
LEMMA KVInvOpenTemp ==
  ASSUME OneStore, TypeOK, TodoInv, KVInv, NEW s \in Store, OpenTemp(s)
  PROVE  KVInv'
<1>a. \A x \in Store : x = s
  BY DEF OneStore
<1>1. PICK keys \in Orders(DOMAIN data[s]) :
        todo' = [todo EXCEPT ![s] = Lines(Dump(data[s], keys))]
  BY DEF OpenTemp
<1>2. /\ stage[s] = "prune" /\ todo[s] = <<>> /\ stage'[s] = "temp"
      /\ todo'[s] = Lines(Dump(data[s], keys))
      /\ UNCHANGED <<path, now, data, wal, acked, lossy>>
  BY <1>1 DEF OpenTemp, TypeOK
<1>3. /\ temp' \in 0..MaxInode /\ (temp = NoFile => temp' \in Unused)
      /\ temp # NoFile => temp' = temp
      /\ files' = [files EXCEPT ![temp'] = <<>>] /\ fd' = [fd EXCEPT ![s] = temp']
  BY TempFile
<1>4. temp' # path
  <2>1. \A i \in Unused : i # path
    BY DEF Unused
  <2> QED
    BY <1>3, <2>1 DEF KVInv, PlaceInv
<1>5. files'[temp'] = <<>> /\ files'[path] = files[path] /\ fd'[s] = temp'
  BY <1>3, <1>4 DEF TypeOK
<1>6. PlaceInv'
  BY <1>2, <1>4, <1>5, <1>a DEF KVInv, PlaceInv, Placed
<1>7. DumpInv'
  <2>1. IsMap(data[s])
    BY DEF TypeOK
  <2>2. /\ Complete(<<>>, Lines(Dump(data[s], keys)), now)
        /\ Dumped(Replay(<<>>, now), data[s], Lines(Dump(data[s], keys)), now)
    BY <2>1, DumpStart
  <2> QED
    BY <1>2, <1>5, <1>a, <2>2 DEF DumpInv
<1>8. ReopenInv'
  BY <1>2, <1>a DEF ReopenInv
<1>9. LogInv'
  <2>1. ~Opening(todo[s])
    BY <1>2 DEF Opening
  <2> QED
    BY <1>2, <1>5, <1>a, <2>1 DEF KVInv, LogInv
<1> QED
  BY <1>6, <1>7, <1>8, <1>9 DEF KVInv

\* It is kept when it writes to that file.
LEMMA KVInvWriteTemp ==
  ASSUME OneStore, TypeOK, TodoInv, KVInv, NEW s \in Store, WriteTemp(s)
  PROVE  KVInv'
<1>a. \A x \in Store : x = s
  BY DEF OneStore
<1>1. PICK q, f : q = todo[s] /\ f = files[temp]
  OBVIOUS
<1>2. stage[s] = "temp" /\ q # <<>> /\ fd[s] = temp /\ temp # path /\ temp \in 0..MaxInode
  BY <1>1 DEF WriteTemp, KVInv, PlaceInv, Placed, TypeOK
<1>3. /\ files'[temp] = Append(f, Head(q)) /\ files'[path] = files[path] /\ todo'[s] = Tail(q)
      /\ UNCHANGED <<path, temp, now, stage, data, wal, fd, acked, lossy>>
  BY <1>1, <1>2 DEF WriteTemp, TypeOK
<1>4. q \in Seq(Record \ {Torn}) /\ Paired(q) /\ f \in Seq(Record) /\ IsMap(data[s]) /\ now \in Nat
  BY <1>1, <1>2, KVAssumption DEF TypeOK, TodoInv
<1>5. Complete(f, q, now) /\ Dumped(Replay(f, now), data[s], q, now)
  BY <1>1, <1>2 DEF KVInv, DumpInv
<1>6. /\ Complete(Append(f, Head(q)), Tail(q), now)
      /\ Dumped(Replay(Append(f, Head(q)), now), data[s], Tail(q), now)
  BY <1>2, <1>4, <1>5, DumpWrite
<1>7. PlaceInv'
  BY <1>3, <1>a DEF KVInv, PlaceInv, Placed
<1>8. DumpInv'
  BY <1>3, <1>6, <1>a DEF DumpInv
<1>9. ReopenInv'
  BY <1>2, <1>3, <1>a DEF ReopenInv
<1>10. LogInv'
  BY <1>2, <1>3, <1>a DEF KVInv, LogInv
<1> QED
  BY <1>7, <1>8, <1>9, <1>10 DEF KVInv

\* It is kept when a compact() gives up.
LEMMA KVInvTempFails ==
  ASSUME OneStore, TypeOK, TodoInv, KVInv, NEW s \in Store, TempFails(s)
  PROVE  KVInv'
<1>a. \A x \in Store : x = s
  BY DEF OneStore
<1>1. /\ (stage[s] = "prune" /\ todo[s] = <<>>) \/ stage[s] = "temp"
      /\ stage'[s] = "idle"
      /\ UNCHANGED <<files, path, temp, now, data, wal, fd, acked, lossy>>
  BY DEF TempFails, TypeOK
<1>2. PlaceInv'
  BY <1>1, <1>a DEF KVInv, PlaceInv, Placed
<1>3. DumpInv' /\ ReopenInv'
  BY <1>1, <1>a DEF DumpInv, ReopenInv
<1>4. ~(stage[s] \in {"log", "prune"} /\ Opening(todo[s]))
  BY <1>1 DEF Opening
<1>5. LogInv'
  BY <1>1, <1>4, <1>a DEF KVInv, LogInv
<1> QED
  BY <1>2, <1>3, <1>5 DEF KVInv

\* It is kept when the file takes the name of the log.
LEMMA KVInvRename ==
  ASSUME OneStore, TypeOK, TodoInv, KVInv, NEW s \in Store, Rename(s)
  PROVE  KVInv'
<1>a. \A x \in Store : x = s
  BY DEF OneStore
<1>1. stage[s] = "temp" /\ todo[s] = <<>>
  BY DEF Rename
<1>2. temp # NoFile /\ temp \in 0..MaxInode
  BY <1>1 DEF KVInv, PlaceInv, Placed, TypeOK, NoFile
<1>3. /\ wal'[s] = NoFile /\ path' = temp /\ temp' = NoFile /\ stage'[s] = "reopen"
      /\ lossy' = lossy /\ UNCHANGED <<files, now, data, acked>>
  BY <1>2 DEF Rename, TypeOK
<1>4. Parsed(files[temp], now).line = <<>> /\ Same(Replay(files[temp], now), data[s], now)
  <2>1. Complete(files[temp], <<>>, now) /\ Dumped(Replay(files[temp], now), data[s], <<>>, now)
    BY <1>1 DEF KVInv, DumpInv
  <2> QED
    BY <2>1, DumpDone DEF Complete, Opening
<1>5. PlaceInv'
  BY <1>2, <1>3, <1>a DEF PlaceInv, Placed
<1>6. DumpInv'
  BY <1>3, <1>a DEF DumpInv
<1>7. ReopenInv'
  BY <1>3, <1>4, <1>a DEF ReopenInv
<1>8. LogInv'
  <2> SUFFICES ASSUME ~lossy
               PROVE  Same(Replay(files[temp], now), acked, now) /\ Same(data[s], acked, now)
    BY <1>3, <1>4, <1>a DEF LogInv
  <2>1. Same(data[s], acked, now)
    BY <1>1 DEF KVInv, LogInv
  <2> QED
    BY <1>4, <2>1, SameOrder
<1> QED
  BY <1>5, <1>6, <1>7, <1>8 DEF KVInv

\* It is kept, or made to hold again, when the new log is opened.
LEMMA KVInvReopen ==
  ASSUME OneStore, TypeOK, TodoInv, KVInv, NEW s \in Store, Reopen(s)
  PROVE  KVInv'
<1>a. \A x \in Store : x = s
  BY DEF OneStore
<1>1. /\ stage[s] = "reopen" /\ wal'[s] = path /\ stage'[s] = "idle"
      /\ acked' = (IF lossy THEN data[s] ELSE acked) /\ lossy' = FALSE
      /\ UNCHANGED <<files, path, temp, now, todo, data>>
  BY DEF Reopen, TypeOK
<1>2. Parsed(files[path], now).line = <<>> /\ Same(Replay(files[path], now), data[s], now)
  BY <1>1 DEF KVInv, ReopenInv
<1>3. PlaceInv'
  BY <1>1, <1>a DEF KVInv, PlaceInv, Placed
<1>4. DumpInv' /\ ReopenInv'
  BY <1>1, <1>a DEF DumpInv, ReopenInv
<1>5. LogInv'
  <2>1. CASE lossy
    <3>1. Same(data[s], data[s], now)
      BY SameOrder
    <3> QED
      BY <1>1, <1>2, <1>a, <2>1, <3>1 DEF LogInv
  <2>2. CASE ~lossy
    BY <1>1, <1>2, <1>a, <2>2 DEF KVInv, LogInv
  <2> QED
    BY <2>1, <2>2
<1> QED
  BY <1>3, <1>4, <1>5 DEF KVInv

\* It is kept when the rename or the opening of the new log fails.
LEMMA KVInvRenameFails ==
  ASSUME OneStore, TypeOK, TodoInv, KVInv, NEW s \in Store, RenameFails(s)
  PROVE  KVInv'
<1>a. \A x \in Store : x = s
  BY DEF OneStore
<1>1. wal'[s] = NoFile /\ stage'[s] = "idle" /\ lossy' = TRUE /\ UNCHANGED <<path, temp>>
  BY DEF RenameFails, TypeOK
<1>2. PlaceInv'
  BY <1>1, <1>a DEF KVInv, PlaceInv, Placed
<1>3. DumpInv' /\ ReopenInv' /\ LogInv'
  BY <1>1, <1>a DEF DumpInv, ReopenInv, LogInv
<1> QED
  BY <1>2, <1>3 DEF KVInv

\* Every step keeps it.
LEMMA KVInvStep ==
  ASSUME OneStore, TypeOK, TodoInv, KVInv, [Next]_vars
  PROVE  KVInv'
<1>1. CASE UNCHANGED vars
  BY <1>1 DEF KVInv, PlaceInv, Placed, DumpInv, ReopenInv, LogInv, vars
<1>2. CASE Tick
  BY <1>2, KVInvTick
<1>3. CASE Crash
  BY <1>3, KVInvCrash
<1>4. ASSUME NEW s \in Store, StoreStep(s) PROVE KVInv'
  BY <1>4, KVInvStarts, KVInvWrite, KVInvWriteFails, KVInvOpenTemp, KVInvWriteTemp,
     KVInvTempFails, KVInvRename, KVInvReopen, KVInvRenameFails DEF StoreStep
<1> QED
  BY <1>1, <1>2, <1>3, <1>4, NextSteps

\* Of a store that is alone on its path, the invariant holds at all times.
LEMMA KVInvariant ==
  ASSUME OneStore
  PROVE  Spec => [](TypeOK /\ TodoInv /\ KVInv)
<1>1. Init => TypeOK /\ TodoInv /\ KVInv
  BY TypeInit, KVInvInit
<1>2. (TypeOK /\ TodoInv /\ KVInv) /\ [Next]_vars => (TypeOK /\ TodoInv /\ KVInv)'
  BY TypeStep, KVInvStep
<1> QED
  BY <1>1, <1>2, PTL DEF Spec

\* The log of a store that is alone on its path is durable: at any moment, in the middle of
\* an operation or a compact() too, opening the path would show exactly the live entries
\* that the records so far have made, unless a fault has kept a record from the log or
\* joined two; and the next compact() that succeeds makes it so again.
THEOREM LogAlwaysDurable ==
  ASSUME OneStore
  PROVE  Spec => []AckedIsDurable
<1>1. KVInv => AckedIsDurable
  BY LiveSame DEF KVInv, LogInv, AckedIsDurable, LogIsDurable, OnDisk
<1> QED
  BY <1>1, KVInvariant, PTL

\* Such a store shows its caller what its operations have made, whether it has been open all
\* the time or has just replayed its log: no deleted or expired entry comes back.
THEOREM ReadsAlwaysLatest ==
  ASSUME OneStore
  PROVE  Spec => []ReadsLatest
<1>1. KVInv => ReadsLatest
  BY LiveSame DEF KVInv, LogInv, ReadsLatest
<1> QED
  BY <1>1, KVInvariant, PTL
=============================================================================
