-------------------------- MODULE OperatorsProofs --------------------------
(***************************************************************************)
(* The operators of a SELECT, for every table, hash function and plan.     *)
(***************************************************************************)
EXTENDS Operators, FiniteSetTheorems, SequenceTheorems, WellFoundedInduction, TLAPS

-----------------------------------------------------------------------------
(* Induction over numbers, and what is defined by it.                       *)

LEMMA UpTo ==
  ASSUME NEW n \in Nat, NEW S, 0 \in S, \A i \in 1 .. n : i - 1 \in S => i \in S
  PROVE  \A i \in 0 .. n : i \in S
<1> SUFFICES ASSUME NEW m \in 0 .. n, m \notin S PROVE FALSE
  OBVIOUS
<1> DEFINE T == {i \in 0 .. n : i \notin S}
<1>1. T \subseteq Nat /\ T # {}
  OBVIOUS
<1>2. PICK k \in T : \A y \in T : ~(<<y, k>> \in OpToRel(<, Nat))
  <2> HIDE DEF T
  <2> QED BY <1>1, NatLessThanWellFounded, WFMin
<1>3. \A y \in T : ~(y < k)
  BY <1>1, <1>2 DEF OpToRel
<1>4. k \in 1 .. n /\ k \notin S
  OBVIOUS
<1>5. k - 1 \in 0 .. n /\ k - 1 < k
  BY <1>4
<1>6. k - 1 \in S
  BY <1>3, <1>5
<1> QED BY <1>4, <1>6

\* A step for every number and every value gives a sequence of values
Iterates(f, n, V, a, step) ==
  f \in [0 .. n -> V] /\ f[0] = a /\ \A i \in 1 .. n : f[i] = step[<<i, f[i - 1]>>]

LEMMA Recursion ==
  ASSUME NEW n \in Nat, NEW V, NEW a \in V, NEW step \in [(1 .. n) \X V -> V]
  PROVE  \E f : Iterates(f, n, V, a, step)
<1> DEFINE Follows(f, k) == Iterates(f, k, V, a, step)
           S == {k \in 0 .. n : \E f : Follows(f, k)}
<1> USE DEF Iterates
<1>1. 0 \in S
  <2> DEFINE f == [i \in 0 .. 0 |-> a]
  <2>1. f \in [0 .. 0 -> V] /\ f[0] = a /\ 1 .. 0 = {}
    OBVIOUS
  <2> HIDE DEF f
  <2>2. Follows(f, 0)
    BY <2>1
  <2> HIDE DEF Follows
  <2> QED BY <2>2
<1>2. ASSUME NEW k \in 1 .. n, k - 1 \in S PROVE k \in S
  <2>1. PICK f : Follows(f, k - 1)
    BY <1>2
  <2>2. k - 1 \in 0 .. k - 1 /\ k \notin 0 .. k - 1
    OBVIOUS
  <2>3. f[k - 1] \in V
    BY <2>1, <2>2
  <2>4. PICK v \in V : v = step[<<k, f[k - 1]>>]
    BY <2>3
  <2> DEFINE g == [i \in 0 .. k |-> IF i = k THEN v ELSE f[i]]
  <2>5. g \in [0 .. k -> V] /\ g[0] = a /\ g[k] = v
    BY <2>1
  <2>6. ASSUME NEW i \in 1 .. k PROVE g[i] = step[<<i, g[i - 1]>>]
    <3>1. CASE i = k
      <4>1. g[i - 1] = f[i - 1]
        BY <3>1
      <4> QED BY <2>4, <2>5, <3>1, <4>1
    <3>2. CASE i # k
      <4>1. i \in 1 .. k - 1 /\ g[i] = f[i] /\ g[i - 1] = f[i - 1]
        BY <3>2
      <4> QED BY <2>1, <4>1
    <3> QED BY <3>1, <3>2
  <2> HIDE DEF g
  <2>7. Follows(g, k)
    BY <2>5, <2>6
  <2> HIDE DEF Follows
  <2> QED BY <2>7
<1> HIDE DEF S
<1>3. n \in S
  BY <1>1, <1>2, UpTo
<1> HIDE DEF Iterates
<1> QED BY <1>3 DEF S

\* The members of s at the positions in P, one after the other
LEMMA OnlyIs ==
  ASSUME NEW S, NEW s \in Seq(S), NEW P
  PROVE  \E f \in [0 .. Len(s) -> Seq(S)] :
           /\ f[0] = <<>> /\ Only(s, P) = f[Len(s)]
           /\ \A i \in 1 .. Len(s) : f[i] = IF i \in P THEN Append(f[i - 1], s[i]) ELSE f[i - 1]
<1>1. PICK n \in Nat : n = Len(s)
  OBVIOUS
<1>2. PICK V : V = Seq(S)
  OBVIOUS
<1>3. <<>> \in V /\ \A i \in 1 .. n, v \in V : Append(v, s[i]) \in V
  BY <1>1, <1>2
<1> DEFINE Taken(f, i) == IF i = 0 THEN <<>> ELSE IF i \in P THEN Append(f[i - 1], s[i]) ELSE f[i - 1]
           step == [p \in (1 .. n) \X V |-> IF p[1] \in P THEN Append(p[2], s[p[1]]) ELSE p[2]]
<1>4. \E f : f = [i \in 0 .. n |-> Taken(f, i)]
  <2>1. step \in [(1 .. n) \X V -> V]
    BY <1>3
  <2>2. \A i \in 1 .. n, v \in V : step[<<i, v>>] = IF i \in P THEN Append(v, s[i]) ELSE v
    OBVIOUS
  <2> HIDE DEF step
  <2>3. PICK f \in [0 .. n -> V] : f[0] = <<>> /\ \A i \in 1 .. n : f[i] = step[<<i, f[i - 1]>>]
    <3>1. PICK e \in V : e = <<>>
      BY <1>3
    <3>2. PICK f : Iterates(f, n, V, e, step)
      BY <2>1, Recursion, Zenon
    <3> QED BY <3>1, <3>2 DEF Iterates
  <2>4. ASSUME NEW i \in 0 .. n PROVE f[i] = Taken(f, i)
    <3>1. CASE i = 0
      BY <2>3, <3>1
    <3>2. CASE i # 0
      <4>1. i \in 1 .. n /\ i - 1 \in 0 .. n
        BY <3>2
      <4>2. f[i - 1] \in V
        BY <4>1
      <4> QED BY <2>2, <2>3, <4>1, <4>2
    <3> QED BY <3>1, <3>2
  <2>5. f = [i \in 0 .. n |-> f[i]]
    OBVIOUS
  <2> QED BY <2>4, <2>5
<1>5. PICK f : f = [i \in 0 .. n |-> Taken(f, i)] /\ Only(s, P) = f[n]
  BY <1>1, <1>4 DEF Only
<1>6. f[0] = <<>> /\ \A i \in 1 .. n : f[i] = IF i \in P THEN Append(f[i - 1], s[i]) ELSE f[i - 1]
  <2>1. 0 \in 0 .. n /\ \A i \in 1 .. n : i \in 0 .. n /\ i # 0
    OBVIOUS
  <2>2. \A i \in 0 .. n : f[i] = Taken(f, i)
    BY <1>5, Zenon
  <2> QED BY <2>1, <2>2
<1>7. \A i \in 0 .. n : f[i] \in V
  <2> DEFINE T == {j \in 0 .. n : f[j] \in V}
  <2>1. 0 \in T
    BY <1>3, <1>6
  <2>2. \A i \in 1 .. n : i - 1 \in T => i \in T
    BY <1>3, <1>6
  <2>3. \A i \in 0 .. n : i \in T
    <3> HIDE DEF T
    <3> QED BY <2>1, <2>2, UpTo
  <2> QED BY <2>3
<1>8. f \in [0 .. n -> V]
  BY <1>5, <1>7
<1> QED BY <1>1, <1>2, <1>5, <1>6, <1>8

LEMMA OnlyTyped ==
  ASSUME NEW S, NEW s \in Seq(S), NEW P
  PROVE  Only(s, P) \in Seq(S)
<1>1. PICK f \in [0 .. Len(s) -> Seq(S)] : Only(s, P) = f[Len(s)]
  BY OnlyIs
<1>2. Len(s) \in 0 .. Len(s)
  OBVIOUS
<1> QED BY <1>1, <1>2

-----------------------------------------------------------------------------
(* The hash table of rows.                                                  *)

\* Rows are in the bucket they hash to
TableOK(t) ==
  /\ t \in Table
  /\ \A b \in 1 .. Buckets : \A i \in DOMAIN t[b] : RowHash[t[b][i]] = b
Holds(t, r) == \E i \in DOMAIN t[RowHash[r]] : t[RowHash[r]][i] = r

LEMMA RowTyped ==
  ASSUME NEW r \in Row
  PROVE  r.k \in Nat /\ r.v \in Nat /\ r = [k |-> r.k, v |-> r.v] /\ RowHash[r] \in 1 .. Buckets
BY HashAssumption

LEMMA NewTableOK == TableOK(NewTable) /\ \A r \in Row : ~Holds(NewTable, r)
<1>1. NewTable \in Table
  BY DEF NewTable, Table
<1>2. \A b \in 1 .. Buckets : DOMAIN NewTable[b] = {}
  BY DEF NewTable
<1> QED BY <1>1, <1>2, RowTyped DEF TableOK, Holds

\* A row is found if and only if it is there: two rows with NULL keys that
\* share a bucket are the same
LEMMA ProbeIs ==
  ASSUME NullsApart, NEW t, TableOK(t), NEW r \in Row
  PROVE  Probe(t, r) <=> Holds(t, r)
<1>1. PICK b \in 1 .. Buckets : b = RowHash[r]
  BY RowTyped
<1>2. t[b] \in Seq(Row)
  BY DEF TableOK, Table
<1>3. ASSUME NEW i \in DOMAIN t[b], Equal(t[b][i], r) PROVE t[b][i] = r
  <2>1. PICK l \in Row : l = t[b][i]
    BY <1>2
  <2>2. RowHash[l] = RowHash[r]
    BY <1>1, <2>1 DEF TableOK
  <2>3. CASE l.k = Null /\ r.k = Null
    BY <2>1, <2>2, <2>3 DEF NullsApart
  <2>4. CASE KeyEqual(l, r) /\ l.v = r.v
    <3>1. l.k = r.k /\ l.v = r.v
      BY <2>4 DEF KeyEqual
    <3> QED BY <2>1, <3>1, RowTyped
  <2> QED BY <1>3, <2>1, <2>3, <2>4 DEF Equal
<1>4. Equal(r, r)
  BY DEF Equal, KeyEqual
<1> QED BY <1>1, <1>3, <1>4 DEF Probe, Holds

LEMMA BuildOK ==
  ASSUME NEW t, TableOK(t), NEW r \in Row
  PROVE  LET u == Build(t, RowHash, r)
         IN TableOK(u) /\ \A x \in Row : Holds(u, x) <=> Holds(t, x) \/ x = r
<1>1. PICK b \in 1 .. Buckets : b = RowHash[r]
  BY RowTyped
<1>2. PICK u : u = Build(t, RowHash, r)
  OBVIOUS
<1>3. PICK s \in Seq(Row) : s = t[b]
  BY DEF TableOK, Table
<1>4. t \in [1 .. Buckets -> Seq(Row)]
  BY DEF TableOK, Table
<1>5. u = [t EXCEPT ![b] = Append(s, r)]
  BY <1>1, <1>2, <1>3 DEF Build
<1>6. Append(s, r) \in Seq(Row)
  OBVIOUS
<1>7. u \in Table /\ u[b] = Append(s, r) /\ \A c \in 1 .. Buckets : c # b => u[c] = t[c]
  BY <1>4, <1>5, <1>6 DEF Table
<1>8. PICK n \in Nat : n = Len(s)
  OBVIOUS
<1>9. /\ DOMAIN u[b] = 1 .. n + 1 /\ DOMAIN s = 1 .. n
      /\ u[b][n + 1] = r /\ \A i \in 1 .. n : u[b][i] = s[i]
  BY <1>7, <1>8
<1>10. TableOK(u)
  <2>1. ASSUME NEW c \in 1 .. Buckets, NEW i \in DOMAIN u[c] PROVE RowHash[u[c][i]] = c
    <3>1. CASE c # b
      BY <1>7, <3>1 DEF TableOK
    <3>2. CASE c = b /\ i = n + 1
      BY <1>1, <1>9, <3>2
    <3>3. CASE c = b /\ i # n + 1
      <4>1. i \in DOMAIN t[c] /\ u[c][i] = t[c][i]
        BY <1>3, <1>9, <3>3
      <4> QED BY <4>1 DEF TableOK
    <3> QED BY <3>1, <3>2, <3>3
  <2> QED BY <1>7, <2>1 DEF TableOK
<1>11. ASSUME NEW x \in Row PROVE Holds(u, x) <=> Holds(t, x) \/ x = r
  <2>1. PICK c \in 1 .. Buckets : c = RowHash[x]
    BY RowTyped
  <2>2. CASE c # b
    BY <1>1, <1>7, <2>1, <2>2 DEF Holds
  <2>3. CASE c = b
    <3>1. Holds(u, x) <=> \E i \in 1 .. n + 1 : u[b][i] = x
      BY <1>9, <2>1, <2>3 DEF Holds
    <3>2. Holds(t, x) <=> \E i \in 1 .. n : s[i] = x
      BY <1>3, <1>9, <2>1, <2>3 DEF Holds
    <3>3. n + 1 \in 1 .. n + 1 /\ \A i \in 1 .. n + 1 : i = n + 1 \/ i \in 1 .. n
      OBVIOUS
    <3>4. \A i \in 1 .. n : i \in 1 .. n + 1
      OBVIOUS
    <3> QED BY <1>9, <3>1, <3>2, <3>3, <3>4
  <2> QED BY <2>2, <2>3
<1> QED BY <1>2, <1>10, <1>11

\* t holds the rows of T, and what else u holds are those in S
HoldsToo(u, t, S) == \A x \in Row : Holds(u, x) <=> Holds(t, x) \/ x \in S

LEMMA AddNewOK ==
  ASSUME NullsApart, NEW t, TableOK(t), NEW r \in Row
  PROVE  TableOK(AddNew(t, r)) /\ HoldsToo(AddNew(t, r), t, {r})
<1>1. CASE Probe(t, r)
  <2>1. Holds(t, r)
    BY <1>1, ProbeIs
  <2>2. AddNew(t, r) = t
    BY <1>1 DEF AddNew
  <2> QED BY <2>1, <2>2 DEF HoldsToo
<1>2. CASE ~Probe(t, r)
  BY <1>2, BuildOK DEF AddNew, HoldsToo
<1> QED BY <1>1, <1>2

LEMMA AddNewTyped ==
  ASSUME NEW t \in Table, NEW r \in Row
  PROVE  AddNew(t, r) \in Table
<1>1. PICK b \in 1 .. Buckets : b = RowHash[r]
  BY RowTyped
<1>2. Append(t[b], r) \in Seq(Row)
  BY DEF Table
<1>3. [t EXCEPT ![b] = Append(@, r)] \in Table
  BY <1>2 DEF Table
<1> QED BY <1>1, <1>3 DEF AddNew, Build

\* The rows of s the table does not hold yet
LEMMA AddingIs ==
  ASSUME NEW t \in Table, NEW s \in Seq(Row)
  PROVE  \E f \in [0 .. Len(s) -> Table] :
           /\ f[0] = t /\ BuildNew(t, s) = f[Len(s)]
           /\ \A i \in 1 .. Len(s) : f[i] = AddNew(f[i - 1], s[i])
<1>1. PICK n \in Nat : n = Len(s)
  OBVIOUS
<1>2. \A i \in 1 .. n, v \in Table : AddNew(v, s[i]) \in Table
  <2>1. \A i \in 1 .. n : s[i] \in Row
    BY <1>1
  <2> QED BY <2>1, AddNewTyped
<1> DEFINE Added(f, i) == IF i = 0 THEN t ELSE AddNew(f[i - 1], s[i])
           step == [p \in (1 .. n) \X Table |-> AddNew(p[2], s[p[1]])]
<1>4. \E f : f = [i \in 0 .. n |-> Added(f, i)]
  <2>1. step \in [(1 .. n) \X Table -> Table]
    BY <1>2
  <2>2. \A i \in 1 .. n, v \in Table : step[<<i, v>>] = AddNew(v, s[i])
    OBVIOUS
  <2> HIDE DEF step
  <2>3. PICK f : Iterates(f, n, Table, t, step)
    BY <2>1, Recursion, Zenon
  <2>4. ASSUME NEW i \in 0 .. n PROVE f[i] = Added(f, i)
    <3>1. CASE i = 0
      BY <2>3, <3>1 DEF Iterates
    <3>2. CASE i # 0
      <4>1. i \in 1 .. n /\ i - 1 \in 0 .. n
        BY <3>2
      <4>2. f[i - 1] \in Table
        BY <2>3, <4>1 DEF Iterates
      <4> QED BY <2>2, <2>3, <4>1, <4>2 DEF Iterates
    <3> QED BY <3>1, <3>2
  <2>5. f = [i \in 0 .. n |-> f[i]]
    BY <2>3 DEF Iterates
  <2> QED BY <2>4, <2>5
<1>5. PICK f : f = [i \in 0 .. n |-> Added(f, i)] /\ BuildNew(t, s) = f[n]
  BY <1>1, <1>4 DEF BuildNew, Adding
<1>6. f[0] = t /\ \A i \in 1 .. n : f[i] = AddNew(f[i - 1], s[i])
  <2>1. 0 \in 0 .. n /\ \A i \in 1 .. n : i \in 0 .. n /\ i # 0
    OBVIOUS
  <2>2. \A i \in 0 .. n : f[i] = Added(f, i)
    BY <1>5, Zenon
  <2> QED BY <2>1, <2>2
<1>7. \A i \in 0 .. n : f[i] \in Table
  <2> DEFINE T == {j \in 0 .. n : f[j] \in Table}
  <2>1. 0 \in T
    BY <1>6
  <2>2. \A i \in 1 .. n : i - 1 \in T => i \in T
    BY <1>2, <1>6
  <2>3. \A i \in 0 .. n : i \in T
    <3> HIDE DEF T
    <3> QED BY <2>1, <2>2, UpTo
  <2> QED BY <2>3
<1>8. f \in [0 .. n -> Table]
  BY <1>5, <1>7
<1> QED BY <1>1, <1>5, <1>6, <1>8

LEMMA BuildNewOK ==
  ASSUME NullsApart, NEW t, TableOK(t), NEW s \in Seq(Row)
  PROVE  TableOK(BuildNew(t, s)) /\ HoldsToo(BuildNew(t, s), t, ToSet(s))
<1>1. PICK n \in Nat : n = Len(s)
  OBVIOUS
<1>2. PICK f \in [0 .. n -> Table] :
         /\ f[0] = t /\ BuildNew(t, s) = f[n]
         /\ \A i \in 1 .. n : f[i] = AddNew(f[i - 1], s[i])
  <2>1. t \in Table
    BY DEF TableOK
  <2> QED BY <1>1, <2>1, AddingIs
<1> DEFINE UpToRow(i) == {s[j] : j \in 1 .. i}
           T == {i \in 0 .. n : TableOK(f[i]) /\ HoldsToo(f[i], t, UpToRow(i))}
<1>3. 0 \in T
  <2>1. UpToRow(0) = {}
    OBVIOUS
  <2> QED BY <1>2, <2>1 DEF HoldsToo
<1>4. ASSUME NEW i \in 1 .. n, i - 1 \in T PROVE i \in T
  <2>1. s[i] \in Row
    BY <1>1
  <2>2. TableOK(f[i - 1]) /\ HoldsToo(f[i - 1], t, UpToRow(i - 1))
    BY <1>4
  <2>3. TableOK(f[i]) /\ HoldsToo(f[i], f[i - 1], {s[i]})
    BY <1>2, <2>1, <2>2, AddNewOK
  <2>4. UpToRow(i) = UpToRow(i - 1) \cup {s[i]}
    <3>1. 1 .. i = 1 .. i - 1 \cup {i}
      OBVIOUS
    <3> QED BY <3>1
  <2> HIDE DEF UpToRow
  <2>5. HoldsToo(f[i], t, UpToRow(i))
    BY <2>2, <2>3, <2>4 DEF HoldsToo
  <2> QED BY <2>3, <2>5
<1>5. \A i \in 0 .. n : i \in T
  <2> HIDE DEF T
  <2>1. \A i \in 1 .. n : i - 1 \in T => i \in T
    BY <1>4
  <2> QED BY <1>3, <2>1, UpTo, Zenon
<1>6. UpToRow(n) = ToSet(s)
  BY <1>1 DEF ToSet
<1>7. n \in T
  BY <1>5
<1> QED BY <1>2, <1>6, <1>7

-----------------------------------------------------------------------------
(* Rows read one after the other, of which some are returned once.          *)

LEMMA LeastOf ==
  ASSUME NEW I, I \subseteq Nat, I # {}
  PROVE  Min(I) \in I /\ \A j \in I : Min(I) <= j
<1>1. PICK k \in I : \A y \in I : ~(<<y, k>> \in OpToRel(<, Nat))
  BY NatLessThanWellFounded, WFMin
<1>2. \A y \in I : ~(y < k)
  BY <1>1 DEF OpToRel
<1>3. \A y \in I : k <= y
  BY <1>2
<1> QED BY <1>3 DEF Min

LEMMA AppendIs ==
  ASSUME NEW S, NEW s \in Seq(S), NEW x \in S
  PROVE  /\ Append(s, x) \in Seq(S) /\ ToSet(Append(s, x)) = ToSet(s) \cup {x}
         /\ (IsInjective(s) /\ x \notin ToSet(s) => IsInjective(Append(s, x)))
<1>1. PICK n \in Nat : n = Len(s)
  OBVIOUS
<1>2. PICK t : t = Append(s, x)
  OBVIOUS
<1>3. /\ t \in Seq(S) /\ DOMAIN s = 1 .. n /\ DOMAIN t = 1 .. n + 1
      /\ t[n + 1] = x /\ \A i \in 1 .. n : t[i] = s[i]
  BY <1>1, <1>2
<1>4. ToSet(t) = ToSet(s) \cup {x}
  <2>1. 1 .. n + 1 = 1 .. n \cup {n + 1}
    OBVIOUS
  <2> QED BY <1>3, <2>1 DEF ToSet
<1>5. ASSUME IsInjective(s), x \notin ToSet(s) PROVE IsInjective(t)
  <2>1. \A i \in 1 .. n : s[i] # x
    BY <1>3, <1>5 DEF ToSet
  <2>2. \A i \in 1 .. n + 1 : i \in 1 .. n \/ i = n + 1
    OBVIOUS
  <2>3. \A i, j \in 1 .. n : s[i] = s[j] => i = j
    BY <1>3, <1>5 DEF IsInjective
  <2> QED BY <1>3, <2>1, <2>2, <2>3 DEF IsInjective
<1> QED BY <1>2, <1>3, <1>4, <1>5

\* The rows among the first k of s
Among(s, k) == {s[i] : i \in 1 .. k}

\* s holds once every row of input up to k that is not in G
Answers(s, input, k, G) ==
  /\ s \in Seq(Row) /\ IsInjective(s) /\ k \in 0 .. Len(input)
  /\ ToSet(s) = Among(input, k) \ G

LEMMA SkippingAnswers ==
  ASSUME NEW input \in Seq(Row), NEW k, NEW G, NEW s, Answers(s, input, k, G),
         NEW m \in k .. Len(input), \A i \in k + 1 .. m : input[i] \in G \cup ToSet(s)
  PROVE  Answers(s, input, m, G)
<1>1. PICK n \in Nat : n = Len(input)
  OBVIOUS
<1>2. k \in 0 .. n /\ m \in k .. n
  BY <1>1 DEF Answers
<1>3. 1 .. m = 1 .. k \cup (k + 1 .. m)
  BY <1>2
<1>4. Among(input, m) \ G = Among(input, k) \ G
  <2>1. Among(input, m) = Among(input, k) \cup {input[i] : i \in k + 1 .. m}
    BY <1>3 DEF Among
  <2>2. {input[i] : i \in k + 1 .. m} \subseteq G \cup ToSet(s)
    OBVIOUS
  <2> QED BY <2>1, <2>2 DEF Answers
<1>5. m \in 0 .. n
  BY <1>2
<1> QED BY <1>1, <1>4, <1>5 DEF Answers

LEMMA NextAnswer ==
  ASSUME NEW input \in Seq(Row), NEW k, NEW G, NEW s, Answers(s, input, k, G),
         NEW m \in k + 1 .. Len(input), input[m] \notin G \cup ToSet(s),
         \A i \in k + 1 .. m - 1 : input[i] \in G \cup ToSet(s)
  PROVE  Answers(Append(s, input[m]), input, m, G)
<1>1. PICK n \in Nat : n = Len(input)
  OBVIOUS
<1>2. k \in 0 .. n /\ m \in k + 1 .. n
  BY <1>1 DEF Answers
<1>3. Answers(s, input, m - 1, G)
  <2>1. m - 1 \in k .. Len(input)
    BY <1>1, <1>2
  <2> QED BY <2>1, SkippingAnswers
<1>4. input[m] \in Row
  BY <1>1, <1>2
<1>5. Among(input, m) = Among(input, m - 1) \cup {input[m]}
  <2>1. 1 .. m = 1 .. m - 1 \cup {m}
    BY <1>2
  <2> QED BY <2>1 DEF Among
<1>6. m \in 0 .. n
  BY <1>2
<1>7. s \in Seq(Row)
  BY DEF Answers
<1>8. /\ Append(s, input[m]) \in Seq(Row) /\ IsInjective(Append(s, input[m]))
      /\ ToSet(Append(s, input[m])) = ToSet(s) \cup {input[m]}
  BY <1>3, <1>4, <1>7, AppendIs DEF Answers
<1> QED BY <1>1, <1>3, <1>5, <1>6, <1>8 DEF Answers

\* Nothing read, nothing returned
LEMMA NoAnswers ==
  ASSUME NEW input \in Seq(Row), NEW G
  PROVE  Answers(<<>>, input, 0, G)
<1>1. <<>> \in Seq(Row) /\ IsInjective(<<>>) /\ ToSet(<<>>) = {}
  BY DEF IsInjective, ToSet
<1>2. Among(input, 0) = {}
  BY DEF Among
<1> QED BY <1>1, <1>2 DEF Answers

\* Everything read
LEMMA AllAmong ==
  ASSUME NEW input \in Seq(Row)
  PROVE  Among(input, Len(input)) = ToSet(input)
BY DEF Among, ToSet

LEMMA ConcatSet ==
  ASSUME NEW S, NEW s \in Seq(S), NEW t \in Seq(S)
  PROVE  s \o t \in Seq(S) /\ ToSet(s \o t) = ToSet(s) \cup ToSet(t)
<1>1. PICK m \in Nat : m = Len(s)
  OBVIOUS
<1>2. PICK n \in Nat : n = Len(t)
  OBVIOUS
<1>3. PICK u : u = s \o t
  OBVIOUS
<1>4. /\ u \in Seq(S) /\ DOMAIN u = 1 .. m + n /\ DOMAIN s = 1 .. m /\ DOMAIN t = 1 .. n
      /\ \A i \in 1 .. m : u[i] = s[i]
      /\ \A i \in m + 1 .. m + n : u[i] = t[i - m]
  BY <1>1, <1>2, <1>3
<1>5. \A i \in 1 .. m + n : u[i] \in ToSet(s) \cup ToSet(t)
  <2>1. \A i \in 1 .. m + n : i \in 1 .. m \/ (i \in m + 1 .. m + n /\ i - m \in 1 .. n)
    OBVIOUS
  <2> QED BY <1>4, <2>1 DEF ToSet
<1>6. \A i \in 1 .. m : s[i] \in ToSet(u)
  <2>1. \A i \in 1 .. m : i \in 1 .. m + n
    OBVIOUS
  <2> QED BY <1>4, <2>1 DEF ToSet
<1>7. \A i \in 1 .. n : t[i] \in ToSet(u)
  <2>1. \A i \in 1 .. n : i + m \in m + 1 .. m + n /\ i + m \in 1 .. m + n /\ (i + m) - m = i
    OBVIOUS
  <2> QED BY <1>4, <2>1 DEF ToSet
<1>8. ToSet(u) \subseteq ToSet(s) \cup ToSet(t)
  BY <1>4, <1>5 DEF ToSet
<1>9. ToSet(s) \subseteq ToSet(u) /\ ToSet(t) \subseteq ToSet(u)
  BY <1>4, <1>6, <1>7 DEF ToSet
<1> QED BY <1>3, <1>4, <1>8, <1>9

-----------------------------------------------------------------------------
(* DISTINCT, UNION, INTERSECT and EXCEPT.                                   *)

SetKinds == {"distinct", "union", "intersect", "except"}

IsOp(o) ==
  o = [table |-> o.table, seen |-> o.seen, queue |-> o.queue, last |-> o.last,
       leftRow |-> o.leftRow, rows |-> o.rows, pos |-> o.pos, ended |-> o.ended,
       emitted |-> o.emitted, tally |-> o.tally, result |-> o.result]

LEMMA ChildTyped ==
  ASSUME plan \in Plan, NEW o
  PROVE  Seen(plan.left, o) \in Seq(Row) /\ Seen(plan.right, o) \in Seq(Row)
<1>1. plan.left \in Seq(Row) /\ plan.right \in Seq(Row)
  BY PlanAssumption
<1> QED BY <1>1, OnlyTyped DEF Seen

\* What the set operators read, and what they never return
LEMMA InputIs ==
  ASSUME plan \in Plan, plan.kind \in SetKinds
  PROVE  /\ Left \in Seq(Row) /\ Right \in Seq(Row) /\ Input \in Seq(Row)
         /\ plan.kind = "union" => ToSet(Input) = ToSet(Left) \cup ToSet(Right)
         /\ plan.kind # "union" => Input = Left
<1>1. Left \in Seq(Row) /\ Right \in Seq(Row)
  BY ChildTyped DEF Left, Right
<1>2. CASE plan.kind = "union"
  <2>1. Input = Right \o Left
    BY <1>2 DEF Input
  <2>2. Right \o Left \in Seq(Row) /\ ToSet(Right \o Left) = ToSet(Right) \cup ToSet(Left)
    BY <1>1, ConcatSet
  <2> QED BY <1>1, <1>2, <2>1, <2>2
<1>3. CASE plan.kind # "union"
  <2>1. Input = Left
    BY <1>3 DEF Input, SetKinds
  <2> QED BY <1>1, <1>3, <2>1
<1> QED BY <1>2, <1>3

Skipped(kind, R) ==
  IF kind = "except" THEN ToSet(R) ELSE IF kind = "intersect" THEN Row \ ToSet(R) ELSE {}

\* The tables hold the rows of R and those of S, which have been returned
TablesHold(kind, o, R, S) ==
  \A x \in Row :
    IF kind = "intersect"
    THEN (Holds(o.table, x) <=> x \in ToSet(R)) /\ (Holds(o.seen, x) <=> x \in S)
    ELSE Holds(o.table, x) <=> (kind = "except" /\ x \in ToSet(R)) \/ x \in S

TablesOK(o) == IsOp(o) /\ TableOK(o.table) /\ TableOK(o.seen)

LEMMA BuiltSets ==
  ASSUME plan.kind \in SetKinds, NEW o, NEW L, NEW R
  PROVE  /\ plan.kind = "intersect" =>
              Built(o, L, R) = {[[o EXCEPT !.table = BuildNew(o.table, R)] EXCEPT !.seen = o.seen]}
         /\ plan.kind = "except" => Built(o, L, R) = {[o EXCEPT !.table = BuildNew(o.table, R)]}
         /\ plan.kind \in {"distinct", "union"} => Built(o, L, R) = {o}
BY DEF Built, BuiltIntersect, BuiltExcept, SetKinds, Clear

\* open and reopen may build a table that is built already
Unused(kind, o, R) ==
  \A x \in Row : /\ Holds(o.table, x) => kind \in {"intersect", "except"} /\ x \in ToSet(R)
                 /\ kind = "intersect" => ~Holds(o.seen, x)

LEMMA BuiltHolds ==
  ASSUME NullsApart, plan.kind \in SetKinds, NEW o, TablesOK(o),
         NEW L, NEW R \in Seq(Row), NEW p \in Built(o, L, R)
  PROVE  TablesOK(p) /\ (Unused(plan.kind, o, R) => TablesHold(plan.kind, p, R, {}))
<1>1. PICK t : t = BuildNew(o.table, R)
  OBVIOUS
<1>2. TableOK(t) /\ HoldsToo(t, o.table, ToSet(R))
  BY <1>1, BuildNewOK DEF TablesOK
<1>3. CASE plan.kind = "intersect"
  <2>1. PICK q : q = [o EXCEPT !.table = t]
    OBVIOUS
  <2>2. IsOp(q) /\ q.table = t /\ q.seen = o.seen
    <3>1. IsOp(o)
      BY DEF TablesOK
    <3> QED BY <2>1, <3>1 DEF IsOp
  <2>4. p = [q EXCEPT !.seen = o.seen]
    <3>1. Built(o, L, R) = {[[o EXCEPT !.table = BuildNew(o.table, R)] EXCEPT !.seen = o.seen]}
      BY <1>3 DEF Built, BuiltIntersect, Clear
    <3>2. p = [[o EXCEPT !.table = BuildNew(o.table, R)] EXCEPT !.seen = o.seen]
      BY <3>1
    <3> QED BY <1>1, <2>1, <3>2, Zenon
  <2>5. IsOp(p) /\ p.table = t /\ p.seen = o.seen
    BY <2>2, <2>4 DEF IsOp
  <2>6. TablesOK(p)
    BY <1>2, <2>5 DEF TablesOK
  <2> QED BY <1>2, <1>3, <2>5, <2>6 DEF HoldsToo, TablesHold, Unused
<1>4. CASE plan.kind = "except"
  <2>1. p = [o EXCEPT !.table = t]
    BY <1>1, <1>4, BuiltSets
  <2>2. IsOp(p) /\ p.table = t /\ p.seen = o.seen
    <3>1. IsOp(o)
      BY DEF TablesOK
    <3> QED BY <2>1, <3>1 DEF IsOp
  <2>3. TablesOK(p)
    BY <1>2, <2>2 DEF TablesOK
  <2> QED BY <1>2, <1>4, <2>2, <2>3 DEF HoldsToo, TablesHold, Unused
<1>5. CASE plan.kind \in {"distinct", "union"}
  <2>1. p = o
    BY <1>5, BuiltSets
  <2> QED BY <1>5, <2>1 DEF TablesHold, Unused
<1> QED BY <1>3, <1>4, <1>5 DEF SetKinds

\* reset and reopen clear nothing
LEMMA ClearsNothing ==
  ASSUME plan.kind \in SetKinds, NEW o, IsOp(o)
  PROVE  WasReset(o) = o /\ WasReopened(o) = o
<1>1. [o EXCEPT !.table = o.table] = o
  BY DEF IsOp
<1> QED BY <1>1 DEF WasReset, WasReopened, Clear, SetKinds

\* The row after those read that is returned next
LEMMA SelectIs ==
  ASSUME NEW input \in Seq(Row), NEW k \in Nat, NEW I, NEW n,
         I \subseteq k + 1 .. Len(input), n = IF I # {} THEN Min(I) ELSE 0
  PROVE  \/ n \in I /\ n \in k + 1 .. Len(input) /\ \A i \in k + 1 .. n - 1 : i \notin I
         \/ n = 0 /\ \A i \in k + 1 .. Len(input) : i \notin I
<1>1. PICK m \in Nat : m = Len(input)
  OBVIOUS
<1>2. I \subseteq Nat
  BY <1>1
<1>3. CASE I # {}
  <2>1. n \in I /\ \A j \in I : n <= j
    BY <1>2, <1>3, LeastOf
  <2>2. n \in k + 1 .. m
    BY <1>1, <2>1
  <2>3. \A i \in k + 1 .. n - 1 : ~(n <= i)
    BY <2>2
  <2> QED BY <1>1, <2>1, <2>2, <2>3
<1>4. CASE I = {}
  BY <1>4
<1> QED BY <1>3, <1>4

SetInv ==
  /\ plan \in Plan /\ pass \in Nat
  /\ pc \in {"reading", "end", "closed"} => pass # 0
  /\ plan.kind \in SetKinds =>
       /\ TablesOK(op) /\ read \in Nat
       /\ pc = "new" => op = NewOp
       /\ (pc = "reopened" /\ pass = 0) => TablesHold(plan.kind, op, Right, {})
       /\ (pc \in {"reading", "end"} /\ pass = 1) =>
            /\ Answers(out, Input, read, Skipped(plan.kind, Right))
            /\ TablesHold(plan.kind, op, Right, ToSet(out))
            /\ pc = "end" => read = Len(Input)

LEMMA SetInit == NullsApart /\ Init => SetInv
<1> SUFFICES ASSUME NullsApart, Init PROVE SetInv
  OBVIOUS
<1>1. IsOp(NewOp) /\ NewOp.table = NewTable /\ NewOp.seen = NewTable
  BY DEF IsOp, NewOp
<1>2. TablesOK(NewOp)
  BY <1>1, NewTableOK DEF TablesOK
<1>3. plan \in Plan /\ pass = 0 /\ read = 0 /\ pc = "new" /\ op = NewOp
  BY DEF Init
<1> QED BY <1>2, <1>3 DEF SetInv

LEMMA ChildrenKept ==
  ASSUME plan' = plan, outer' = outer
  PROVE  Left' = Left /\ Right' = Right /\ Input' = Input
<1>1. Left' = Left /\ Right' = Right
  BY DEF Left, Right
<1> QED BY <1>1 DEF Input

LEMMA NewUnused ==
  ASSUME NEW kind, NEW R
  PROVE  Unused(kind, NewOp, R)
<1>1. NewOp.table = NewTable /\ NewOp.seen = NewTable
  BY DEF NewOp
<1> QED BY <1>1, NewTableOK DEF Unused

LEMMA SetReopen ==
  ASSUME NullsApart, SetInv, Reopen
  PROVE  SetInv'
<1>1. /\ plan' = plan /\ pass' = pass /\ read' = 0 /\ pc \in {"new", "closed"} /\ pc' = "reopened"
      /\ op' \in Built(WasReopened(op), Seen(plan.left, outer'), Seen(plan.right, outer'))
  BY DEF Reopen
<1>2. CASE plan.kind \in SetKinds
  <2>1. TablesOK(op) /\ (pc = "new" => op = NewOp) /\ (pass = 0 => pc = "new")
    BY <1>1, <1>2 DEF SetInv
  <2>2. WasReopened(op) = op
    BY <1>2, <2>1, ClearsNothing DEF TablesOK
  <2>3. Seen(plan.right, outer') \in Seq(Row)
    BY ChildTyped DEF SetInv
  <2>4. /\ TablesOK(op')
        /\ Unused(plan.kind, op, Seen(plan.right, outer')) =>
             TablesHold(plan.kind, op', Seen(plan.right, outer'), {})
    BY <1>1, <1>2, <2>1, <2>2, <2>3, BuiltHolds
  <2>5. pass = 0 => TablesHold(plan.kind, op', Seen(plan.right, outer'), {})
    BY <2>1, <2>4, NewUnused
  <2>6. Right' = Seen(plan.right, outer')
    BY <1>1 DEF Right
  <2> QED BY <1>1, <2>4, <2>5, <2>6 DEF SetInv
<1>3. CASE plan.kind \notin SetKinds
  BY <1>1, <1>3 DEF SetInv
<1> QED BY <1>2, <1>3

LEMMA SetOpen ==
  ASSUME NullsApart, SetInv, Open
  PROVE  SetInv'
<1>1. /\ plan' = plan /\ outer' = outer /\ pass' = pass + 1 /\ read' = 0 /\ out' = <<>>
      /\ pc \in {"new", "reopened"} /\ pc' = "reading" /\ op' \in Built(op, Left, Right)
  BY DEF Open
<1>2. pass' \in Nat /\ pass' # 0 /\ (pass' = 1 => pass = 0)
  BY <1>1 DEF SetInv
<1>3. CASE plan.kind \in SetKinds
  <2>1. TablesOK(op) /\ (pass = 0 => op = NewOp \/ TablesHold(plan.kind, op, Right, {}))
    BY <1>1, <1>3 DEF SetInv
  <2>2. Left \in Seq(Row) /\ Right \in Seq(Row) /\ Input \in Seq(Row)
    BY <1>3, InputIs DEF SetInv
  <2>3. pass = 0 => Unused(plan.kind, op, Right)
    <3>1. CASE op = NewOp
      BY <3>1, NewUnused
    <3>2. CASE TablesHold(plan.kind, op, Right, {})
      BY <1>3, <3>2 DEF TablesHold, Unused, SetKinds
    <3> QED BY <2>1, <3>1, <3>2
  <2>4. TablesOK(op') /\ (pass = 0 => TablesHold(plan.kind, op', Right, {}))
    BY <1>1, <1>3, <2>1, <2>2, <2>3, BuiltHolds
  <2>5. Answers(<<>>, Input, 0, Skipped(plan.kind, Right)) /\ ToSet(<<>>) = {}
    BY <2>2, NoAnswers DEF ToSet
  <2> QED BY <1>1, <1>2, <2>4, <2>5, ChildrenKept DEF SetInv
<1>4. CASE plan.kind \notin SetKinds
  BY <1>1, <1>2, <1>4 DEF SetInv
<1> QED BY <1>3, <1>4

LEMMA SetReset ==
  ASSUME SetInv, Reset
  PROVE  SetInv'
<1>1. /\ plan' = plan /\ pass' = pass + 1 /\ read' = 0
      /\ pc = "end" /\ pc' = "reading" /\ op' = WasReset(op)
  BY DEF Reset
<1>2. pass' \in Nat /\ pass' # 0 /\ pass' # 1
  BY <1>1 DEF SetInv
<1>3. CASE plan.kind \in SetKinds
  <2>1. TablesOK(op)
    BY <1>3 DEF SetInv
  <2>2. op' = op
    BY <1>1, <1>3, <2>1, ClearsNothing DEF TablesOK
  <2> QED BY <1>1, <1>2, <1>3, <2>1, <2>2 DEF SetInv
<1>4. CASE plan.kind \notin SetKinds
  BY <1>1, <1>2, <1>4 DEF SetInv
<1> QED BY <1>3, <1>4

LEMMA SetClose ==
  ASSUME SetInv, Close
  PROVE  SetInv'
BY DEF SetInv, Close

LEMMA SetReadNew ==
  ASSUME NullsApart, SetInv, NEW kind \in {"distinct", "union", "except"}, ReadNew(kind)
  PROVE  SetInv'
<1> DEFINE G == Skipped(plan.kind, Right)
<1>1. /\ plan.kind = kind /\ plan.kind \in SetKinds /\ pc = "reading" /\ plan \in Plan
      /\ read \in Nat /\ pass \in Nat /\ pass # 0
  BY DEF ReadNew, Asked, SetInv, SetKinds
<1>2. Input \in Seq(Row) /\ TablesOK(op)
  BY <1>1, InputIs DEF SetInv
<1>3. PICK I : I = {i \in read + 1 .. Len(Input) : ~Probe(op.table, Input[i])}
  OBVIOUS
<1>4. PICK n : n = IF I # {} THEN Min(I) ELSE 0
  OBVIOUS
<1>5. IF n > 0 THEN Return(Input[n], n, [op EXCEPT !.table = Build(op.table, RowHash, Input[n])])
      ELSE NoMoreRows(Len(Input), op)
  BY <1>3, <1>4 DEF ReadNew, SelectInSubSeq
<1>6. PICK m \in Nat : m = Len(Input)
  BY <1>2
<1>7. \A i \in read + 1 .. m : Input[i] \in Row /\ (i \in I <=> ~Holds(op.table, Input[i]))
  <2>1. \A i \in read + 1 .. m : Input[i] \in Row
    BY <1>1, <1>2, <1>6
  <2> QED BY <1>2, <1>3, <1>6, <2>1, ProbeIs DEF TablesOK
<1>8. \/ n \in I /\ n \in read + 1 .. m /\ \A i \in read + 1 .. n - 1 : i \notin I
      \/ n = 0 /\ \A i \in read + 1 .. m : i \notin I
  <2>1. I \subseteq read + 1 .. Len(Input)
    BY <1>3
  <2> QED BY <1>1, <1>2, <1>4, <1>6, <2>1, SelectIs
<1>9. pass = 1 => /\ Answers(out, Input, read, G)
                  /\ \A x \in Row : Holds(op.table, x) <=> x \in G \cup ToSet(out)
  BY <1>1 DEF SetInv, TablesHold, Skipped
<1>10. CASE n = 0
  <2>1. /\ pc' = "end" /\ read' = m /\ op' = op
        /\ plan' = plan /\ outer' = outer /\ pass' = pass /\ out' = out
    BY <1>5, <1>6, <1>10 DEF NoMoreRows
  <2>2. pass = 1 => Answers(out, Input, m, G)
    <3>1. SUFFICES ASSUME pass = 1 PROVE Answers(out, Input, m, G)
      OBVIOUS
    <3>2. \A i \in read + 1 .. m : Input[i] \in G \cup ToSet(out)
      <4>1. \A i \in read + 1 .. m : i \notin I
        BY <1>1, <1>8, <1>10
      <4> QED BY <1>7, <1>9, <3>1, <4>1
    <3>3. m \in read .. Len(Input)
      BY <1>6, <1>9, <3>1 DEF Answers
    <3> HIDE DEF G
    <3> QED BY <1>2, <1>6, <1>9, <3>1, <3>2, <3>3, SkippingAnswers
  <2>3. pass = 1 => TablesHold(plan.kind, op, Right, ToSet(out))
    BY <1>1 DEF SetInv
  <2>4. Right' = Right /\ Input' = Input
    BY <2>1, ChildrenKept
  <2> QED BY <1>1, <1>2, <1>6, <2>1, <2>2, <2>3, <2>4 DEF SetInv
<1>11. CASE n # 0
  <2>1. n \in I /\ n \in read + 1 .. m /\ \A i \in read + 1 .. n - 1 : i \notin I
    BY <1>8, <1>11
  <2>2. n > 0 /\ n \in Nat /\ Input[n] \in Row
    BY <1>1, <1>7, <2>1
  <2>3. PICK t : t = Build(op.table, RowHash, Input[n])
    OBVIOUS
  <2>4. /\ out' = Append(out, Input[n]) /\ read' = n /\ op' = [op EXCEPT !.table = t]
        /\ plan' = plan /\ outer' = outer /\ pass' = pass /\ pc' = pc
    BY <1>5, <2>2, <2>3 DEF Return
  <2>5. IsOp(op') /\ op'.table = t /\ op'.seen = op.seen
    <3>1. IsOp(op)
      BY <1>2 DEF TablesOK
    <3> QED BY <2>4, <3>1 DEF IsOp
  <2>6. TableOK(t) /\ \A x \in Row : Holds(t, x) <=> Holds(op.table, x) \/ x = Input[n]
    BY <1>2, <2>2, <2>3, BuildOK DEF TablesOK
  <2>7. TablesOK(op')
    BY <1>2, <2>5, <2>6 DEF TablesOK
  <2>8. pass = 1 => /\ Answers(out', Input, n, G)
                    /\ TablesHold(plan.kind, op', Right, ToSet(out'))
    <3>1. SUFFICES ASSUME pass = 1 PROVE Answers(out', Input, n, G) /\ TablesHold(plan.kind, op', Right, ToSet(out'))
      OBVIOUS
    <3>2. Input[n] \notin G \cup ToSet(out)
      BY <1>7, <1>9, <2>1, <2>2, <3>1
    <3>3. \A i \in read + 1 .. n - 1 : i \in read + 1 .. m
      BY <1>1, <2>1, <2>2
    <3>4. \A i \in read + 1 .. n - 1 : Input[i] \in G \cup ToSet(out)
      BY <1>7, <1>9, <2>1, <3>1, <3>3
    <3> HIDE DEF G
    <3>5. Answers(out', Input, n, G)
      BY <1>2, <1>6, <1>9, <2>1, <2>4, <3>1, <3>2, <3>4, NextAnswer
    <3>6. ToSet(out') = ToSet(out) \cup {Input[n]}
      BY <1>9, <2>2, <2>4, <3>1, AppendIs DEF Answers
    <3>7. TablesHold(plan.kind, op', Right, ToSet(out'))
      BY <1>1, <1>9, <2>5, <2>6, <3>1, <3>6 DEF TablesHold, G, Skipped
    <3> QED BY <3>5, <3>7
  <2>9. Right' = Right /\ Input' = Input
    BY <2>4, ChildrenKept
  <2> QED BY <1>1, <2>2, <2>4, <2>7, <2>8, <2>9 DEF SetInv
<1> QED BY <1>10, <1>11

LEMMA SetReadBoth ==
  ASSUME NullsApart, SetInv, HashIntersect
  PROVE  SetInv'
<1> DEFINE G == Skipped(plan.kind, Right)
<1>1. /\ plan.kind = "intersect" /\ plan.kind \in SetKinds /\ pc = "reading" /\ plan \in Plan
      /\ read \in Nat /\ pass \in Nat /\ pass # 0
  BY DEF HashIntersect, Asked, SetInv, SetKinds
<1>2. Input \in Seq(Row) /\ TablesOK(op)
  BY <1>1, InputIs DEF SetInv
<1>3. PICK I : I = {i \in read + 1 .. Len(Input) : Probe(op.table, Input[i]) /\ ~Probe(op.seen, Input[i])}
  OBVIOUS
<1>4. PICK n : n = IF I # {} THEN Min(I) ELSE 0
  OBVIOUS
<1>5. IF n > 0 THEN Return(Input[n], n, [op EXCEPT !.seen = Build(op.seen, RowHash, Input[n])])
      ELSE NoMoreRows(Len(Input), op)
  BY <1>3, <1>4 DEF HashIntersect, SelectInSubSeq
<1>6. PICK m \in Nat : m = Len(Input)
  BY <1>2
<1>7. \A i \in read + 1 .. m :
        Input[i] \in Row /\ (i \in I <=> Holds(op.table, Input[i]) /\ ~Holds(op.seen, Input[i]))
  <2>1. \A i \in read + 1 .. m : Input[i] \in Row
    BY <1>1, <1>2, <1>6
  <2> QED BY <1>2, <1>3, <1>6, <2>1, ProbeIs DEF TablesOK
<1>8. \/ n \in I /\ n \in read + 1 .. m /\ \A i \in read + 1 .. n - 1 : i \notin I
      \/ n = 0 /\ \A i \in read + 1 .. m : i \notin I
  <2>1. I \subseteq read + 1 .. Len(Input)
    BY <1>3
  <2> QED BY <1>1, <1>2, <1>4, <1>6, <2>1, SelectIs
<1>9. pass = 1 => /\ Answers(out, Input, read, G)
                  /\ \A x \in Row : /\ Holds(op.table, x) <=> x \notin G
                                    /\ Holds(op.seen, x) <=> x \in ToSet(out)
  BY <1>1 DEF SetInv, TablesHold, Skipped
<1>10. CASE n = 0
  <2>1. /\ pc' = "end" /\ read' = m /\ op' = op
        /\ plan' = plan /\ outer' = outer /\ pass' = pass /\ out' = out
    BY <1>5, <1>6, <1>10 DEF NoMoreRows
  <2>2. pass = 1 => Answers(out, Input, m, G)
    <3>1. SUFFICES ASSUME pass = 1 PROVE Answers(out, Input, m, G)
      OBVIOUS
    <3>2. \A i \in read + 1 .. m : Input[i] \in G \cup ToSet(out)
      <4>1. \A i \in read + 1 .. m : i \notin I
        BY <1>1, <1>8, <1>10
      <4> QED BY <1>7, <1>9, <3>1, <4>1
    <3>3. m \in read .. Len(Input)
      BY <1>6, <1>9, <3>1 DEF Answers
    <3> HIDE DEF G
    <3> QED BY <1>2, <1>6, <1>9, <3>1, <3>2, <3>3, SkippingAnswers
  <2>3. pass = 1 => TablesHold(plan.kind, op, Right, ToSet(out))
    BY <1>1 DEF SetInv
  <2>4. Right' = Right /\ Input' = Input
    BY <2>1, ChildrenKept
  <2> QED BY <1>1, <1>2, <1>6, <2>1, <2>2, <2>3, <2>4 DEF SetInv
<1>11. CASE n # 0
  <2>1. n \in I /\ n \in read + 1 .. m /\ \A i \in read + 1 .. n - 1 : i \notin I
    BY <1>8, <1>11
  <2>2. n > 0 /\ n \in Nat /\ Input[n] \in Row
    BY <1>1, <1>7, <2>1
  <2>3. PICK t : t = Build(op.seen, RowHash, Input[n])
    OBVIOUS
  <2>4. /\ out' = Append(out, Input[n]) /\ read' = n /\ op' = [op EXCEPT !.seen = t]
        /\ plan' = plan /\ outer' = outer /\ pass' = pass /\ pc' = pc
    BY <1>5, <2>2, <2>3 DEF Return
  <2>5. IsOp(op') /\ op'.seen = t /\ op'.table = op.table
    <3>1. IsOp(op)
      BY <1>2 DEF TablesOK
    <3> QED BY <2>4, <3>1 DEF IsOp
  <2>6. TableOK(t) /\ \A x \in Row : Holds(t, x) <=> Holds(op.seen, x) \/ x = Input[n]
    BY <1>2, <2>2, <2>3, BuildOK DEF TablesOK
  <2>7. TablesOK(op')
    BY <1>2, <2>5, <2>6 DEF TablesOK
  <2>8. pass = 1 => /\ Answers(out', Input, n, G)
                    /\ TablesHold(plan.kind, op', Right, ToSet(out'))
    <3>1. SUFFICES ASSUME pass = 1 PROVE Answers(out', Input, n, G) /\ TablesHold(plan.kind, op', Right, ToSet(out'))
      OBVIOUS
    <3>2. Input[n] \notin G \cup ToSet(out)
      BY <1>7, <1>9, <2>1, <2>2, <3>1
    <3>3. \A i \in read + 1 .. n - 1 : i \in read + 1 .. m
      BY <1>1, <2>1, <2>2
    <3>4. \A i \in read + 1 .. n - 1 : Input[i] \in G \cup ToSet(out)
      BY <1>7, <1>9, <2>1, <3>1, <3>3
    <3> HIDE DEF G
    <3>5. Answers(out', Input, n, G)
      BY <1>2, <1>6, <1>9, <2>1, <2>4, <3>1, <3>2, <3>4, NextAnswer
    <3>6. ToSet(out') = ToSet(out) \cup {Input[n]}
      BY <1>9, <2>2, <2>4, <3>1, AppendIs DEF Answers
    <3>7. TablesHold(plan.kind, op', Right, ToSet(out'))
      BY <1>1, <1>9, <2>5, <2>6, <3>1, <3>6 DEF TablesHold, G, Skipped
    <3> QED BY <3>5, <3>7
  <2>9. Right' = Right /\ Input' = Input
    BY <2>4, ChildrenKept
  <2> QED BY <1>1, <2>2, <2>4, <2>7, <2>8, <2>9 DEF SetInv
<1> QED BY <1>10, <1>11

\* The operators that are read otherwise
LEMMA SetOthers ==
  ASSUME SetInv, plan.kind \notin SetKinds, plan' = plan, pass' = pass,
         pc \in {"reading", "end"}
  PROVE  SetInv'
<1>1. plan \in Plan /\ pass \in Nat /\ pass # 0
  BY DEF SetInv
<1> QED BY <1>1 DEF SetInv

LEMMA SetNext == NullsApart /\ SetInv /\ [Next]_vars => SetInv'
<1> SUFFICES ASSUME NullsApart, SetInv, [Next]_vars PROVE SetInv'
  OBVIOUS
<1>1. CASE Reopen
  BY <1>1, SetReopen
<1>2. CASE Open
  BY <1>2, SetOpen
<1>3. CASE Reset
  BY <1>3, SetReset
<1>4. CASE Close
  BY <1>4, SetClose
<1>5. CASE HashDistinct \/ HashUnion \/ HashExcept
  BY <1>5, SetReadNew DEF HashDistinct, HashUnion, HashExcept
<1>6. CASE HashIntersect
  BY <1>6, SetReadBoth
<1>7. CASE TableScan \/ UnionAll \/ HashJoin \/ HashNullAwareAntiJoin \/ Limit
  <2>1. plan.kind \notin SetKinds /\ plan' = plan /\ pass' = pass /\ pc = "reading"
    BY <1>7 DEF TableScan, UnionAll, ReadChild, HashJoin, HashNullAwareAntiJoin, NextOf, Limit,
                Asked, Return, NoMoreRows, SetKinds
  <2> QED BY <2>1, SetOthers
<1>8. CASE NestedLoopJoin \/ NestedLoopBlank \/ NestedLoopSemi
  <2>1. plan.kind \notin SetKinds /\ plan' = plan /\ pass' = pass /\ pc = "reading"
    BY <1>8 DEF NestedLoopJoin, NestedLoopBlank, NestedLoopSemi, Asked, Return, NoMoreRows, SetKinds
  <2> QED BY <2>1, SetOthers
<1>9. CASE HashGroup \/ ScalarGroup \/ Sort \/ TopNSort
  <2>1. plan.kind \notin SetKinds /\ plan' = plan /\ pass' = pass /\ pc = "reading"
    BY <1>9 DEF HashGroup, ScalarGroup, Sort, TopNSort, NextOf, Asked, Return, NoMoreRows, SetKinds
  <2> QED BY <2>1, SetOthers
<1>10. CASE UNCHANGED vars
  BY <1>10, ChildrenKept DEF vars, SetInv
<1> QED BY <1>1, <1>2, <1>3, <1>4, <1>5, <1>6, <1>7, <1>8, <1>9, <1>10 DEF Next

\* What has been returned when there are no more rows is what SQL asks for
LEMMA SetAnswered == SetInv => SetsExact
<1> SUFFICES ASSUME SetInv, pc = "end", pass = 1, plan.kind \in SetKinds
             PROVE  /\ IsInjective(out)
                    /\ ToSet(out) = CASE plan.kind = "distinct" -> ToSet(Left)
                                      [] plan.kind = "union" -> ToSet(Left) \cup ToSet(Right)
                                      [] plan.kind = "intersect" -> ToSet(Left) \cap ToSet(Right)
                                      [] plan.kind = "except" -> ToSet(Left) \ ToSet(Right)
  BY DEF SetsExact, SetKinds
<1>1. plan \in Plan /\ Answers(out, Input, Len(Input), Skipped(plan.kind, Right))
  BY DEF SetInv
<1>2. /\ Left \in Seq(Row) /\ Right \in Seq(Row) /\ Input \in Seq(Row)
      /\ plan.kind = "union" => ToSet(Input) = ToSet(Left) \cup ToSet(Right)
      /\ plan.kind # "union" => Input = Left
  BY <1>1, InputIs
<1>3. IsInjective(out) /\ ToSet(out) = ToSet(Input) \ Skipped(plan.kind, Right)
  BY <1>1, <1>2, AllAmong DEF Answers
<1>4. ToSet(Left) \subseteq Row
  BY <1>2 DEF ToSet
<1>5. CASE plan.kind = "distinct"
  BY <1>2, <1>3, <1>5 DEF Skipped
<1>6. CASE plan.kind = "union"
  BY <1>2, <1>3, <1>6 DEF Skipped
<1>7. CASE plan.kind = "intersect"
  BY <1>2, <1>3, <1>4, <1>7 DEF Skipped
<1>8. CASE plan.kind = "except"
  BY <1>2, <1>3, <1>8 DEF Skipped
<1> QED BY <1>5, <1>6, <1>7, <1>8 DEF SetKinds

\* DISTINCT, UNION, INTERSECT and EXCEPT return each row of their result once,
\* for every table and every hash function that keeps rows with NULL apart
\* (HashDistinct, HashUnion, HashIntersect, HashExcept).
THEOREM ReturnsSets == Spec => []SetsExact
<1>1. CASE NullsApart
  <2>1. Init => SetInv
    BY <1>1, SetInit
  <2>2. SetInv /\ [Next]_vars => SetInv'
    BY <1>1, SetNext
  <2>3. SetInv => SetsExact
    BY SetAnswered
  <2> QED BY <2>1, <2>2, <2>3, PTL DEF Spec
<1>2. CASE ~NullsApart
  <2>1. SetsExact
    BY <1>2 DEF SetsExact
  <2> QED BY <2>1, PTL
<1> QED BY <1>1, <1>2

-----------------------------------------------------------------------------
(* How often a row occurs.                                                  *)

LEMMA OccurrencesTyped ==
  ASSUME NEW S, NEW s \in Seq(S), NEW e
  PROVE  IsFiniteSet({i \in DOMAIN s : s[i] = e}) /\ Occurrences(s, e) \in Nat
<1>1. PICK n \in Nat : n = Len(s)
  OBVIOUS
<1>2. DOMAIN s = 1 .. n /\ IsFiniteSet(1 .. n)
  BY <1>1, FS_Interval
<1>3. IsFiniteSet({i \in DOMAIN s : s[i] = e})
  BY <1>2, FS_Subset
<1> QED BY <1>3, FS_CardinalityType DEF Occurrences

\* How often e is among the first k of s
Count(s, k, e) == Cardinality({i \in 1 .. k : s[i] = e})

LEMMA CountIs ==
  ASSUME NEW s, NEW e
  PROVE  /\ Count(s, 0, e) = 0
         /\ \A k \in Nat : /\ Count(s, k, e) \in Nat
                           /\ Count(s, k + 1, e) = Count(s, k, e) + (IF s[k + 1] = e THEN 1 ELSE 0)
<1>1. {i \in 1 .. 0 : s[i] = e} = {}
  OBVIOUS
<1>2. ASSUME NEW k \in Nat
      PROVE  /\ Count(s, k, e) \in Nat
             /\ Count(s, k + 1, e) = Count(s, k, e) + (IF s[k + 1] = e THEN 1 ELSE 0)
  <2> DEFINE A == {i \in 1 .. k : s[i] = e}
  <2>1. IsFiniteSet(1 .. k)
    BY FS_Interval
  <2>2. IsFiniteSet(A)
    BY <2>1, FS_Subset
  <2>3. Cardinality(A) \in Nat
    BY <2>2, FS_CardinalityType
  <2>4. k + 1 \notin A /\ {i \in 1 .. k + 1 : s[i] = e} = IF s[k + 1] = e THEN A \cup {k + 1} ELSE A
    <3>1. 1 .. k + 1 = 1 .. k \cup {k + 1} /\ k + 1 \notin 1 .. k
      OBVIOUS
    <3> QED BY <3>1
  <2>5. Cardinality(A \cup {k + 1}) = Cardinality(A) + 1
    <3> HIDE DEF A
    <3> QED BY <2>2, <2>4, FS_AddElement
  <2>6. CASE s[k + 1] = e
    BY <2>3, <2>4, <2>5, <2>6 DEF Count
  <2>7. CASE s[k + 1] # e
    BY <2>3, <2>4, <2>7 DEF Count
  <2> QED BY <2>6, <2>7
<1> QED BY <1>1, <1>2, FS_EmptySet DEF Count

LEMMA CountAll ==
  ASSUME NEW S, NEW s \in Seq(S), NEW e
  PROVE  Count(s, Len(s), e) = Occurrences(s, e)
<1>1. DOMAIN s = 1 .. Len(s)
  OBVIOUS
<1> QED BY <1>1 DEF Count, Occurrences

LEMMA OccurrencesOfAppend ==
  ASSUME NEW S, NEW s \in Seq(S), NEW x \in S, NEW e
  PROVE  Occurrences(Append(s, x), e) = Occurrences(s, e) + (IF x = e THEN 1 ELSE 0)
<1>1. PICK n \in Nat : n = Len(s)
  OBVIOUS
<1>2. PICK t : t = Append(s, x)
  OBVIOUS
<1>3. t \in Seq(S) /\ Len(t) = n + 1 /\ t[n + 1] = x /\ \A i \in 1 .. n : t[i] = s[i]
  BY <1>1, <1>2
<1>4. Count(t, n, e) = Count(s, n, e)
  <2>1. {i \in 1 .. n : t[i] = e} = {i \in 1 .. n : s[i] = e}
    BY <1>3
  <2> QED BY <2>1 DEF Count
<1>5. Count(t, n + 1, e) = Count(t, n, e) + (IF x = e THEN 1 ELSE 0)
  BY <1>3, CountIs
<1>6. Occurrences(t, e) = Count(t, n + 1, e) /\ Occurrences(s, e) = Count(s, n, e)
  BY <1>1, <1>3, CountAll
<1> QED BY <1>2, <1>4, <1>5, <1>6

LEMMA OccurrencesOfExcept ==
  ASSUME NEW S, NEW s \in Seq(S), NEW i \in DOMAIN s, NEW x \in S, NEW e
  PROVE  Occurrences([s EXCEPT ![i] = x], e) + (IF s[i] = e THEN 1 ELSE 0)
           = Occurrences(s, e) + (IF x = e THEN 1 ELSE 0)
<1> DEFINE B == {j \in DOMAIN s : s[j] = e} \ {i}
<1>1. PICK t : t = [s EXCEPT ![i] = x]
  OBVIOUS
<1>2. DOMAIN t = DOMAIN s /\ t[i] = x /\ \A j \in DOMAIN s : j # i => t[j] = s[j]
  BY <1>1
<1>3. IsFiniteSet(B)
  <2>1. PICK A : A = {j \in DOMAIN s : s[j] = e}
    OBVIOUS
  <2>2. IsFiniteSet(A)
    BY <2>1, OccurrencesTyped
  <2>3. IsFiniteSet(A \ {i})
    BY <2>2, FS_RemoveElement
  <2> QED BY <2>1, <2>3
<1>4. i \notin B /\ Cardinality(B) \in Nat
  BY <1>3, FS_CardinalityType
<1>5. Cardinality(B \cup {i}) = Cardinality(B) + 1
  <2> HIDE DEF B
  <2> QED BY <1>3, <1>4, FS_AddElement
<1>6. {j \in DOMAIN s : s[j] = e} = IF s[i] = e THEN B \cup {i} ELSE B
  OBVIOUS
<1>7. {j \in DOMAIN t : t[j] = e} = IF x = e THEN B \cup {i} ELSE B
  BY <1>2
<1> HIDE DEF B
<1>8. Occurrences(s, e) = Cardinality(B) + (IF s[i] = e THEN 1 ELSE 0)
  <2>1. Occurrences(s, e) = Cardinality(IF s[i] = e THEN B \cup {i} ELSE B)
    BY <1>6, Zenon DEF Occurrences
  <2> QED BY <1>4, <1>5, <2>1
<1>9. Occurrences(t, e) = Cardinality(B) + (IF x = e THEN 1 ELSE 0)
  <2>1. Occurrences(t, e) = Cardinality(IF x = e THEN B \cup {i} ELSE B)
    BY <1>7, Zenon DEF Occurrences
  <2> QED BY <1>4, <1>5, <2>1
<1> QED BY <1>1, <1>4, <1>8, <1>9

-----------------------------------------------------------------------------
(* ORDER BY.                                                                *)

\* A sequence in the order of Before is a sequence in some linear order
LEMMA BeforeOrders ==
  ASSUME NEW x \in Row, NEW y \in Row, NEW z \in Row
  PROVE  /\ Before(x, y) /\ Before(y, z) => Before(x, z)
         /\ ~Before(x, y) /\ ~Before(y, z) => ~Before(x, z)
         /\ ~(Before(x, y) /\ Before(y, x)) /\ ~Before(x, x)
<1>1. x.k \in Nat /\ y.k \in Nat /\ z.k \in Nat
  BY RowTyped
<1> QED BY <1>1 DEF Before, KeyLess, Null

\* A sorted sequence has the rows of s, each as often
LEMMA SortedIs ==
  ASSUME NEW s \in Seq(Row), NEW t \in Sorted(s)
  PROVE  /\ t \in Seq(Row) /\ Len(t) = Len(s) /\ InOrder(t) /\ ToSet(t) \subseteq ToSet(s)
         /\ \A e : Occurrences(t, e) = Occurrences(s, e)
<1>1. PICK n \in Nat : n = Len(s)
  OBVIOUS
<1>2. DOMAIN s = 1 .. n /\ IsFiniteSet(1 .. n) /\ Cardinality(1 .. n) = n
  <2>1. IsFiniteSet(1 .. n) /\ Cardinality(1 .. n) = IF 1 > n THEN 0 ELSE n - 1 + 1
    BY FS_Interval
  <2> QED BY <1>1, <2>1
<1>3. PICK p \in [1 .. n -> 1 .. n] :
         /\ t = [i \in 1 .. n |-> s[p[i]]] /\ \A i, j \in 1 .. n : i # j => p[i] # p[j]
         /\ \A i, j \in 1 .. n : i < j => ~Before(t[j], t[i])
  BY <1>2 DEF Sorted, SetToSeqs
<1>4. \A i \in 1 .. n : p[i] \in 1 .. n /\ s[p[i]] \in Row
  BY <1>1
<1>5. t \in Seq(Row) /\ Len(t) = n /\ DOMAIN t = 1 .. n
  BY <1>3, <1>4
<1>6. InOrder(t)
  BY <1>3, <1>5 DEF InOrder
<1>7. \A j \in 1 .. n : \E i \in 1 .. n : p[i] = j
  <2>1. p \in Injection(1 .. n, 1 .. n)
    BY <1>3 DEF Injection, IsInjective
  <2>2. p \in Surjection(1 .. n, 1 .. n)
    BY <1>2, <2>1, FS_Injection
  <2> QED BY <2>2 DEF Surjection
<1>8. ASSUME NEW e PROVE Occurrences(t, e) = Occurrences(s, e)
  <2> DEFINE A == {i \in 1 .. n : t[i] = e}
             B == {j \in 1 .. n : s[j] = e}
             q == [i \in A |-> p[i]]
  <2>1. q \in [A -> B]
    BY <1>3
  <2>2. \A i, j \in A : q[i] = q[j] => i = j
    BY <1>3
  <2>3. \A j \in B : \E i \in A : q[i] = j
    <3>1. SUFFICES ASSUME NEW j \in B PROVE \E i \in A : q[i] = j
      OBVIOUS
    <3>2. PICK i \in 1 .. n : p[i] = j
      BY <1>7
    <3>3. i \in A
      BY <1>3, <3>2
    <3> QED BY <3>2, <3>3
  <2>4. IsFiniteSet(A)
    BY <1>2, FS_Subset
  <2> HIDE DEF A, B, q
  <2>5. q \in Bijection(A, B)
    BY <2>1, <2>2, <2>3 DEF Bijection, Injection, Surjection, IsInjective
  <2>6. ExistsBijection(A, B)
    BY <2>5 DEF ExistsBijection
  <2>7. Cardinality(A) = Cardinality(B)
    BY <2>4, <2>6, FS_Bijection
  <2> QED BY <1>2, <1>5, <2>7 DEF A, B, Occurrences
<1>9. ToSet(t) \subseteq ToSet(s)
  BY <1>2, <1>3, <1>5 DEF ToSet
<1> QED BY <1>1, <1>5, <1>6, <1>8, <1>9

\* The first k rows of s have gone into the heap t
HeapOK(t, s, k) ==
  /\ t \in Seq(Row) /\ Len(t) = IF k < plan.size THEN k ELSE plan.size
  /\ \A e \in Row :
       /\ Occurrences(t, e) <= Count(s, k, e)
       /\ k <= plan.size => Occurrences(t, e) = Count(s, k, e)
       /\ Occurrences(t, e) < Count(s, k, e) => \A r \in ToSet(t) : ~Before(e, r)

LEMMA KeepTyped ==
  ASSUME NEW t \in Seq(Row), NEW r \in Row
  PROVE  Keep(t, r) \subseteq Seq(Row)
<1>1. Append(t, r) \in Seq(Row) /\ \A i \in DOMAIN t : [t EXCEPT ![i] = r] \in Seq(Row)
  OBVIOUS
<1> QED BY <1>1 DEF Keep

LEMMA KeepOK ==
  ASSUME plan \in Plan, NEW s \in Seq(Row), NEW k \in Nat, k < Len(s),
         NEW t, HeapOK(t, s, k), NEW u \in Keep(t, s[k + 1])
  PROVE  HeapOK(u, s, k + 1)
<1>1. PICK size \in Nat : size = plan.size
  BY PlanAssumption
<1>2. PICK r \in Row : r = s[k + 1]
  <2>1. Len(s) \in Nat /\ DOMAIN s = 1 .. Len(s)
    OBVIOUS
  <2>2. k + 1 \in DOMAIN s
    BY <2>1
  <2> QED BY <2>2
<1>3. /\ t \in Seq(Row) /\ Len(t) = IF k < size THEN k ELSE size
      /\ \A e \in Row :
           /\ Occurrences(t, e) <= Count(s, k, e)
           /\ k <= size => Occurrences(t, e) = Count(s, k, e)
           /\ Occurrences(t, e) < Count(s, k, e) => \A x \in ToSet(t) : ~Before(e, x)
  BY <1>1 DEF HeapOK
<1>4. PICK m \in Nat : m = Len(t)
  BY <1>3
<1>5. \A e \in Row : /\ Count(s, k, e) \in Nat /\ Occurrences(t, e) \in Nat
                     /\ Count(s, k + 1, e) = Count(s, k, e) + (IF r = e THEN 1 ELSE 0)
  BY <1>2, <1>3, CountIs, OccurrencesTyped
<1>6. CASE m < size
  <2>1. u = Append(t, r)
    <3>1. u \in {Append(t, r)}
      BY <1>1, <1>2, <1>4, <1>6 DEF Keep
    <3> QED BY <3>1
  <2>2. k < size /\ m = k
    BY <1>3, <1>4, <1>6
  <2>3. u \in Seq(Row) /\ Len(u) = k + 1
    BY <1>3, <1>4, <2>1, <2>2
  <2>4. \A e \in Row : Occurrences(u, e) = Count(s, k + 1, e)
    <3>1. \A e \in Row : Occurrences(u, e) = Occurrences(t, e) + (IF r = e THEN 1 ELSE 0)
      BY <1>3, <2>1, OccurrencesOfAppend, SMTT(30)
    <3> QED BY <1>3, <1>5, <2>2, <3>1
  <2>5. \A e \in Row : Count(s, k + 1, e) \in Nat
    <3>1. SUFFICES ASSUME NEW e \in Row PROVE Count(s, k + 1, e) \in Nat
      OBVIOUS
    <3>2. PICK c \in Nat : c = Count(s, k, e)
      BY <1>5
    <3>3. Count(s, k + 1, e) = c + 1 \/ Count(s, k + 1, e) = c + 0
      BY <1>5, <3>2
    <3> QED BY <3>3
  <2>6. \A e \in Row : ~(Occurrences(u, e) < Count(s, k + 1, e)) /\ Occurrences(u, e) <= Count(s, k + 1, e)
    BY <2>4, <2>5
  <2>7. Len(u) = IF k + 1 < size THEN k + 1 ELSE size
    BY <1>1, <2>2, <2>3, SMTT(30)
  <2> QED BY <1>1, <2>3, <2>4, <2>6, <2>7 DEF HeapOK
<1>7. CASE ~(m < size)
  <2>1. m = size /\ size <= k
    BY <1>3, <1>4, <1>7
  <2>2. PICK last : last = {i \in DOMAIN t : \A j \in DOMAIN t : ~Before(t[i], t[j])}
    OBVIOUS
  <2>3. DOMAIN t = 1 .. m /\ \A i \in 1 .. m : t[i] \in Row
    BY <1>3, <1>4
  <2>4. \/ u = t /\ \E i \in last : Before(t[i], r)
        \/ \E i \in last : u = [t EXCEPT ![i] = r] /\ ~Before(t[i], r)
    BY <1>1, <1>2, <1>4, <1>7, <2>2 DEF Keep
  <2>5. CASE u = t /\ \E i \in last : Before(t[i], r)
    <3>1. PICK i \in 1 .. m : Before(t[i], r) /\ \A j \in 1 .. m : ~Before(t[i], t[j])
      BY <2>2, <2>3, <2>5
    <3>2. \A x \in ToSet(t) : ~Before(r, x)
      <4>1. SUFFICES ASSUME NEW j \in 1 .. m PROVE ~Before(r, t[j])
        BY <2>3 DEF ToSet
      <4> QED BY <2>3, <3>1, BeforeOrders
    <3>3. ASSUME NEW e \in Row, Occurrences(t, e) < Count(s, k + 1, e)
          PROVE  \A x \in ToSet(t) : ~Before(e, x)
      <4>1. Occurrences(t, e) < Count(s, k, e) \/ r = e
        BY <1>3, <1>5, <3>3
      <4> QED BY <1>3, <3>2, <4>1
    <3>4. ASSUME NEW e \in Row PROVE Occurrences(t, e) <= Count(s, k + 1, e)
      <4>1. PICK a \in Nat, b \in Nat : a = Occurrences(t, e) /\ b = Count(s, k, e)
        BY <1>5
      <4>2. a <= b /\ (Count(s, k + 1, e) = b \/ Count(s, k + 1, e) = b + 1)
        BY <1>3, <1>5, <4>1
      <4> QED BY <4>1, <4>2
    <3>5. ~(k + 1 <= size) /\ ~(k + 1 < size) /\ Len(t) = size
      BY <1>4, <2>1
    <3> QED BY <1>1, <1>3, <2>5, <3>3, <3>4, <3>5 DEF HeapOK
  <2>6. CASE \E i \in last : u = [t EXCEPT ![i] = r] /\ ~Before(t[i], r)
    <3>1. PICK i \in 1 .. m : /\ u = [t EXCEPT ![i] = r] /\ ~Before(t[i], r)
                              /\ \A j \in 1 .. m : ~Before(t[i], t[j])
      BY <2>2, <2>3, <2>6
    <3>2. u \in Seq(Row) /\ Len(u) = size /\ DOMAIN u = 1 .. m
      BY <1>3, <1>4, <2>1, <2>3, <3>1
    <3>3. \A e \in Row : Occurrences(u, e) + (IF t[i] = e THEN 1 ELSE 0)
                           = Occurrences(t, e) + (IF r = e THEN 1 ELSE 0)
      <4>1. t \in Seq(Row) /\ i \in DOMAIN t /\ r \in Row
        BY <1>3, <2>3
      <4>2. \A e : Occurrences([t EXCEPT ![i] = r], e) + (IF t[i] = e THEN 1 ELSE 0)
                    = Occurrences(t, e) + (IF r = e THEN 1 ELSE 0)
        <5>1. SUFFICES ASSUME NEW e
                       PROVE  Occurrences([t EXCEPT ![i] = r], e) + (IF t[i] = e THEN 1 ELSE 0)
                                = Occurrences(t, e) + (IF r = e THEN 1 ELSE 0)
          OBVIOUS
        <5> QED BY <4>1, OccurrencesOfExcept
      <4>3. u = [t EXCEPT ![i] = r]
        BY <3>1
      <4> QED BY <4>2, <4>3, Zenon
    <3>4. \A e \in Row : Occurrences(u, e) \in Nat
      BY <3>2, OccurrencesTyped
    <3>5. \A x \in ToSet(u) : x = r \/ x \in ToSet(t)
      BY <2>3, <3>1, <3>2 DEF ToSet
    <3>6. t[i] \in Row /\ t[i] \in ToSet(t) /\ \A x \in ToSet(t) : x \in Row /\ ~Before(t[i], x)
      BY <2>3, <3>1 DEF ToSet
    <3>7. ASSUME NEW e \in Row, Occurrences(u, e) < Count(s, k + 1, e)
          PROVE  \A x \in ToSet(u) : ~Before(e, x)
      <4>1. Occurrences(t, e) < Count(s, k, e) \/ t[i] = e
        <5>1. PICK a \in Nat, b \in Nat, c \in Nat :
                 a = Occurrences(t, e) /\ b = Count(s, k, e) /\ c = Occurrences(u, e)
          BY <1>5, <3>4
        <5>2. c < b + (IF r = e THEN 1 ELSE 0)
          BY <1>5, <3>7, <5>1
        <5>3. c + (IF t[i] = e THEN 1 ELSE 0) = a + (IF r = e THEN 1 ELSE 0)
          BY <3>3, <5>1
        <5> QED BY <5>1, <5>2, <5>3
      <4>2. CASE t[i] = e
        BY <3>1, <3>5, <3>6, <4>2
      <4>3. CASE Occurrences(t, e) < Count(s, k, e)
        <5>1. \A x \in ToSet(t) : ~Before(e, x)
          BY <1>3, <4>3
        <5>2. ~Before(e, r)
          BY <3>1, <3>6, <5>1, BeforeOrders
        <5> QED BY <3>5, <5>1, <5>2
      <4> QED BY <4>1, <4>2, <4>3
    <3>8. ASSUME NEW e \in Row PROVE Occurrences(u, e) <= Count(s, k + 1, e)
      <4>1. PICK a \in Nat, b \in Nat, c \in Nat :
               a = Occurrences(t, e) /\ b = Count(s, k, e) /\ c = Occurrences(u, e)
        BY <1>5, <3>4
      <4>2. a <= b /\ Count(s, k + 1, e) = b + (IF r = e THEN 1 ELSE 0)
        BY <1>3, <1>5, <4>1
      <4>3. c + (IF t[i] = e THEN 1 ELSE 0) = a + (IF r = e THEN 1 ELSE 0)
        BY <3>3, <4>1
      <4> QED BY <4>1, <4>2, <4>3
    <3>9. ~(k + 1 <= size) /\ ~(k + 1 < size)
      BY <2>1
    <3> QED BY <1>1, <3>2, <3>7, <3>8, <3>9 DEF HeapOK
  <2> QED BY <2>4, <2>5, <2>6
<1> QED BY <1>6, <1>7

LEMMA HeapsIs ==
  ASSUME NEW s \in Seq(Row)
  PROVE  \E f \in [0 .. Len(s) -> SUBSET Seq(Row)] :
           /\ f[0] = {<<>>} /\ Heaps(s)[Len(s)] = f[Len(s)]
           /\ \A i \in 1 .. Len(s) : f[i] = UNION {Keep(t, s[i]) : t \in f[i - 1]}
<1>1. PICK n \in Nat : n = Len(s)
  OBVIOUS
<1>2. PICK V : V = SUBSET Seq(Row)
  OBVIOUS
<1>3. PICK start : start = {<<>>}
  OBVIOUS
<1>4. start \in V
  BY <1>2, <1>3
<1>5. \A i \in 1 .. n, v \in V : UNION {Keep(t, s[i]) : t \in v} \in V
  <2>1. SUFFICES ASSUME NEW i \in 1 .. n, NEW v \in V PROVE UNION {Keep(t, s[i]) : t \in v} \in V
    OBVIOUS
  <2>2. s[i] \in Row
    BY <1>1
  <2>3. \A t \in v : Keep(t, s[i]) \subseteq Seq(Row)
    BY <1>2, <2>2, KeepTyped
  <2> QED BY <1>2, <2>3
<1> DEFINE Kept(f, i) == IF i = 0 THEN {<<>>} ELSE UNION {Keep(t, s[i]) : t \in f[i - 1]}
           step == [p \in (1 .. n) \X V |-> UNION {Keep(t, s[p[1]]) : t \in p[2]}]
<1>6. \E f : f = [i \in 0 .. n |-> Kept(f, i)]
  <2>1. step \in [(1 .. n) \X V -> V]
    BY <1>5
  <2>2. \A i \in 1 .. n, v \in V : step[<<i, v>>] = UNION {Keep(t, s[i]) : t \in v}
    OBVIOUS
  <2> HIDE DEF step
  <2>3. PICK f : Iterates(f, n, V, start, step)
    BY <1>4, <2>1, Recursion, Zenon
  <2>4. ASSUME NEW i \in 0 .. n PROVE f[i] = Kept(f, i)
    <3>1. CASE i = 0
      BY <1>3, <2>3, <3>1 DEF Iterates
    <3>2. CASE i # 0
      <4>1. i \in 1 .. n /\ i - 1 \in 0 .. n
        BY <3>2
      <4>2. f[i - 1] \in V
        BY <2>3, <4>1 DEF Iterates
      <4>3. f[i] = UNION {Keep(t, s[i]) : t \in f[i - 1]}
        BY <2>2, <2>3, <4>1, <4>2 DEF Iterates
      <4> QED BY <3>2, <4>3
    <3> QED BY <3>1, <3>2
  <2>5. f = [i \in 0 .. n |-> f[i]]
    BY <2>3 DEF Iterates
  <2> HIDE DEF Kept
  <2>6. f = [i \in 0 .. n |-> Kept(f, i)]
    BY <2>4, <2>5
  <2> QED BY <2>6, Zenon
<1>7. PICK f : f = [i \in 0 .. n |-> Kept(f, i)] /\ Heaps(s)[Len(s)] = f[n]
  BY <1>1, <1>6 DEF Heaps
<1>8. f[0] = {<<>>} /\ \A i \in 1 .. n : f[i] = UNION {Keep(t, s[i]) : t \in f[i - 1]}
  <2>1. 0 \in 0 .. n /\ \A i \in 1 .. n : i \in 0 .. n /\ i # 0
    OBVIOUS
  <2>2. \A i \in 0 .. n : f[i] = Kept(f, i)
    BY <1>7, Zenon
  <2> QED BY <2>1, <2>2
<1>9. \A i \in 0 .. n : f[i] \in V
  <2> DEFINE T == {j \in 0 .. n : f[j] \in V}
  <2>1. 0 \in T
    <3>1. f[0] = start
      BY <1>3, <1>8, Zenon
    <3> QED BY <1>4, <3>1
  <2>2. \A i \in 1 .. n : i - 1 \in T => i \in T
    <3>1. SUFFICES ASSUME NEW i \in 1 .. n, i - 1 \in T PROVE i \in T
      OBVIOUS
    <3>2. f[i - 1] \in V /\ i \in 0 .. n
      BY <3>1
    <3>3. f[i] \in V
      BY <1>5, <1>8, <3>2
    <3> QED BY <3>2, <3>3
  <2>3. \A i \in 0 .. n : i \in T
    <3> HIDE DEF T
    <3> QED BY <2>1, <2>2, UpTo
  <2> QED BY <2>3
<1>10. f \in [0 .. n -> V]
  BY <1>7, <1>9
<1> QED BY <1>1, <1>2, <1>7, <1>8, <1>10

LEMMA HeapOfAll ==
  ASSUME plan \in Plan, NEW s \in Seq(Row), NEW t \in Heaps(s)[Len(s)]
  PROVE  HeapOK(t, s, Len(s))
<1>1. PICK n \in Nat : n = Len(s)
  OBVIOUS
<1>2. PICK f \in [0 .. n -> SUBSET Seq(Row)] :
         /\ f[0] = {<<>>} /\ Heaps(s)[Len(s)] = f[n]
         /\ \A i \in 1 .. n : f[i] = UNION {Keep(u, s[i]) : u \in f[i - 1]}
  BY <1>1, HeapsIs
<1> DEFINE T == {i \in 0 .. n : \A u \in f[i] : HeapOK(u, s, i)}
<1>3. 0 \in T
  <2>1. plan.size \in Nat
    BY PlanAssumption
  <2>2. <<>> \in Seq(Row) /\ Len(<<>>) = 0 /\ ToSet(<<>>) = {}
    BY DEF ToSet
  <2>3. \A e : Occurrences(<<>>, e) = 0 /\ Count(s, 0, e) = 0
    BY <2>2, CountAll, CountIs
  <2>4. HeapOK(<<>>, s, 0)
    BY <2>1, <2>2, <2>3 DEF HeapOK
  <2> QED BY <1>2, <2>4
<1>4. ASSUME NEW i \in 1 .. n, i - 1 \in T PROVE i \in T
  <2>1. SUFFICES ASSUME NEW u \in f[i] PROVE HeapOK(u, s, i)
    OBVIOUS
  <2>2. PICK v \in f[i - 1] : u \in Keep(v, s[i])
    BY <1>2
  <2>3. HeapOK(v, s, i - 1)
    BY <1>4
  <2>4. PICK k \in Nat : k = i - 1 /\ k + 1 = i /\ k < Len(s)
    BY <1>1
  <2>5. HeapOK(v, s, k) /\ u \in Keep(v, s[k + 1])
    BY <2>2, <2>3, <2>4
  <2>6. HeapOK(u, s, k + 1)
    BY <2>4, <2>5, KeepOK
  <2> QED BY <2>4, <2>6
<1>5. \A i \in 0 .. n : i \in T
  <2> HIDE DEF T
  <2>1. \A i \in 1 .. n : i - 1 \in T => i \in T
    BY <1>4
  <2> QED BY <1>3, <2>1, UpTo, Zenon
<1>6. n \in T
  BY <1>5
<1> QED BY <1>1, <1>2, <1>6

\* The first rows of s in order: a row left out is in front of none of them
First(s, t) ==
  /\ t \in Seq(Row) /\ InOrder(t) /\ Len(t) = Min({plan.size, Len(s)})
  /\ \A e \in Row : \/ Occurrences(t, e) = Occurrences(s, e)
                    \/ Occurrences(t, e) < Occurrences(s, e) /\ \A r \in ToSet(t) : ~Before(e, r)

LEMMA MinOf ==
  ASSUME NEW a \in Nat, NEW b \in Nat
  PROVE  Min({a, b}) = IF b < a THEN b ELSE a
<1>1. {a, b} \subseteq Nat /\ {a, b} # {}
  OBVIOUS
<1>2. Min({a, b}) \in {a, b} /\ \A j \in {a, b} : Min({a, b}) <= j
  BY <1>1, LeastOf
<1> QED BY <1>2

LEMMA TopIs ==
  ASSUME plan \in Plan, NEW s \in Seq(Row), NEW r \in TopRows(s)
  PROVE  First(s, r)
<1>1. PICK t \in Heaps(s)[Len(s)] : r \in Sorted(t)
  BY DEF TopRows
<1>2. HeapOK(t, s, Len(s))
  BY <1>1, HeapOfAll
<1>3. /\ r \in Seq(Row) /\ Len(r) = Len(t) /\ InOrder(r) /\ ToSet(r) \subseteq ToSet(t)
      /\ \A e : Occurrences(r, e) = Occurrences(t, e)
  BY <1>1, <1>2, SortedIs DEF HeapOK
<1>4. PICK n \in Nat : n = Len(s)
  OBVIOUS
<1>5. PICK size \in Nat : size = plan.size
  BY PlanAssumption
<1>6. Len(r) = Min({size, n})
  <2>1. Len(t) = IF n < size THEN n ELSE size
    BY <1>2, <1>4, <1>5 DEF HeapOK
  <2>2. Min({size, n}) = IF n < size THEN n ELSE size
    BY MinOf
  <2> QED BY <1>3, <2>1, <2>2
<1>7. ASSUME NEW e \in Row
      PROVE  \/ Occurrences(r, e) = Occurrences(s, e)
             \/ Occurrences(r, e) < Occurrences(s, e) /\ \A x \in ToSet(r) : ~Before(e, x)
  <2>1. PICK a \in Nat, b \in Nat : a = Occurrences(t, e) /\ b = Occurrences(s, e)
    BY <1>2, OccurrencesTyped DEF HeapOK
  <2>2. a <= b /\ (a < b => \A x \in ToSet(t) : ~Before(e, x))
    BY <1>2, <2>1, CountAll DEF HeapOK
  <2>3. a = Occurrences(r, e)
    BY <1>3, <2>1
  <2> QED BY <1>3, <2>1, <2>2, <2>3
<1> QED BY <1>3, <1>4, <1>5, <1>6, <1>7 DEF First

-----------------------------------------------------------------------------
(* The operators that give their rows in every pass.                        *)

PassKinds == {"scan", "unionAll", "sort", "topn", "limit"}

\* s is the k rows of input behind the first m
Copied(s, input, m, k) == s \in Seq(Row) /\ Len(s) = k /\ \A i \in 1 .. k : s[i] = input[m + i]

LEMMA CopiedNone ==
  ASSUME NEW input, NEW m
  PROVE  Copied(<<>>, input, m, 0)
BY DEF Copied

LEMMA CopiedNext ==
  ASSUME NEW input \in Seq(Row), NEW m \in Nat, NEW k \in Nat, m + k < Len(input),
         NEW s, Copied(s, input, m, k)
  PROVE  Copied(Append(s, input[m + k + 1]), input, m, k + 1)
<1>1. PICK n \in Nat : n = Len(input)
  OBVIOUS
<1>2. PICK x \in Row : x = input[m + k + 1]
  <2>1. m + k + 1 \in 1 .. n /\ DOMAIN input = 1 .. n
    BY <1>1
  <2> QED BY <2>1
<1>3. s \in Seq(Row) /\ Len(s) = k /\ \A i \in 1 .. k : s[i] = input[m + i]
  BY DEF Copied
<1>4. PICK t : t = Append(s, x)
  OBVIOUS
<1>5. t \in Seq(Row) /\ Len(t) = k + 1 /\ t[k + 1] = x /\ \A i \in 1 .. k : t[i] = s[i]
  BY <1>3, <1>4
<1>6. \A i \in 1 .. k + 1 : t[i] = input[m + i]
  <2>1. SUFFICES ASSUME NEW i \in 1 .. k + 1 PROVE t[i] = input[m + i]
    OBVIOUS
  <2>2. CASE i = k + 1
    <3>1. m + i = m + k + 1
      BY <2>2
    <3> QED BY <1>2, <1>5, <2>2, <3>1
  <2>3. CASE i # k + 1
    <3>1. i \in 1 .. k
      BY <2>3
    <3> QED BY <1>3, <1>5, <3>1
  <2> QED BY <2>2, <2>3
<1> QED BY <1>2, <1>4, <1>5, <1>6 DEF Copied

LEMMA CopiedAll ==
  ASSUME NEW input \in Seq(Row), NEW s, Copied(s, input, 0, Len(input))
  PROVE  s = input
<1>1. PICK n \in Nat : n = Len(input)
  OBVIOUS
<1>2. s \in Seq(Row) /\ Len(s) = n /\ \A i \in 1 .. n : s[i] = input[i]
  BY <1>1 DEF Copied
<1> QED BY <1>1, <1>2

ScanRead ==
  /\ read \in Nat /\ read <= Len(Input) /\ Copied(out, Input, 0, read)
  /\ pc = "end" => read = Len(Input)

OrderRead ==
  /\ plan.kind = "sort" => op.rows \in Sorted(Left)
  /\ plan.kind = "topn" => op.rows \in TopRows(Left)
  /\ op.pos \in Nat /\ op.pos <= Len(op.rows) /\ Copied(out, op.rows, 0, op.pos)
  /\ pc = "end" => op.pos = Len(op.rows)

Passed(k) == IF plan.offset < k THEN k - plan.offset ELSE 0
LimitRead ==
  /\ read \in Nat /\ read <= Len(Input) /\ op.pos = read
  /\ Copied(out, Input, plan.offset, Passed(read)) /\ Passed(read) <= plan.size
  /\ pc = "reading" => read = 0 \/ plan.offset < read
  /\ pc = "end" => read = Len(Input) \/ Passed(read) = plan.size

PassInv ==
  /\ plan \in Plan
  /\ plan.kind \in PassKinds => IsOp(op)
  /\ (plan.kind \in {"scan", "unionAll"} /\ pc \in {"reading", "end"}) => ScanRead
  /\ (plan.kind \in {"sort", "topn"} /\ pc \in {"reading", "end"}) => OrderRead
  /\ (plan.kind = "limit" /\ plan.size > 0) =>
       /\ pc \in {"new", "reopened"} => op.pos = 0
       /\ pc \in {"reading", "end"} => LimitRead

\* What open and reopen prepare, and what reset and reopen set back
LEMMA OpPos ==
  ASSUME NEW o, IsOp(o), NEW x
  PROVE  LET p == [o EXCEPT !.pos = x] IN IsOp(p) /\ p.rows = o.rows /\ p.pos = x
BY DEF IsOp

LEMMA OpRows ==
  ASSUME NEW o, IsOp(o), NEW r, NEW x, NEW p, p = [o EXCEPT !.rows = r, !.pos = x]
  PROVE  IsOp(p) /\ p.rows = r /\ p.pos = x
<1>1. PICK q : q = [o EXCEPT !.rows = r]
  OBVIOUS
<1>2. IsOp(q) /\ q.rows = r
  BY <1>1 DEF IsOp
<1>3. p = [q EXCEPT !.pos = x]
  BY <1>1
<1>4. IsOp(p) /\ p.rows = q.rows /\ p.pos = x
  BY <1>2, <1>3 DEF IsOp
<1> QED BY <1>2, <1>4

LEMMA OrdersKept ==
  ASSUME plan' = plan, outer' = outer
  PROVE  Sorted(Left)' = Sorted(Left) /\ TopRows(Left)' = TopRows(Left)
<1>1. Left' = Left
  BY ChildrenKept
<1>2. Sorted(Left)' = Sorted(Left)
  BY <1>1 DEF Sorted, Before
<1> QED BY <1>1, <1>2 DEF TopRows, Heaps, Keep, Sorted, Before

LEMMA PreparedIs ==
  ASSUME plan.kind \in PassKinds, NEW o, IsOp(o), NEW L, NEW R, NEW p \in Built(o, L, R)
  PROVE  /\ IsOp(p)
         /\ plan.kind = "sort" => p.rows \in Sorted(L) /\ p.pos = 0
         /\ plan.kind = "topn" => p.rows \in TopRows(L) /\ p.pos = 0
         /\ plan.kind = "limit" => p = o
<1>1. CASE plan.kind = "sort"
  <2>1. Built(o, L, R) = SortedRows(o, Sorted(L))
    BY <1>1 DEF Built
  <2>2. PICK r \in Sorted(L) : p = [o EXCEPT !.rows = r, !.pos = 0]
    BY <2>1 DEF SortedRows
  <2>3. IsOp(p) /\ p.rows = r /\ p.pos = 0
    BY <2>2, OpRows DEF IsOp
  <2> QED BY <1>1, <2>2, <2>3
<1>2. CASE plan.kind = "topn"
  <2>1. Built(o, L, R) = SortedRows(o, TopRows(L))
    BY <1>2 DEF Built
  <2>2. PICK r \in TopRows(L) : p = [o EXCEPT !.rows = r, !.pos = 0]
    BY <2>1 DEF SortedRows
  <2>3. IsOp(p) /\ p.rows = r /\ p.pos = 0
    BY <2>2, OpRows DEF IsOp
  <2> QED BY <1>2, <2>2, <2>3
<1>3. CASE plan.kind \in {"scan", "unionAll", "limit"}
  <2>1. Built(o, L, R) = {o}
    BY <1>3 DEF Built
  <2> QED BY <1>3, <2>1
<1> QED BY <1>1, <1>2, <1>3 DEF PassKinds

LEMMA SetBack ==
  ASSUME plan.kind \in PassKinds, NEW o, IsOp(o)
  PROVE  /\ IsOp(WasReset(o)) /\ IsOp(WasReopened(o))
         /\ plan.kind \in {"sort", "topn", "limit"} =>
              WasReset(o).rows = o.rows /\ WasReset(o).pos = 0
         /\ plan.kind = "limit" => WasReopened(o).pos = 0
<1>1. CASE plan.kind \in {"scan", "unionAll"}
  BY <1>1 DEF WasReset, WasReopened
<1>2. CASE plan.kind \in {"sort", "topn"}
  <2>1. WasReset(o) = [o EXCEPT !.pos = 0] /\ WasReopened(o) = o
    BY <1>2 DEF WasReset, WasReopened
  <2>2. IsOp([o EXCEPT !.pos = 0]) /\ [o EXCEPT !.pos = 0].rows = o.rows /\ [o EXCEPT !.pos = 0].pos = 0
    BY OpPos
  <2> QED BY <1>2, <2>1, <2>2
<1>3. CASE plan.kind = "limit"
  <2>1. WasReset(o) = [o EXCEPT !.pos = 0] /\ WasReopened(o) = [o EXCEPT !.pos = 0]
    BY <1>3 DEF WasReset, WasReopened
  <2>2. IsOp([o EXCEPT !.pos = 0]) /\ [o EXCEPT !.pos = 0].rows = o.rows /\ [o EXCEPT !.pos = 0].pos = 0
    BY OpPos
  <2> QED BY <1>3, <2>1, <2>2
<1> QED BY <1>1, <1>2, <1>3 DEF PassKinds

LEMMA PassInput ==
  ASSUME plan \in Plan, plan.kind \in PassKinds
  PROVE  /\ Left \in Seq(Row) /\ Right \in Seq(Row) /\ Input \in Seq(Row)
         /\ Input = IF plan.kind = "unionAll" THEN Right \o Left ELSE Left
<1>1. Left \in Seq(Row) /\ Right \in Seq(Row)
  BY ChildTyped DEF Left, Right
<1>2. Input = IF plan.kind = "unionAll" THEN Right \o Left ELSE Left
  BY DEF Input, PassKinds
<1>3. Right \o Left \in Seq(Row)
  BY <1>1, ConcatSet
<1> QED BY <1>1, <1>2, <1>3

LEMMA PassInit == Init => PassInv
<1>1. IsOp(NewOp) /\ NewOp.pos = 0
  BY DEF IsOp, NewOp
<1> QED BY <1>1 DEF Init, PassInv

LEMMA PassReopen ==
  ASSUME PassInv, Reopen
  PROVE  PassInv'
<1>1. /\ plan' = plan /\ pc' = "reopened"
      /\ op' \in Built(WasReopened(op), Seen(plan.left, outer'), Seen(plan.right, outer'))
  BY DEF Reopen
<1>2. CASE plan.kind \in PassKinds
  <2>1. IsOp(WasReopened(op)) /\ (plan.kind = "limit" => WasReopened(op).pos = 0)
    BY <1>2, SetBack DEF PassInv
  <2>2. IsOp(op') /\ (plan.kind = "limit" => op'.pos = 0)
    BY <1>1, <1>2, <2>1, PreparedIs
  <2> QED BY <1>1, <1>2, <2>2 DEF PassInv
<1>3. CASE plan.kind \notin PassKinds
  BY <1>1, <1>3 DEF PassInv, PassKinds
<1> QED BY <1>2, <1>3

\* A pass begins
LEMMA PassBegins ==
  ASSUME plan \in Plan, plan' = plan, outer' = outer, pc' = "reading", read' = 0, out' = <<>>,
         plan.kind \in PassKinds, IsOp(op'),
         plan.kind \in {"sort", "topn", "limit"} => op'.pos = 0,
         plan.kind = "sort" => op'.rows \in Sorted(Left),
         plan.kind = "topn" => op'.rows \in TopRows(Left)
  PROVE  PassInv'
<1>1. Left' = Left /\ Input' = Input
  BY ChildrenKept
<1>2. Left \in Seq(Row) /\ Input \in Seq(Row) /\ plan.size \in Nat /\ plan.offset \in Nat
  BY PassInput, PlanAssumption
<1>3. \A s, m : Copied(<<>>, s, m, 0)
  BY CopiedNone
<1>4. Len(Input) \in Nat
  BY <1>2
<1>5. plan.kind \in {"scan", "unionAll"} => ScanRead'
  BY <1>1, <1>3, <1>4 DEF ScanRead
<1>6. plan.kind \in {"sort", "topn"} => OrderRead'
  <2>1. SUFFICES ASSUME plan.kind \in {"sort", "topn"} PROVE OrderRead'
    OBVIOUS
  <2>2. op'.rows \in Seq(Row)
    BY <1>2, <2>1, SortedIs, TopIs DEF First
  <2>3. Len(op'.rows) \in Nat
    BY <2>2
  <2> QED BY <1>1, <1>3, <2>1, <2>3, OrdersKept DEF OrderRead
<1>7. plan.kind = "limit" => LimitRead'
  <2>1. SUFFICES ASSUME plan.kind = "limit" PROVE LimitRead'
    OBVIOUS
  <2>2. Passed(0) = 0
    BY <1>2 DEF Passed
  <2>3. Passed(read)' = Passed(0)
    BY DEF Passed
  <2> QED BY <1>1, <1>2, <1>3, <1>4, <2>1, <2>2, <2>3 DEF LimitRead
<1> QED BY <1>5, <1>6, <1>7 DEF PassInv

LEMMA PassOpen ==
  ASSUME PassInv, Open
  PROVE  PassInv'
<1>1. /\ plan' = plan /\ outer' = outer /\ read' = 0 /\ out' = <<>>
      /\ pc \in {"new", "reopened"} /\ pc' = "reading" /\ op' \in Built(op, Left, Right)
  BY DEF Open
<1>2. CASE plan.kind \in PassKinds
  <2>1. /\ IsOp(op')
        /\ plan.kind = "sort" => op'.rows \in Sorted(Left) /\ op'.pos = 0
        /\ plan.kind = "topn" => op'.rows \in TopRows(Left) /\ op'.pos = 0
        /\ plan.kind = "limit" => op' = op
    BY <1>1, <1>2, PreparedIs DEF PassInv
  <2>2. CASE plan.kind = "limit" /\ ~(plan.size > 0)
    BY <1>1, <2>1, <2>2 DEF PassInv
  <2>3. CASE ~(plan.kind = "limit" /\ ~(plan.size > 0))
    <3>1. plan.kind = "limit" => op'.pos = 0
      BY <1>1, <2>1, <2>3 DEF PassInv
    <3> QED BY <1>1, <1>2, <2>1, <3>1, PassBegins DEF PassInv
  <2> QED BY <2>2, <2>3
<1>3. CASE plan.kind \notin PassKinds
  BY <1>1, <1>3 DEF PassInv, PassKinds
<1> QED BY <1>2, <1>3

LEMMA PassReset ==
  ASSUME PassInv, Reset
  PROVE  PassInv'
<1>1. /\ plan' = plan /\ outer' = outer /\ read' = 0 /\ out' = <<>>
      /\ pc = "end" /\ pc' = "reading" /\ op' = WasReset(op)
  BY DEF Reset
<1>2. CASE plan.kind \in PassKinds
  <2>1. IsOp(op') /\ (plan.kind \in {"sort", "topn", "limit"} => op'.rows = op.rows /\ op'.pos = 0)
    BY <1>1, <1>2, SetBack DEF PassInv
  <2>2. /\ plan.kind = "sort" => op'.rows \in Sorted(Left)
        /\ plan.kind = "topn" => op'.rows \in TopRows(Left)
    BY <1>1, <2>1 DEF PassInv, OrderRead
  <2> QED BY <1>1, <1>2, <2>1, <2>2, PassBegins DEF PassInv
<1>3. CASE plan.kind \notin PassKinds
  BY <1>1, <1>3 DEF PassInv, PassKinds
<1> QED BY <1>2, <1>3

LEMMA PassClose ==
  ASSUME PassInv, Close
  PROVE  PassInv'
BY DEF PassInv, Close

LEMMA PassScan ==
  ASSUME PassInv, NEW kind \in {"scan", "unionAll"}, ReadChild(kind)
  PROVE  PassInv'
<1>1. plan \in Plan /\ plan.kind = kind /\ plan.kind \in PassKinds /\ IsOp(op) /\ pc = "reading" /\ ScanRead
  BY DEF ReadChild, Asked, PassInv, PassKinds
<1>2. Input \in Seq(Row)
  BY <1>1, PassInput
<1>3. PICK n \in Nat : n = Len(Input)
  BY <1>2
<1>4. read \in Nat /\ read <= n /\ Copied(out, Input, 0, read)
  BY <1>1, <1>3 DEF ScanRead
<1>5. CASE read < n
  <2>1. /\ out' = Append(out, Input[read + 1]) /\ read' = read + 1 /\ op' = op /\ pc' = pc
        /\ plan' = plan /\ outer' = outer
    BY <1>3, <1>5 DEF ReadChild, Return
  <2>2. Copied(Append(out, Input[0 + read + 1]), Input, 0, read + 1)
    BY <1>2, <1>3, <1>4, <1>5, CopiedNext
  <2>3. Input' = Input
    BY <2>1, ChildrenKept
  <2>4. ScanRead'
    BY <1>1, <1>3, <1>4, <1>5, <2>1, <2>2, <2>3 DEF ScanRead
  <2> QED BY <1>1, <2>1, <2>4 DEF PassInv
<1>6. CASE ~(read < n)
  <2>1. /\ out' = out /\ read' = read /\ op' = op /\ pc' = "end"
        /\ plan' = plan /\ outer' = outer
    BY <1>3, <1>6 DEF ReadChild, NoMoreRows
  <2>2. Input' = Input
    BY <2>1, ChildrenKept
  <2>3. ScanRead'
    BY <1>3, <1>4, <1>6, <2>1, <2>2 DEF ScanRead
  <2> QED BY <1>1, <2>1, <2>3 DEF PassInv
<1> QED BY <1>5, <1>6

LEMMA PassOrder ==
  ASSUME PassInv, Sort \/ TopNSort
  PROVE  PassInv'
<1>1. /\ plan \in Plan /\ plan.kind \in {"sort", "topn"} /\ plan.kind \in PassKinds /\ IsOp(op)
      /\ pc = "reading" /\ OrderRead
  BY DEF Sort, TopNSort, NextOf, Asked, PassInv, PassKinds
<1>2. Left \in Seq(Row) /\ plan.size \in Nat
  BY <1>1, PassInput, PlanAssumption
<1>3. PICK rows \in Seq(Row) : rows = op.rows
  BY <1>1, <1>2, SortedIs, TopIs DEF OrderRead, First
<1>4. PICK n \in Nat : n = Len(rows)
  BY <1>3
<1>5. plan.kind = "topn" => Min({plan.size, Len(op.rows)}) = n
  <2>1. SUFFICES ASSUME plan.kind = "topn" PROVE Min({plan.size, n}) = n
    BY <1>3, <1>4
  <2>2. PICK m \in Nat : m = Len(Left)
    BY <1>2
  <2>3. n = Min({plan.size, m})
    BY <1>1, <1>2, <1>3, <1>4, <2>1, <2>2, TopIs DEF OrderRead, First
  <2>4. n = IF m < plan.size THEN m ELSE plan.size
    BY <1>2, <2>3, MinOf
  <2>5. Min({plan.size, n}) = IF n < plan.size THEN n ELSE plan.size
    BY <1>2, MinOf
  <2> QED BY <1>2, <2>4, <2>5
<1>6. NextOf(plan.kind, n)
  BY <1>1, <1>3, <1>4, <1>5 DEF Sort, TopNSort, NextOf, Asked
<1>7. PICK k \in Nat : k = op.pos /\ k <= n /\ Copied(out, rows, 0, k)
  BY <1>1, <1>3, <1>4 DEF OrderRead
<1>8. CASE k < n
  <2>1. /\ out' = Append(out, rows[k + 1]) /\ op' = [op EXCEPT !.pos = op.pos + 1] /\ pc' = pc
        /\ plan' = plan /\ outer' = outer
    BY <1>3, <1>6, <1>7, <1>8 DEF NextOf, Return
  <2>2. IsOp(op') /\ op'.rows = rows /\ op'.pos = k + 1
    BY <1>1, <1>3, <1>7, <2>1, OpPos
  <2>3. Copied(Append(out, rows[0 + k + 1]), rows, 0, k + 1)
    BY <1>4, <1>7, <1>8, CopiedNext
  <2>4. Copied(out', rows, 0, k + 1)
    BY <2>1, <2>3
  <2>5. OrderRead'
    BY <1>1, <1>3, <1>4, <1>7, <1>8, <2>1, <2>2, <2>4, OrdersKept DEF OrderRead
  <2> QED BY <1>1, <2>1, <2>2, <2>5 DEF PassInv
<1>9. CASE ~(k < n)
  <2>1. /\ out' = out /\ op' = op /\ pc' = "end" /\ plan' = plan /\ outer' = outer
    BY <1>6, <1>7, <1>9 DEF NextOf, NoMoreRows
  <2>2. k = n
    BY <1>7, <1>9
  <2>3. OrderRead'
    BY <1>1, <1>3, <1>4, <1>7, <2>1, <2>2, OrdersKept DEF OrderRead
  <2> QED BY <1>1, <2>1, <2>3 DEF PassInv
<1> QED BY <1>8, <1>9

LEMMA PassLimit ==
  ASSUME PassInv, Limit
  PROVE  PassInv'
<1>1. plan \in Plan /\ plan.kind = "limit" /\ plan.kind \in PassKinds /\ IsOp(op) /\ pc = "reading"
  BY DEF Limit, Asked, PassInv, PassKinds
<1>2. Input \in Seq(Row) /\ plan.size \in Nat /\ plan.offset \in Nat
  BY <1>1, PassInput, PlanAssumption
<1>3. plan' = plan /\ outer' = outer
  BY DEF Limit, Return, NoMoreRows
<1>4. \E x : op' = op \/ op' = [op EXCEPT !.pos = x]
  BY DEF Limit, Return, NoMoreRows
<1>5. IsOp(op')
  BY <1>1, <1>4, OpPos
<1>6. CASE ~(plan.size > 0)
  BY <1>1, <1>3, <1>5, <1>6 DEF PassInv
<1>7. CASE plan.size > 0
  <2>1. PICK n \in Nat : n = Len(Input)
    BY <1>2
  <2>2. PICK size \in Nat, m \in Nat : size = plan.size /\ m = plan.offset /\ size > 0
    BY <1>2, <1>7
  <2>3. /\ read \in Nat /\ read <= n /\ op.pos = read /\ (read = 0 \/ m < read)
        /\ Copied(out, Input, m, Passed(read)) /\ Passed(read) <= size
    BY <1>1, <1>7, <2>1, <2>2 DEF PassInv, LimitRead
  <2>4. \A k \in Nat : Passed(k) = IF m < k THEN k - m ELSE 0
    BY <2>2 DEF Passed
  <2>6. Input' = Input
    BY <1>3, ChildrenKept
  <2>7. CASE m < read /\ read - m >= size
    <3>1. pc' = "end" /\ read' = read /\ op' = op /\ out' = out
      BY <2>2, <2>3, <2>7 DEF Limit, NoMoreRows
    <3>2. Passed(read) = size
      BY <2>3, <2>4, <2>7
    <3>3. Passed(read)' = Passed(read)
      BY <1>3, <3>1 DEF Passed
    <3>4. LimitRead'
      BY <1>3, <2>1, <2>2, <2>3, <2>6, <3>1, <3>2, <3>3 DEF LimitRead
    <3> QED BY <1>1, <1>3, <1>5, <3>1, <3>4 DEF PassInv
  <2>8. CASE ~(m < read /\ read - m >= size)
    <3>1. PICK k \in Nat : k = Passed(read) /\ k < size
      BY <2>2, <2>3, <2>4, <2>8
    <3>2. PICK skipped \in Nat : skipped = IF read < m THEN m - read ELSE 0
      BY <2>3
    <3>3. read + skipped + 1 = m + k + 1
      BY <2>3, <2>4, <3>1, <3>2
    <3>4. IF m + k + 1 <= n
          THEN Return(Input[m + k + 1], m + k + 1, [op EXCEPT !.pos = read + skipped + 1])
          ELSE NoMoreRows(n, [op EXCEPT !.pos = read + n - read])
      BY <2>1, <2>2, <2>3, <2>8, <3>2, <3>3 DEF Limit
    <3>5. CASE m + k + 1 <= n
      <4>1. /\ pc' = pc /\ read' = m + k + 1 /\ out' = Append(out, Input[m + k + 1])
            /\ op' = [op EXCEPT !.pos = m + k + 1]
        BY <3>3, <3>4, <3>5 DEF Return
      <4>2. op'.pos = m + k + 1
        BY <1>1, <4>1, OpPos
      <4>3. Copied(out', Input, m, k + 1)
        <5>1. Copied(out, Input, m, k) /\ m + k < Len(Input)
          BY <2>1, <2>3, <3>1, <3>5
        <5> QED BY <1>2, <4>1, <5>1, CopiedNext
      <4>4. Passed(read)' = k + 1
        <5>1. Passed(read)' = Passed(m + k + 1)
          BY <1>3, <4>1 DEF Passed
        <5>2. Passed(m + k + 1) = k + 1
          BY <2>4
        <5> QED BY <5>1, <5>2
      <4>5. LimitRead'
        BY <1>1, <1>3, <2>1, <2>2, <2>6, <3>1, <3>5, <4>1, <4>2, <4>3, <4>4 DEF LimitRead
      <4> QED BY <1>1, <1>3, <1>5, <4>1, <4>5 DEF PassInv
    <3>6. CASE ~(m + k + 1 <= n)
      <4>1. /\ pc' = "end" /\ read' = n /\ out' = out /\ op' = [op EXCEPT !.pos = n]
        <5>1. read + n - read = n
          BY <2>3
        <5> QED BY <3>4, <3>6, <5>1 DEF NoMoreRows
      <4>2. op'.pos = n
        BY <1>1, <4>1, OpPos
      <4>3. Passed(read)' = k
        <5>1. Passed(read)' = Passed(n)
          BY <1>3, <4>1 DEF Passed
        <5>2. Passed(n) = k
          BY <2>3, <2>4, <3>1, <3>6
        <5> QED BY <5>1, <5>2
      <4>4. LimitRead'
        BY <1>3, <2>1, <2>2, <2>3, <2>6, <3>1, <4>1, <4>2, <4>3 DEF LimitRead
      <4> QED BY <1>1, <1>3, <1>5, <4>1, <4>4 DEF PassInv
    <3> QED BY <3>5, <3>6
  <2> QED BY <2>7, <2>8
<1> QED BY <1>6, <1>7

\* The operators that are read otherwise
LEMMA PassOthers ==
  ASSUME PassInv, plan.kind \notin PassKinds, plan' = plan
  PROVE  PassInv'
BY DEF PassInv, PassKinds

LEMMA PassNext == PassInv /\ [Next]_vars => PassInv'
<1> SUFFICES ASSUME PassInv, [Next]_vars PROVE PassInv'
  OBVIOUS
<1>1. CASE Reopen
  BY <1>1, PassReopen
<1>2. CASE Open
  BY <1>2, PassOpen
<1>3. CASE Reset
  BY <1>3, PassReset
<1>4. CASE Close
  BY <1>4, PassClose
<1>5. CASE TableScan \/ UnionAll
  BY <1>5, PassScan DEF TableScan, UnionAll
<1>6. CASE Sort \/ TopNSort
  BY <1>6, PassOrder
<1>7. CASE Limit
  BY <1>7, PassLimit
<1>8. CASE HashDistinct \/ HashUnion \/ HashExcept \/ HashIntersect
  <2>1. plan.kind \notin PassKinds /\ plan' = plan
    BY <1>8 DEF HashDistinct, HashUnion, HashExcept, HashIntersect, ReadNew, Asked,
                Return, NoMoreRows, PassKinds
  <2> QED BY <2>1, PassOthers
<1>9. CASE HashJoin \/ HashNullAwareAntiJoin
  <2>1. plan.kind \notin PassKinds /\ plan' = plan
    BY <1>9 DEF HashJoin, HashNullAwareAntiJoin, NextOf, Asked, Return, NoMoreRows, PassKinds
  <2> QED BY <2>1, PassOthers
<1>10. CASE NestedLoopJoin \/ NestedLoopBlank \/ NestedLoopSemi
  <2>1. plan.kind \notin PassKinds /\ plan' = plan
    BY <1>10 DEF NestedLoopJoin, NestedLoopBlank, NestedLoopSemi, Asked, Return, NoMoreRows, PassKinds
  <2> QED BY <2>1, PassOthers
<1>11. CASE HashGroup \/ ScalarGroup
  <2>1. plan.kind \notin PassKinds /\ plan' = plan
    BY <1>11 DEF HashGroup, ScalarGroup, Asked, Return, NoMoreRows, PassKinds
  <2> QED BY <2>1, PassOthers
<1>12. CASE UNCHANGED vars
  <2>1. plan' = plan /\ outer' = outer /\ pc' = pc /\ read' = read /\ op' = op /\ out' = out
    BY <1>12 DEF vars
  <2>2. Left' = Left /\ Input' = Input
    BY <2>1, ChildrenKept
  <2>3. ScanRead' = ScanRead
    BY <2>1, <2>2 DEF ScanRead
  <2>4. OrderRead' = OrderRead
    BY <2>1, OrdersKept DEF OrderRead
  <2>5. LimitRead' = LimitRead
    BY <2>1, <2>2 DEF LimitRead, Passed
  <2> QED BY <2>1, <2>3, <2>4, <2>5 DEF PassInv
<1> QED BY <1>1, <1>2, <1>3, <1>4, <1>5, <1>6, <1>7, <1>8, <1>9, <1>10, <1>11, <1>12 DEF Next

LEMMA ScanAnswered ==
  ASSUME PassInv, pc = "end", plan.kind \in {"scan", "unionAll"}
  PROVE  out = Input
<1>1. ScanRead /\ Input \in Seq(Row)
  BY PassInput DEF PassInv, PassKinds
<1> QED BY <1>1, CopiedAll DEF ScanRead

LEMMA OrderAnswered ==
  ASSUME PassInv, pc = "end", plan.kind \in {"sort", "topn"}
  PROVE  out \in Seq(Row) /\ out = op.rows /\ (plan.kind = "sort" => out \in Sorted(Left))
         /\ (plan.kind = "topn" => out \in TopRows(Left)) /\ Left \in Seq(Row)
<1>1. OrderRead /\ Left \in Seq(Row) /\ plan \in Plan
  BY PassInput DEF PassInv, PassKinds
<1>2. op.rows \in Seq(Row)
  BY <1>1, SortedIs, TopIs DEF OrderRead, First
<1>3. out = op.rows
  BY <1>1, <1>2, CopiedAll DEF OrderRead
<1> QED BY <1>1, <1>2, <1>3 DEF OrderRead

LEMMA LimitAnswered ==
  ASSUME PassInv, pc = "end", plan.kind = "limit", plan.size > 0
  PROVE  out = SubSeq(Left, plan.offset + 1, Min({plan.offset + plan.size, Len(Left)}))
<1>1. LimitRead /\ Left \in Seq(Row) /\ Input = Left /\ plan \in Plan
  BY PassInput DEF PassInv, PassKinds
<1>2. PICK size \in Nat, m \in Nat : size = plan.size /\ m = plan.offset
  BY <1>1, PlanAssumption
<1>3. PICK n \in Nat : n = Len(Left)
  BY <1>1
<1>4. PICK k \in Nat : k = Passed(read) /\ k <= size /\ Copied(out, Left, m, k)
  BY <1>1, <1>2 DEF LimitRead, Passed
<1>5. read \in Nat /\ read <= n /\ (read = n \/ k = size)
  BY <1>1, <1>2, <1>3, <1>4 DEF LimitRead
<1>6. k = IF m < read THEN read - m ELSE 0
  BY <1>2, <1>4 DEF Passed
<1>7. Min({m + size, n}) = IF n < m + size THEN n ELSE m + size
  BY MinOf
<1>8. PICK e \in Nat : e = Min({m + size, n})
  BY <1>7
<1>9. e <= n /\ (m < e => k = e - m) /\ (~(m < e) => k = 0)
  BY <1>2, <1>4, <1>5, <1>6, <1>7, <1>8
<1>10. out \in Seq(Row) /\ Len(out) = k /\ \A i \in 1 .. k : out[i] = Left[m + i]
  BY <1>4 DEF Copied
<1>11. PICK t : t = SubSeq(Left, m + 1, e)
  OBVIOUS
<1>12. /\ t \in Seq(Row) /\ Len(t) = IF m + 1 <= e THEN e - (m + 1) + 1 ELSE 0
       /\ \A i \in 1 .. e - (m + 1) + 1 : t[i] = Left[(m + 1) + i - 1]
  BY <1>1, <1>3, <1>9, <1>11, SubSeqProperties
<1>13. Len(t) = k /\ \A i \in 1 .. k : t[i] = Left[m + i]
  BY <1>9, <1>12
<1>14. out = t
  BY <1>10, <1>12, <1>13
<1> QED BY <1>2, <1>3, <1>8, <1>11, <1>14

LEMMA PassAnswered == PassInv => PassesExact
<1> SUFFICES ASSUME PassInv PROVE PassesExact
  OBVIOUS
<1>1. CASE pc = "end" /\ plan.kind \in {"scan", "unionAll"}
  <2>1. out = Input
    BY <1>1, ScanAnswered
  <2> QED BY <1>1, <2>1 DEF PassesExact, Input
<1>2. CASE pc = "end" /\ plan.kind = "sort"
  <2>1. out \in Sorted(Left) /\ Left \in Seq(Row)
    BY <1>2, OrderAnswered
  <2>2. /\ Len(out) = Len(Left) /\ InOrder(out)
        /\ \A e : Occurrences(out, e) = Occurrences(Left, e)
    BY <2>1, SortedIs
  <2>3. Cardinality(DOMAIN Left) = Len(Left)
    <3>1. PICK n \in Nat : n = Len(Left) /\ DOMAIN Left = 1 .. n
      BY <2>1
    <3>2. Cardinality(1 .. n) = IF 1 > n THEN 0 ELSE n - 1 + 1
      BY FS_Interval
    <3> QED BY <3>1, <3>2
  <2>4. \A e : Cardinality({x \in DOMAIN Left : Left[x] = e}) = Occurrences(Left, e)
    BY DEF Occurrences
  <2>5. Returned(DOMAIN Left, LeftRow)
    BY <2>2, <2>3, <2>4 DEF Returned, LeftRow
  <2> QED BY <1>2, <2>2, <2>5 DEF PassesExact
<1>3. CASE pc = "end" /\ plan.kind = "topn"
  <2>1. out \in TopRows(Left) /\ Left \in Seq(Row) /\ plan \in Plan
    BY <1>3, OrderAnswered DEF PassInv
  <2>2. First(Left, out)
    BY <2>1, TopIs
  <2>3. \A l \in ToSet(Left) : l \in Row
    BY <2>1 DEF ToSet
  <2> QED BY <1>3, <2>2, <2>3 DEF PassesExact, First
<1>4. CASE pc = "end" /\ plan.kind = "limit" /\ plan.size > 0
  BY <1>4, LimitAnswered DEF PassesExact
<1>5. CASE ~(pc = "end" /\ (plan.kind \in {"scan", "unionAll", "sort", "topn"}
                              \/ (plan.kind = "limit" /\ plan.size > 0)))
  BY <1>5 DEF PassesExact
<1> QED BY <1>1, <1>2, <1>3, <1>4, <1>5

\* A scan, UNION ALL, ORDER BY with or without LIMIT, and LIMIT give all their
\* rows, and in the order asked for, in every pass: after reset, reopen and a
\* pass left early (TableScan, Sort, TopNSort and Limit).
THEOREM GivesPasses == Spec => []PassesExact
<1>1. Init => PassInv
  BY PassInit
<1>2. PassInv /\ [Next]_vars => PassInv'
  BY PassNext
<1>3. PassInv => PassesExact
  BY PassAnswered
<1> QED BY <1>1, <1>2, <1>3, PTL DEF Spec
-----------------------------------------------------------------------------
(* Sequences that have something for every member of a set, once.           *)

ListsBy(f, s, S, g) ==
  /\ f \in [DOMAIN s -> S]
  /\ \A i, j \in DOMAIN s : f[i] = f[j] => i = j
  /\ \A x \in S : \E i \in DOMAIN s : f[i] = x
  /\ \A i \in DOMAIN s : s[i] = g[f[i]]

\* s has g[x] for every x of S, in some order
Lists(s, S, g) == \E f : ListsBy(f, s, S, g)

LEMMA ListsNone ==
  ASSUME NEW g
  PROVE  Lists(<<>>, {}, g)
<1>1. ListsBy(<<>>, <<>>, {}, g)
  BY DEF ListsBy
<1> QED BY <1>1 DEF Lists

LEMMA ListsAll ==
  ASSUME NEW V, NEW s \in Seq(V)
  PROVE  Lists(s, DOMAIN s, s)
<1> DEFINE f == [i \in DOMAIN s |-> i]
<1>1. ListsBy(f, s, DOMAIN s, s)
  BY DEF ListsBy
<1> QED BY <1>1, Zenon DEF Lists

LEMMA ListsBoth ==
  ASSUME NEW V, NEW s \in Seq(V), NEW t \in Seq(V), NEW S, NEW T, NEW g,
         Lists(s, S, g), Lists(t, T, g), S \cap T = {}
  PROVE  s \o t \in Seq(V) /\ Lists(s \o t, S \cup T, g)
<1>1. PICK m \in Nat, n \in Nat : m = Len(s) /\ n = Len(t)
  OBVIOUS
<1>2. PICK u : u = s \o t
  OBVIOUS
<1>3. u \in Seq(V) /\ DOMAIN u = 1 .. m + n /\ DOMAIN s = 1 .. m /\ DOMAIN t = 1 .. n
  BY <1>1, <1>2
<1>4. (\A i \in 1 .. m : u[i] = s[i]) /\ (\A i \in m + 1 .. m + n : u[i] = t[i - m])
  BY <1>1, <1>2
<1>5. PICK f : ListsBy(f, s, S, g)
  BY DEF Lists
<1>6. PICK h : ListsBy(h, t, T, g)
  BY DEF Lists
<1>7. /\ f \in [1 .. m -> S] /\ \A i, j \in 1 .. m : f[i] = f[j] => i = j
      /\ \A x \in S : \E i \in 1 .. m : f[i] = x
      /\ \A i \in 1 .. m : s[i] = g[f[i]]
  BY <1>3, <1>5 DEF ListsBy
<1>8. /\ h \in [1 .. n -> T] /\ \A i, j \in 1 .. n : h[i] = h[j] => i = j
      /\ \A x \in T : \E i \in 1 .. n : h[i] = x
      /\ \A i \in 1 .. n : t[i] = g[h[i]]
  BY <1>3, <1>6 DEF ListsBy
<1> DEFINE k == [i \in 1 .. m + n |-> IF i <= m THEN f[i] ELSE h[i - m]]
<1>9. \A i \in 1 .. m + n : (i <= m => i \in 1 .. m) /\ (~(i <= m) => i \in m + 1 .. m + n /\ i - m \in 1 .. n)
  OBVIOUS
<1>10. /\ \A i \in 1 .. m : i \in 1 .. m + n /\ i <= m
       /\ \A i \in 1 .. n : i + m \in 1 .. m + n /\ ~(i + m <= m) /\ (i + m) - m = i
  OBVIOUS
<1>11. /\ \A i \in 1 .. m : k[i] = f[i] /\ k[i] \in S
       /\ \A i \in 1 .. n : k[i + m] = h[i] /\ k[i + m] \in T
  BY <1>7, <1>8, <1>10
<1>12. k \in [1 .. m + n -> S \cup T]
  BY <1>7, <1>8, <1>9
<1>13. ASSUME NEW i \in 1 .. m + n, NEW j \in 1 .. m + n, k[i] = k[j] PROVE i = j
  <2>1. CASE i <= m /\ j <= m
    BY <1>7, <1>9, <1>13, <2>1
  <2>2. CASE ~(i <= m) /\ ~(j <= m)
    <3>1. i - m = j - m
      BY <1>8, <1>9, <1>13, <2>2
    <3> QED BY <3>1
  <2>3. CASE (i <= m) # (j <= m)
    BY <1>7, <1>8, <1>9, <1>13, <2>3
  <2> QED BY <2>1, <2>2, <2>3
<1>14. ASSUME NEW x \in S \cup T PROVE \E i \in 1 .. m + n : k[i] = x
  <2>1. CASE x \in S
    <3>1. PICK i \in 1 .. m : f[i] = x
      BY <1>7, <2>1
    <3> QED BY <1>10, <1>11, <3>1
  <2>2. CASE x \in T
    <3>1. PICK i \in 1 .. n : h[i] = x
      BY <1>8, <2>2
    <3> QED BY <1>10, <1>11, <3>1
  <2> QED BY <2>1, <2>2
<1>15. ASSUME NEW i \in 1 .. m + n PROVE u[i] = g[k[i]]
  <2>1. CASE i <= m
    BY <1>4, <1>7, <1>9, <2>1
  <2>2. CASE ~(i <= m)
    BY <1>4, <1>8, <1>9, <2>2
  <2> QED BY <2>1, <2>2
<1> HIDE DEF k
<1>16. ListsBy(k, u, S \cup T, g)
  BY <1>3, <1>12, <1>13, <1>14, <1>15 DEF ListsBy
<1> QED BY <1>2, <1>3, <1>16 DEF Lists

LEMMA ListsOne ==
  ASSUME NEW x, NEW g
  PROVE  Lists(<<g[x]>>, {x}, g)
<1> DEFINE f == <<x>>
<1>1. ListsBy(f, <<g[x]>>, {x}, g)
  BY DEF ListsBy
<1> QED BY <1>1, Zenon DEF Lists

LEMMA ListsNext ==
  ASSUME NEW V, NEW s \in Seq(V), NEW S, NEW g, Lists(s, S, g), NEW x, x \notin S, g[x] \in V
  PROVE  Append(s, g[x]) \in Seq(V) /\ Lists(Append(s, g[x]), S \cup {x}, g)
<1>1. <<g[x]>> \in Seq(V) /\ S \cap {x} = {}
  OBVIOUS
<1>2. Lists(s \o <<g[x]>>, S \cup {x}, g)
  BY <1>1, ListsOne, ListsBoth
<1>3. s \o <<g[x]>> = Append(s, g[x]) /\ Append(s, g[x]) \in Seq(V)
  OBVIOUS
<1>4. Lists(Append(s, g[x]), S \cup {x}, g)
  BY <1>2, <1>3
<1> QED BY <1>3, <1>4

\* As many as the set has, each as often as it is given
LEMMA ListsCounted ==
  ASSUME NEW V, NEW s \in Seq(V), NEW S, NEW g, Lists(s, S, g)
  PROVE  /\ Len(s) = Cardinality(S)
         /\ \A e : Occurrences(s, e) = Cardinality({x \in S : g[x] = e})
<1>1. PICK n \in Nat : n = Len(s) /\ DOMAIN s = 1 .. n
  OBVIOUS
<1>2. IsFiniteSet(1 .. n) /\ Cardinality(1 .. n) = n
  <2>1. IsFiniteSet(1 .. n) /\ Cardinality(1 .. n) = IF 1 > n THEN 0 ELSE n - 1 + 1
    BY FS_Interval
  <2> QED BY <1>1, <2>1
<1>3. PICK f : ListsBy(f, s, S, g)
  BY DEF Lists
<1>4. /\ f \in [1 .. n -> S] /\ \A i, j \in 1 .. n : f[i] = f[j] => i = j
      /\ \A x \in S : \E i \in 1 .. n : f[i] = x
      /\ \A i \in 1 .. n : s[i] = g[f[i]]
  BY <1>1, <1>3 DEF ListsBy
<1>5. Len(s) = Cardinality(S)
  <2>1. f \in Bijection(1 .. n, S)
    BY <1>4 DEF Bijection, Injection, Surjection, IsInjective
  <2>2. ExistsBijection(1 .. n, S)
    BY <2>1 DEF ExistsBijection
  <2> QED BY <1>1, <1>2, <2>2, FS_Bijection
<1>6. ASSUME NEW e PROVE Occurrences(s, e) = Cardinality({x \in S : g[x] = e})
  <2> DEFINE A == {i \in 1 .. n : s[i] = e}
             B == {x \in S : g[x] = e}
             q == [i \in A |-> f[i]]
  <2>1. q \in [A -> B]
    BY <1>4
  <2>2. \A i, j \in A : q[i] = q[j] => i = j
    BY <1>4
  <2>3. \A x \in B : \E i \in A : q[i] = x
    <3>1. SUFFICES ASSUME NEW x \in B PROVE \E i \in A : q[i] = x
      OBVIOUS
    <3>2. PICK i \in 1 .. n : f[i] = x
      BY <1>4
    <3>3. i \in A
      BY <1>4, <3>2
    <3> QED BY <3>2, <3>3
  <2>4. IsFiniteSet(A)
    BY <1>2, FS_Subset
  <2> HIDE DEF A, B, q
  <2>5. q \in Bijection(A, B)
    BY <2>1, <2>2, <2>3 DEF Bijection, Injection, Surjection, IsInjective
  <2>6. ExistsBijection(A, B)
    BY <2>5 DEF ExistsBijection
  <2>7. Cardinality(A) = Cardinality(B)
    BY <2>4, <2>6, FS_Bijection
  <2> QED BY <1>1, <2>7 DEF A, B, Occurrences
<1> QED BY <1>5, <1>6

\* Those of a listed sequence that are in C
LEMMA ListsSome ==
  ASSUME NEW V, NEW s \in Seq(V), NEW S, NEW g, Lists(s, S, g),
         NEW C, NEW P \in SUBSET DOMAIN s, \A j \in DOMAIN s : j \in P <=> s[j] \in C,
         NEW t, Lists(t, P, s),
         NEW T \in SUBSET S, \A x \in S : x \in T <=> g[x] \in C
  PROVE  Lists(t, T, g)
<1>1. PICK f : ListsBy(f, s, S, g)
  BY DEF Lists
<1>2. PICK h : ListsBy(h, t, P, s)
  BY DEF Lists
<1>3. /\ f \in [DOMAIN s -> S] /\ \A i, j \in DOMAIN s : f[i] = f[j] => i = j
      /\ \A x \in S : \E i \in DOMAIN s : f[i] = x
      /\ \A i \in DOMAIN s : s[i] = g[f[i]]
  BY <1>1 DEF ListsBy
<1>4. /\ h \in [DOMAIN t -> P] /\ \A i, j \in DOMAIN t : h[i] = h[j] => i = j
      /\ \A x \in P : \E i \in DOMAIN t : h[i] = x
      /\ \A i \in DOMAIN t : t[i] = s[h[i]]
  BY <1>2 DEF ListsBy
<1> DEFINE k == [i \in DOMAIN t |-> f[h[i]]]
<1>5. \A i \in DOMAIN t : h[i] \in DOMAIN s /\ s[h[i]] \in C /\ k[i] = f[h[i]]
  BY <1>4
<1>6. k \in [DOMAIN t -> T]
  <2>1. \A i \in DOMAIN t : f[h[i]] \in T
    BY <1>3, <1>5
  <2> QED BY <2>1
<1>7. \A i, j \in DOMAIN t : k[i] = k[j] => i = j
  BY <1>3, <1>4, <1>5
<1>8. ASSUME NEW x \in T PROVE \E i \in DOMAIN t : k[i] = x
  <2>1. PICK j \in DOMAIN s : f[j] = x
    BY <1>3
  <2>2. j \in P
    BY <1>3, <2>1
  <2>3. PICK i \in DOMAIN t : h[i] = j
    BY <1>4, <2>2
  <2> QED BY <1>5, <2>1, <2>3
<1>9. \A i \in DOMAIN t : t[i] = g[k[i]]
  BY <1>3, <1>4, <1>5
<1> HIDE DEF k
<1>10. ListsBy(k, t, T, g)
  BY <1>6, <1>7, <1>8, <1>9 DEF ListsBy
<1> QED BY <1>10 DEF Lists

LEMMA OnlyLists ==
  ASSUME NEW V, NEW s \in Seq(V), NEW P
  PROVE  Lists(Only(s, P), P \cap DOMAIN s, s)
<1>0. PICK f \in [0 .. Len(s) -> Seq(V)] :
           /\ f[0] = <<>> /\ Only(s, P) = f[Len(s)]
           /\ \A i \in 1 .. Len(s) : f[i] = IF i \in P THEN Append(f[i - 1], s[i]) ELSE f[i - 1]
  BY OnlyIs
<1>1. PICK n \in Nat : n = Len(s) /\ DOMAIN s = 1 .. n
  OBVIOUS
<1>2. /\ f \in [0 .. n -> Seq(V)] /\ f[0] = <<>> /\ Only(s, P) = f[n]
      /\ \A i \in 1 .. n : f[i] = IF i \in P THEN Append(f[i - 1], s[i]) ELSE f[i - 1]
  BY <1>0, <1>1
<1> DEFINE UpToHere(i) == P \cap 1 .. i
           T == {i \in 0 .. n : Lists(f[i], UpToHere(i), s)}
<1>3. 0 \in T
  <2>1. UpToHere(0) = {} /\ 0 \in 0 .. n
    OBVIOUS
  <2> HIDE DEF UpToHere
  <2> QED BY <1>2, <2>1, ListsNone
<1>4. ASSUME NEW i \in 1 .. n, i - 1 \in T PROVE i \in T
  <2>1. i - 1 \in 0 .. n /\ i \in 0 .. n /\ 1 .. i = 1 .. i - 1 \cup {i} /\ i \notin 1 .. i - 1
    OBVIOUS
  <2>2. f[i - 1] \in Seq(V) /\ s[i] \in V /\ Lists(f[i - 1], UpToHere(i - 1), s)
    BY <1>1, <1>4, <2>1
  <2>3. CASE i \in P
    <3>1. UpToHere(i) = UpToHere(i - 1) \cup {i} /\ i \notin UpToHere(i - 1)
      BY <2>1, <2>3
    <3>2. f[i] = Append(f[i - 1], s[i])
      BY <1>2, <2>3
    <3> HIDE DEF UpToHere
    <3>3. Lists(Append(f[i - 1], s[i]), UpToHere(i - 1) \cup {i}, s)
      BY <2>2, <3>1, ListsNext
    <3> QED BY <2>1, <3>1, <3>2, <3>3
  <2>4. CASE i \notin P
    <3>1. UpToHere(i) = UpToHere(i - 1)
      BY <2>1, <2>4
    <3>2. f[i] = f[i - 1]
      BY <1>2, <2>4
    <3> QED BY <2>1, <2>2, <3>1, <3>2
  <2> QED BY <2>3, <2>4
<1>5. \A i \in 0 .. n : i \in T
  <2> HIDE DEF T
  <2>1. \A i \in 1 .. n : i - 1 \in T => i \in T
    BY <1>4
  <2> QED BY <1>3, <2>1, UpTo, Zenon
<1>6. n \in T
  BY <1>5
<1> QED BY <1>1, <1>2, <1>6

LEMMA OnlySome ==
  ASSUME NEW V, NEW s \in Seq(V), NEW S, NEW g, Lists(s, S, g),
         NEW C, NEW P \in SUBSET DOMAIN s, \A j \in DOMAIN s : j \in P <=> s[j] \in C,
         NEW T \in SUBSET S, \A x \in S : x \in T <=> g[x] \in C
  PROVE  Only(s, P) \in Seq(V) /\ Lists(Only(s, P), T, g)
<1>1. P \cap DOMAIN s = P
  OBVIOUS
<1>2. Lists(Only(s, P), P, s)
  BY <1>1, OnlyLists
<1>3. PICK t : t = Only(s, P)
  OBVIOUS
<1>4. Lists(t, P, s)
  BY <1>2, <1>3
<1>5. Lists(t, T, g)
  BY <1>4, ListsSome
<1> QED BY <1>3, <1>5, OnlyTyped

\* What is listed in different ways that give the same
LEMMA ListsAlso ==
  ASSUME NEW s, NEW S, NEW g, Lists(s, S, g), NEW h, \A x \in S : h[x] = g[x]
  PROVE  Lists(s, S, h)
<1>1. PICK f : ListsBy(f, s, S, g)
  BY DEF Lists
<1>2. ListsBy(f, s, S, h)
  BY <1>1 DEF ListsBy
<1> QED BY <1>2 DEF Lists

-----------------------------------------------------------------------------
(* The hash table by keys.                                                  *)

InBucket(s, S, b) == {i \in S : KeyHash[s[i]] = b}

\* t has the rows of s at the positions S, each in the bucket of its key
KeyTable(t, s, S) ==
  /\ t \in Table
  /\ \A b \in 1 .. Buckets : Lists(t[b], InBucket(s, S, b), s)

LEMMA KeyTyped ==
  ASSUME NEW r \in Row
  PROVE  KeyHash[r] \in 1 .. Buckets /\ \A x \in Row : x.k = r.k => KeyHash[x] = KeyHash[r]
BY HashAssumption

LEMMA NewKeyTable ==
  ASSUME NEW s
  PROVE  KeyTable(NewTable, s, {})
<1>1. NewTable \in Table /\ \A b \in 1 .. Buckets : NewTable[b] = <<>>
  BY NewTableOK DEF TableOK, NewTable
<1>2. \A b : InBucket(s, {}, b) = {}
  BY DEF InBucket
<1> QED BY <1>1, <1>2, ListsNone DEF KeyTable

LEMMA BuildKey ==
  ASSUME NEW s \in Seq(Row), NEW S \in SUBSET DOMAIN s, NEW t, KeyTable(t, s, S),
         NEW x \in DOMAIN s, x \notin S
  PROVE  KeyTable(Build(t, KeyHash, s[x]), s, S \cup {x})
<1>1. s[x] \in Row
  OBVIOUS
<1>2. PICK c \in 1 .. Buckets : c = KeyHash[s[x]]
  BY <1>1, KeyTyped
<1>3. PICK u : u = Build(t, KeyHash, s[x])
  OBVIOUS
<1>4. t \in [1 .. Buckets -> Seq(Row)] /\ \A b \in 1 .. Buckets : Lists(t[b], InBucket(s, S, b), s)
  BY DEF KeyTable, Table
<1>5. Append(t[c], s[x]) \in Seq(Row) /\ t[c] \in Seq(Row)
  BY <1>1, <1>4
<1>6. u = [t EXCEPT ![c] = Append(t[c], s[x])]
  BY <1>2, <1>3 DEF Build
<1>7. u \in Table /\ u[c] = Append(t[c], s[x]) /\ \A b \in 1 .. Buckets : b # c => u[b] = t[b]
  BY <1>4, <1>5, <1>6 DEF Table
<1>8. InBucket(s, S \cup {x}, c) = InBucket(s, S, c) \cup {x} /\ x \notin InBucket(s, S, c)
  BY <1>2 DEF InBucket
<1>9. \A b \in 1 .. Buckets : b # c => InBucket(s, S \cup {x}, b) = InBucket(s, S, b)
  BY <1>2 DEF InBucket
<1>10. Lists(u[c], InBucket(s, S \cup {x}, c), s)
  <2>1. Lists(Append(t[c], s[x]), InBucket(s, S, c) \cup {x}, s)
    BY <1>1, <1>4, <1>5, <1>8, ListsNext
  <2> QED BY <1>7, <1>8, <2>1
<1>11. \A b \in 1 .. Buckets : Lists(u[b], InBucket(s, S \cup {x}, b), s)
  BY <1>4, <1>7, <1>9, <1>10
<1> QED BY <1>3, <1>7, <1>11 DEF KeyTable

\* The rows of s go into the table one after the other
LEMMA BuildingIs ==
  ASSUME NEW t \in Table, NEW s \in Seq(Row)
  PROVE  \E f \in [0 .. Len(s) -> Table] :
           /\ f[0] = t /\ BuildAll(t, KeyHash, s) = f[Len(s)]
           /\ \A i \in 1 .. Len(s) : f[i] = Build(f[i - 1], KeyHash, s[i])
<1>1. PICK n \in Nat : n = Len(s)
  OBVIOUS
<1>2. ASSUME NEW i \in 1 .. n, NEW v \in Table PROVE Build(v, KeyHash, s[i]) \in Table
  <2>1. PICK b \in 1 .. Buckets : b = KeyHash[s[i]]
    BY <1>1, KeyTyped
  <2>2. Append(v[b], s[i]) \in Seq(Row)
    BY <1>1 DEF Table
  <2>3. [v EXCEPT ![b] = Append(@, s[i])] \in Table
    BY <2>2 DEF Table
  <2> QED BY <2>1, <2>3 DEF Build
<1> DEFINE Next1(f, i) == IF i = 0 THEN t ELSE Build(f[i - 1], KeyHash, s[i])
           step == [p \in (1 .. n) \X Table |-> Build(p[2], KeyHash, s[p[1]])]
<1>4. \E f : f = [i \in 0 .. n |-> Next1(f, i)]
  <2>1. step \in [(1 .. n) \X Table -> Table]
    BY <1>2
  <2>2. \A i \in 1 .. n, v \in Table : step[<<i, v>>] = Build(v, KeyHash, s[i])
    OBVIOUS
  <2> HIDE DEF step
  <2>3. PICK f : Iterates(f, n, Table, t, step)
    BY <2>1, Recursion, Zenon
  <2>4. ASSUME NEW i \in 0 .. n PROVE f[i] = Next1(f, i)
    <3>1. CASE i = 0
      BY <2>3, <3>1 DEF Iterates
    <3>2. CASE i # 0
      <4>1. i \in 1 .. n /\ i - 1 \in 0 .. n
        BY <3>2
      <4>2. f[i - 1] \in Table
        BY <2>3, <4>1 DEF Iterates
      <4> QED BY <2>2, <2>3, <4>1, <4>2 DEF Iterates
    <3> QED BY <3>1, <3>2
  <2>5. f = [i \in 0 .. n |-> f[i]]
    BY <2>3 DEF Iterates
  <2> QED BY <2>4, <2>5
<1>5. PICK f : f = [i \in 0 .. n |-> Next1(f, i)] /\ BuildAll(t, KeyHash, s) = f[n]
  BY <1>1, <1>4 DEF BuildAll, Building
<1>6. f[0] = t /\ \A i \in 1 .. n : f[i] = Build(f[i - 1], KeyHash, s[i])
  <2>1. 0 \in 0 .. n /\ \A i \in 1 .. n : i \in 0 .. n /\ i # 0
    OBVIOUS
  <2>2. \A i \in 0 .. n : f[i] = Next1(f, i)
    BY <1>5, Zenon
  <2> QED BY <2>1, <2>2
<1>7. \A i \in 0 .. n : f[i] \in Table
  <2> DEFINE T == {j \in 0 .. n : f[j] \in Table}
  <2>1. 0 \in T
    BY <1>6
  <2>2. \A i \in 1 .. n : i - 1 \in T => i \in T
    BY <1>2, <1>6
  <2>3. \A i \in 0 .. n : i \in T
    <3> HIDE DEF T
    <3> QED BY <2>1, <2>2, UpTo
  <2> QED BY <2>3
<1>8. f \in [0 .. n -> Table]
  BY <1>5, <1>7
<1> QED BY <1>1, <1>5, <1>6, <1>8

LEMMA BuiltKeyTable ==
  ASSUME NEW s \in Seq(Row)
  PROVE  KeyTable(BuildAll(NewTable, KeyHash, s), s, DOMAIN s)
<1>1. PICK n \in Nat : n = Len(s) /\ DOMAIN s = 1 .. n
  OBVIOUS
<1>2. NewTable \in Table
  BY NewTableOK DEF TableOK
<1>3. PICK f \in [0 .. Len(s) -> Table] :
           /\ f[0] = NewTable /\ BuildAll(NewTable, KeyHash, s) = f[Len(s)]
           /\ \A i \in 1 .. Len(s) : f[i] = Build(f[i - 1], KeyHash, s[i])
  BY <1>2, BuildingIs
<1> DEFINE T == {i \in 0 .. n : KeyTable(f[i], s, 1 .. i)}
<1>4. 0 \in T
  <2>1. 1 .. 0 = {} /\ 0 \in 0 .. n
    OBVIOUS
  <2>2. KeyTable(f[0], s, {})
    BY <1>3, NewKeyTable
  <2> QED BY <2>1, <2>2
<1>5. ASSUME NEW i \in 1 .. n, i - 1 \in T PROVE i \in T
  <2>1. /\ 1 .. i - 1 \in SUBSET DOMAIN s /\ i \in DOMAIN s /\ i \notin 1 .. i - 1
        /\ 1 .. i = 1 .. i - 1 \cup {i} /\ i \in 0 .. n
    BY <1>1
  <2>2. KeyTable(f[i - 1], s, 1 .. i - 1)
    BY <1>5
  <2>3. KeyTable(Build(f[i - 1], KeyHash, s[i]), s, 1 .. i - 1 \cup {i})
    BY <2>1, <2>2, BuildKey
  <2>4. f[i] = Build(f[i - 1], KeyHash, s[i])
    BY <1>1, <1>3
  <2> QED BY <2>1, <2>3, <2>4
<1>6. \A i \in 0 .. n : i \in T
  <2> HIDE DEF T
  <2>1. \A i \in 1 .. n : i - 1 \in T => i \in T
    BY <1>5
  <2> QED BY <1>4, <2>1, UpTo, Zenon
<1>7. n \in T
  BY <1>6
<1> QED BY <1>1, <1>3, <1>7

\* The rows that join with r
LEMMA MatchesAre ==
  ASSUME NEW s \in Seq(Row), NEW S \in SUBSET DOMAIN s, NEW t, KeyTable(t, s, S), NEW r \in Row
  PROVE  /\ Matches(t, r) \in Seq(Row)
         /\ Lists(Matches(t, r), {i \in S : KeyEqual(s[i], r)}, s)
<1> DEFINE C == {x \in Row : KeyEqual(x, r)}
           T == {i \in S : KeyEqual(s[i], r)}
<1>1. PICK b \in 1 .. Buckets : b = KeyHash[r]
  BY KeyTyped
<1>2. PICK u \in Seq(Row) : u = t[b]
  BY DEF KeyTable, Table
<1>3. PICK P : P = MatchesIn(u, r)
  OBVIOUS
<1>4. P \in SUBSET DOMAIN u /\ \A j \in DOMAIN u : j \in P <=> u[j] \in C
  BY <1>2, <1>3 DEF MatchesIn
<1>5. Lists(u, InBucket(s, S, b), s)
  BY <1>2 DEF KeyTable
<1>6. \A i \in S : s[i] \in Row
  OBVIOUS
<1>7. \A i \in S : KeyEqual(s[i], r) => KeyHash[s[i]] = b
  BY <1>1, <1>6, KeyTyped DEF KeyEqual
<1>8. T \in SUBSET InBucket(s, S, b) /\ \A x \in InBucket(s, S, b) : x \in T <=> s[x] \in C
  BY <1>6, <1>7 DEF InBucket
<1>9. Matches(t, r) = Only(u, P)
  BY <1>1, <1>2, <1>3 DEF Matches
<1> HIDE DEF C, T
<1>10. Only(u, P) \in Seq(Row) /\ Lists(Only(u, P), T, s)
  BY <1>4, <1>5, <1>8, OnlySome
<1> QED BY <1>9, <1>10 DEF T

\* Rows of one bucket are dropped
LEMMA DroppedKeys ==
  ASSUME NEW s \in Seq(Row), NEW S \in SUBSET DOMAIN s, NEW t, KeyTable(t, s, S),
         NEW b \in 1 .. Buckets, NEW C, \A i \in S : s[i] \notin C => KeyHash[s[i]] = b,
         NEW P \in SUBSET DOMAIN t[b], \A j \in DOMAIN t[b] : j \in P <=> t[b][j] \in C,
         NEW T \in SUBSET S, \A i \in S : i \in T <=> s[i] \in C
  PROVE  KeyTable([t EXCEPT ![b] = Only(t[b], P)], s, T)
<1>1. PICK u \in Seq(Row) : u = t[b]
  BY DEF KeyTable, Table
<1>2. PICK v : v = [t EXCEPT ![b] = Only(u, P)]
  OBVIOUS
<1>3. t \in [1 .. Buckets -> Seq(Row)] /\ \A c \in 1 .. Buckets : Lists(t[c], InBucket(s, S, c), s)
  BY DEF KeyTable, Table
<1>4. /\ InBucket(s, T, b) \in SUBSET InBucket(s, S, b)
      /\ \A i \in InBucket(s, S, b) : i \in InBucket(s, T, b) <=> s[i] \in C
  BY DEF InBucket
<1>5. Only(u, P) \in Seq(Row) /\ Lists(Only(u, P), InBucket(s, T, b), s)
  <2>1. Lists(u, InBucket(s, S, b), s)
    BY <1>1, <1>3
  <2>2. PICK A, B : A = InBucket(s, S, b) /\ B = InBucket(s, T, b)
    OBVIOUS
  <2>3. B \in SUBSET A /\ (\A i \in A : i \in B <=> s[i] \in C) /\ Lists(u, A, s)
    BY <1>4, <2>1, <2>2
  <2>4. P \in SUBSET DOMAIN u /\ \A j \in DOMAIN u : j \in P <=> u[j] \in C
    BY <1>1
  <2>5. Only(u, P) \in Seq(Row) /\ Lists(Only(u, P), B, s)
    <3>1. PICK V, c, p, x : V = Row /\ c = C /\ p = P /\ x = u
      OBVIOUS
    <3>2. x \in Seq(V) /\ Lists(x, A, s) /\ p \in SUBSET DOMAIN x
      BY <1>1, <2>3, <2>4, <3>1
    <3>3. (\A j \in DOMAIN x : j \in p <=> x[j] \in c) /\ B \in SUBSET A /\ \A i \in A : i \in B <=> s[i] \in c
      BY <2>3, <2>4, <3>1
    <3>4. Only(x, p) \in Seq(V) /\ Lists(Only(x, p), B, s)
      BY <3>2, <3>3, OnlySome
    <3> QED BY <3>1, <3>4
  <2> QED BY <2>2, <2>5
<1>6. v \in Table /\ v[b] = Only(u, P) /\ \A c \in 1 .. Buckets : c # b => v[c] = t[c]
  BY <1>2, <1>3, <1>5 DEF Table
<1>7. \A c \in 1 .. Buckets : c # b => InBucket(s, T, c) = InBucket(s, S, c)
  BY DEF InBucket
<1>8. \A c \in 1 .. Buckets : Lists(v[c], InBucket(s, T, c), s)
  BY <1>3, <1>5, <1>6, <1>7
<1>9. KeyTable(v, s, T)
  BY <1>6, <1>8 DEF KeyTable
<1> QED BY <1>1, <1>2, <1>9

\* probe_and_drop leaves the rows that do not join with r
LEMMA DropLeaves ==
  ASSUME NEW s \in Seq(Row), NEW S \in SUBSET DOMAIN s, NEW t, KeyTable(t, s, S), NEW r \in Row
  PROVE  KeyTable(Drop(t, r), s, {i \in S : ~KeyEqual(s[i], r)})
<1> DEFINE C == {x \in Row : ~KeyEqual(x, r)}
           T == {i \in S : ~KeyEqual(s[i], r)}
<1>1. PICK b \in 1 .. Buckets : b = KeyHash[r]
  BY KeyTyped
<1>2. PICK u \in Seq(Row) : u = t[b]
  BY DEF KeyTable, Table
<1>3. PICK P : P = DOMAIN u \ MatchesIn(u, r)
  OBVIOUS
<1>4. P \in SUBSET DOMAIN u /\ \A j \in DOMAIN u : j \in P <=> u[j] \in C
  BY <1>2, <1>3 DEF MatchesIn
<1>5. \A i \in S : s[i] \in Row
  OBVIOUS
<1>6. \A i \in S : KeyEqual(s[i], r) => KeyHash[s[i]] = b
  BY <1>1, <1>5, KeyTyped DEF KeyEqual
<1>7. T \in SUBSET S /\ \A i \in S : (i \in T <=> s[i] \in C) /\ (s[i] \notin C => KeyHash[s[i]] = b)
  BY <1>5, <1>6
<1>8. Drop(t, r) = [t EXCEPT ![b] = Only(t[b], P)]
  BY <1>1, <1>2, <1>3 DEF Drop
<1> HIDE DEF C, T
<1>9. P \in SUBSET DOMAIN t[b] /\ \A j \in DOMAIN t[b] : j \in P <=> t[b][j] \in C
  BY <1>2, <1>4
<1>10. KeyTable([t EXCEPT ![b] = Only(t[b], P)], s, T)
  BY <1>7, <1>9, DroppedKeys
<1> QED BY <1>8, <1>10 DEF T

\* NOT IN: for keys that are not NULL
LEMMA DropAntiLeaves ==
  ASSUME NEW s \in Seq(Row), NEW S \in SUBSET DOMAIN s, NEW t, KeyTable(t, s, S), NEW r \in Row,
         r.k # Null, \A i \in S : s[i].k # Null
  PROVE  KeyTable(DropAnti(t, r), s, {i \in S : s[i].k # r.k})
<1> DEFINE C == {x \in Row : ~AntiEqual(x, r)}
           T == {i \in S : s[i].k # r.k}
<1>1. PICK b \in 1 .. Buckets : b = KeyHash[r]
  BY KeyTyped
<1>2. PICK u \in Seq(Row) : u = t[b]
  BY DEF KeyTable, Table
<1>3. PICK P : P = {i \in DOMAIN u : ~AntiEqual(u[i], r)}
  OBVIOUS
<1>4. P \in SUBSET DOMAIN u /\ \A j \in DOMAIN u : j \in P <=> u[j] \in C
  BY <1>2, <1>3
<1>5. \A i \in S : s[i] \in Row
  OBVIOUS
<1>6. \A i \in S : s[i].k = r.k => KeyHash[s[i]] = b
  BY <1>1, <1>5, KeyTyped
<1>7. T \in SUBSET S /\ \A i \in S : (i \in T <=> s[i] \in C) /\ (s[i] \notin C => KeyHash[s[i]] = b)
  BY <1>5, <1>6 DEF AntiEqual
<1>8. DropAnti(t, r) = [t EXCEPT ![b] = Only(t[b], P)]
  BY <1>1, <1>2, <1>3 DEF DropAnti
<1> HIDE DEF C, T
<1>9. P \in SUBSET DOMAIN t[b] /\ \A j \in DOMAIN t[b] : j \in P <=> t[b][j] \in C
  BY <1>2, <1>4
<1>10. KeyTable([t EXCEPT ![b] = Only(t[b], P)], s, T)
  BY <1>7, <1>9, DroppedKeys
<1> QED BY <1>8, <1>10 DEF T

-----------------------------------------------------------------------------
(* The rows of a hash table, bucket by bucket.                              *)

\* f is what the first sequences of t give, one behind the other
Flattens(f, n, V, t) ==
  /\ f \in [1 .. n -> Seq(V)] /\ f[1] = t[1] /\ FlattenSeq(t) = f[n]
  /\ \A i \in 2 .. n : f[i] = f[i - 1] \o t[i]

LEMMA FlattenIs ==
  ASSUME NEW n \in Nat \ {0}, NEW V, NEW t \in [1 .. n -> Seq(V)]
  PROVE  \E f : Flattens(f, n, V, t)
<1>1. Len(t) = n /\ Len(t) # 0
  <2>1. t \in Seq(Seq(V)) /\ DOMAIN t = 1 .. n
    OBVIOUS
  <2> QED BY <2>1
<1>2. PICK W : W = Seq(V)
  OBVIOUS
<1>3. \A i \in 1 .. n, w \in W : t[i] \in W /\ w \o t[i] \in W
  BY <1>2
<1>4. PICK e \in W : e = <<>>
  <2>1. <<>> \in Seq(V)
    OBVIOUS
  <2> QED BY <1>2, <2>1
<1> DEFINE Joined(f, i) == IF i = 1 THEN t[i] ELSE f[i - 1] \o t[i]
           step == [p \in (1 .. n) \X W |-> IF p[1] = 1 THEN t[p[1]] ELSE p[2] \o t[p[1]]]
<1>5. \E f : f = [i \in 1 .. n |-> Joined(f, i)]
  <2>1. step \in [(1 .. n) \X W -> W]
    BY <1>3
  <2>2. \A i \in 1 .. n, w \in W : step[<<i, w>>] = IF i = 1 THEN t[i] ELSE w \o t[i]
    OBVIOUS
  <2> HIDE DEF step
  <2>3. PICK h : Iterates(h, n, W, e, step)
    BY <2>1, Recursion, Zenon
  <2>4. PICK f : f = [i \in 1 .. n |-> h[i]]
    OBVIOUS
  <2>5. ASSUME NEW i \in 1 .. n PROVE f[i] = Joined(f, i)
    <3>1. i - 1 \in 0 .. n /\ h[i - 1] \in W
      BY <2>3 DEF Iterates
    <3>2. f[i] = IF i = 1 THEN t[i] ELSE h[i - 1] \o t[i]
      BY <2>2, <2>3, <2>4, <3>1 DEF Iterates
    <3>3. CASE i = 1
      BY <3>2, <3>3
    <3>4. CASE i # 1
      <4>1. i - 1 \in 1 .. n
        BY <3>4
      <4> QED BY <2>4, <3>2, <3>4, <4>1
    <3> QED BY <3>3, <3>4
  <2>6. f = [i \in 1 .. n |-> f[i]]
    BY <2>4
  <2> QED BY <2>5, <2>6, ZenonT(40)
<1>6. PICK f : f = [i \in 1 .. n |-> Joined(f, i)] /\ FlattenSeq(t) = f[n]
  BY <1>1, <1>5 DEF FlattenSeq
<1>7. f[1] = t[1] /\ \A i \in 2 .. n : f[i] = f[i - 1] \o t[i]
  <2>1. 1 \in 1 .. n /\ \A i \in 2 .. n : i \in 1 .. n /\ i # 1
    OBVIOUS
  <2>2. \A i \in 1 .. n : f[i] = Joined(f, i)
    BY <1>6, Zenon
  <2> QED BY <2>1, <2>2
<1>8. \A i \in 1 .. n : f[i] \in W
  <2> DEFINE T == {j \in 0 .. n : j = 0 \/ f[j] \in W}
  <2>1. 0 \in T
    OBVIOUS
  <2>2. ASSUME NEW i \in 1 .. n, i - 1 \in T PROVE i \in T
    <3>1. CASE i = 1
      <4>0. 1 \in 1 .. n /\ 1 \in 0 .. n
        BY <3>1
      <4>1. t[1] \in W /\ 1 \in 0 .. n
        BY <1>3, <4>0
      <4>2. f[1] \in W
        BY <1>7, <4>1
      <4> QED BY <3>1, <4>1, <4>2
    <3>2. CASE i # 1
      <4>1. i \in 2 .. n /\ i \in 0 .. n /\ f[i - 1] \in W
        BY <2>2, <3>2
      <4>2. f[i - 1] \o t[i] \in W
        BY <1>3, <4>1
      <4>3. f[i] \in W
        BY <1>7, <4>1, <4>2
      <4> QED BY <4>1, <4>3
    <3> QED BY <3>1, <3>2
  <2>3. \A i \in 0 .. n : i \in T
    <3> HIDE DEF T
    <3> QED BY <2>1, <2>2, UpTo
  <2> QED BY <2>3
<1>9. f \in [1 .. n -> W]
  BY <1>6, <1>8
<1> QED BY <1>2, <1>6, <1>7, <1>9 DEF Flattens

LEMMA FlattenLists ==
  ASSUME NEW n \in Nat \ {0}, NEW V, NEW t \in [1 .. n -> Seq(V)], NEW D, NEW g,
         \A i \in 1 .. n : Lists(t[i], D[i], g),
         \A i, j \in 1 .. n : i # j => D[i] \cap D[j] = {}
  PROVE  FlattenSeq(t) \in Seq(V) /\ Lists(FlattenSeq(t), UNION {D[i] : i \in 1 .. n}, g)
<1>0. PICK f : Flattens(f, n, V, t)
  BY FlattenIs, Zenon
<1>1. /\ f \in [1 .. n -> Seq(V)] /\ f[1] = t[1] /\ FlattenSeq(t) = f[n]
      /\ \A i \in 2 .. n : f[i] = f[i - 1] \o t[i]
  BY <1>0 DEF Flattens
<1> DEFINE UpToHere(i) == UNION {D[j] : j \in 1 .. i}
           T == {i \in 0 .. n : i = 0 \/ Lists(f[i], UpToHere(i), g)}
<1>2. 0 \in T
  OBVIOUS
<1>3. ASSUME NEW i \in 1 .. n, i - 1 \in T PROVE i \in T
  <2>1. i \in 0 .. n
    OBVIOUS
  <2>2. CASE i = 1
    <3>1. UpToHere(1) = D[1] /\ 1 \in 1 .. n
      OBVIOUS
    <3> HIDE DEF UpToHere
    <3> QED BY <1>1, <2>1, <2>2, <3>1
  <2>3. CASE i # 1
    <3>1. i \in 2 .. n /\ i - 1 \in 1 .. n /\ 1 .. i = 1 .. i - 1 \cup {i} /\ \A j \in 1 .. i - 1 : j \in 1 .. n /\ j # i
      BY <2>3
    <3>2. UpToHere(i) = UpToHere(i - 1) \cup D[i]
      BY <3>1
    <3>3. UpToHere(i - 1) \cap D[i] = {}
      <4>1. SUFFICES ASSUME NEW j \in 1 .. i - 1, NEW x \in D[j] PROVE x \notin D[i]
        OBVIOUS
      <4>2. D[j] \cap D[i] = {}
        BY <3>1
      <4> QED BY <4>2
    <3> HIDE DEF UpToHere
    <3>4. Lists(f[i - 1], UpToHere(i - 1), g)
      BY <1>3, <2>3
    <3>5. f[i - 1] \in Seq(V) /\ t[i] \in Seq(V) /\ Lists(t[i], D[i], g)
      BY <1>1, <3>1
    <3>6. Lists(f[i - 1] \o t[i], UpToHere(i - 1) \cup D[i], g)
      BY <3>3, <3>4, <3>5, ListsBoth
    <3>7. f[i] = f[i - 1] \o t[i]
      BY <1>1, <3>1
    <3> QED BY <2>1, <3>2, <3>6, <3>7
  <2> QED BY <2>2, <2>3
<1>4. \A i \in 0 .. n : i \in T
  <2> HIDE DEF T
  <2>1. \A i \in 1 .. n : i - 1 \in T => i \in T
    BY <1>3
  <2> QED BY <1>2, <2>1, UpTo, Zenon
<1>5. n \in T /\ n # 0 /\ n \in 1 .. n
  <2>1. n \in 0 .. n /\ n # 0 /\ n \in 1 .. n
    OBVIOUS
  <2> HIDE DEF T
  <2> QED BY <1>4, <2>1
<1>6. Lists(f[n], UpToHere(n), g) /\ f[n] \in Seq(V)
  BY <1>1, <1>5
<1> QED BY <1>1, <1>6

LEMMA RowsListed ==
  ASSUME NEW s \in Seq(Row), NEW S \in SUBSET DOMAIN s, NEW t, KeyTable(t, s, S)
  PROVE  Rows(t) \in Seq(Row) /\ Lists(Rows(t), S, s)
<1>1. PICK n \in Nat \ {0} : n = Buckets
  BY HashAssumption
<1> DEFINE D == [b \in 1 .. n |-> InBucket(s, S, b)]
<1>2. t \in [1 .. n -> Seq(Row)] /\ \A b \in 1 .. n : Lists(t[b], D[b], s)
  BY <1>1 DEF KeyTable, Table
<1>3. \A b, c \in 1 .. n : b # c => D[b] \cap D[c] = {}
  BY DEF InBucket
<1>4. UNION {D[b] : b \in 1 .. n} = S
  <2>1. \A i \in S : KeyHash[s[i]] \in 1 .. n
    BY <1>1, KeyTyped
  <2> QED BY <2>1 DEF InBucket
<1> HIDE DEF D
<1>5. FlattenSeq(t) \in Seq(Row) /\ Lists(FlattenSeq(t), UNION {D[b] : b \in 1 .. n}, s)
  BY <1>2, <1>3, FlattenLists
<1> QED BY <1>4, <1>5 DEF Rows

-----------------------------------------------------------------------------
(* NOT IN.                                                                  *)

LEMMA DroppingIs ==
  ASSUME NEW t \in Table, NEW s \in Seq(Row)
  PROVE  \E f \in [0 .. Len(s) -> Table] :
           /\ f[0] = t /\ DropAll(t, s) = f[Len(s)]
           /\ \A i \in 1 .. Len(s) : f[i] = DropAnti(f[i - 1], s[i])
<1>1. PICK n \in Nat : n = Len(s)
  OBVIOUS
<1>2. ASSUME NEW i \in 1 .. n, NEW v \in Table PROVE DropAnti(v, s[i]) \in Table
  <2>1. PICK r \in Row : r = s[i]
    BY <1>1
  <2>2. PICK b \in 1 .. Buckets : b = KeyHash[r]
    BY KeyTyped
  <2>3. v \in [1 .. Buckets -> Seq(Row)]
    BY DEF Table
  <2>4. PICK u \in Seq(Row) : u = Only(v[b], {j \in DOMAIN v[b] : ~AntiEqual(v[b][j], r)})
    BY <2>3, OnlyTyped
  <2>5. DropAnti(v, r) = [v EXCEPT ![b] = u]
    BY <2>2, <2>4 DEF DropAnti
  <2> QED BY <2>1, <2>3, <2>4, <2>5 DEF Table
<1> DEFINE Next1(f, i) == IF i = 0 THEN t ELSE DropAnti(f[i - 1], s[i])
           step == [p \in (1 .. n) \X Table |-> DropAnti(p[2], s[p[1]])]
<1>4. \E f : f = [i \in 0 .. n |-> Next1(f, i)]
  <2>1. step \in [(1 .. n) \X Table -> Table]
    BY <1>2
  <2>2. \A i \in 1 .. n, v \in Table : step[<<i, v>>] = DropAnti(v, s[i])
    OBVIOUS
  <2> HIDE DEF step
  <2>3. PICK f : Iterates(f, n, Table, t, step)
    BY <2>1, Recursion, Zenon
  <2>4. ASSUME NEW i \in 0 .. n PROVE f[i] = Next1(f, i)
    <3>1. CASE i = 0
      BY <2>3, <3>1 DEF Iterates
    <3>2. CASE i # 0
      <4>1. i \in 1 .. n /\ i - 1 \in 0 .. n
        BY <3>2
      <4>2. f[i - 1] \in Table
        BY <2>3, <4>1 DEF Iterates
      <4> QED BY <2>2, <2>3, <4>1, <4>2 DEF Iterates
    <3> QED BY <3>1, <3>2
  <2>5. f = [i \in 0 .. n |-> f[i]]
    BY <2>3 DEF Iterates
  <2> QED BY <2>4, <2>5
<1>5. PICK f : f = [i \in 0 .. n |-> Next1(f, i)] /\ DropAll(t, s) = f[n]
  BY <1>1, <1>4 DEF DropAll, Dropping
<1>6. f[0] = t /\ \A i \in 1 .. n : f[i] = DropAnti(f[i - 1], s[i])
  <2>1. 0 \in 0 .. n /\ \A i \in 1 .. n : i \in 0 .. n /\ i # 0
    OBVIOUS
  <2>2. \A i \in 0 .. n : f[i] = Next1(f, i)
    BY <1>5, Zenon
  <2> QED BY <2>1, <2>2
<1>7. \A i \in 0 .. n : f[i] \in Table
  <2> DEFINE T == {j \in 0 .. n : f[j] \in Table}
  <2>1. 0 \in T
    BY <1>6
  <2>2. \A i \in 1 .. n : i - 1 \in T => i \in T
    BY <1>2, <1>6
  <2>3. \A i \in 0 .. n : i \in T
    <3> HIDE DEF T
    <3> QED BY <2>1, <2>2, UpTo
  <2> QED BY <2>3
<1>8. f \in [0 .. n -> Table]
  BY <1>5, <1>7
<1> QED BY <1>1, <1>5, <1>6, <1>8

\* A table of some rows of s
LEMMA KeyTableThrough ==
  ASSUME NEW s \in Seq(Row), NEW P \in SUBSET DOMAIN s, NEW u \in Seq(Row), Lists(u, P, s),
         NEW t, KeyTable(t, u, DOMAIN u)
  PROVE  KeyTable(t, s, P)
<1>1. ASSUME NEW b \in 1 .. Buckets PROVE Lists(t[b], InBucket(s, P, b), s)
  <2> DEFINE C == {r \in Row : KeyHash[r] = b}
  <2>1. Lists(t[b], InBucket(u, DOMAIN u, b), u)
    BY DEF KeyTable
  <2>2. /\ InBucket(u, DOMAIN u, b) \in SUBSET DOMAIN u
        /\ \A j \in DOMAIN u : j \in InBucket(u, DOMAIN u, b) <=> u[j] \in C
    BY DEF InBucket
  <2>3. InBucket(s, P, b) \in SUBSET P /\ \A x \in P : x \in InBucket(s, P, b) <=> s[x] \in C
    BY DEF InBucket
  <2> HIDE DEF C
  <2> QED BY <2>1, <2>2, <2>3, ListsSome
<1> QED BY <1>1 DEF KeyTable

\* The rows NOT IN asks for
NotIn(L, R) == {i \in DOMAIN L : \A r \in ToSet(R) : L[i].k # Null /\ r.k # Null /\ L[i].k # r.k}

LEMMA UnmatchedAre ==
  ASSUME NEW L \in Seq(Row), NEW R \in Seq(Row), \A r \in ToSet(R) : r.k # Null
  PROVE  KeyTable(Unmatched(NewTable, L, R), L, NotIn(L, R))
<1>1. PICK n \in Nat : n = Len(R) /\ DOMAIN R = 1 .. n
  OBVIOUS
<1>2. PICK P : P = {i \in DOMAIN L : R = <<>> \/ L[i].k # Null}
  OBVIOUS
<1>3. PICK u \in Seq(Row) : u = Only(L, P)
  BY OnlyTyped
<1>4. P \in SUBSET DOMAIN L /\ Lists(u, P, L)
  <2>1. P \cap DOMAIN L = P
    BY <1>2
  <2> QED BY <1>2, <1>3, <2>1, OnlyLists
<1>5. PICK t \in Table : t = BuildAll(NewTable, KeyHash, u) /\ KeyTable(t, L, P)
  <2>1. KeyTable(BuildAll(NewTable, KeyHash, u), u, DOMAIN u)
    BY BuiltKeyTable
  <2>2. KeyTable(BuildAll(NewTable, KeyHash, u), L, P)
    BY <1>4, <2>1, KeyTableThrough
  <2> QED BY <2>2 DEF KeyTable
<1>6. Unmatched(NewTable, L, R) = DropAll(t, R)
  BY <1>2, <1>3, <1>5 DEF Unmatched
<1>7. PICK f \in [0 .. Len(R) -> Table] :
           /\ f[0] = t /\ DropAll(t, R) = f[Len(R)]
           /\ \A i \in 1 .. Len(R) : f[i] = DropAnti(f[i - 1], R[i])
  BY DroppingIs
<1> DEFINE Others(i) == {x \in P : \A j \in 1 .. i : L[x].k # R[j].k}
           T == {i \in 0 .. n : KeyTable(f[i], L, Others(i))}
<1>8. 0 \in T
  <2>1. Others(0) = P /\ 0 \in 0 .. n
    OBVIOUS
  <2> HIDE DEF Others
  <2> QED BY <1>5, <1>7, <2>1
<1>9. ASSUME NEW i \in 1 .. n, i - 1 \in T PROVE i \in T
  <2>1. i \in 0 .. n /\ 1 .. i = 1 .. i - 1 \cup {i}
    OBVIOUS
  <2>2. PICK r \in Row : r = R[i] /\ r.k # Null
    BY <1>1 DEF ToSet
  <2>3. Others(i - 1) \in SUBSET DOMAIN L /\ \A x \in Others(i - 1) : L[x].k # Null
    <3>1. R # <<>>
      BY <1>1
    <3> QED BY <1>2, <3>1
  <2>4. Others(i) = {x \in Others(i - 1) : L[x].k # r.k}
    BY <2>1, <2>2
  <2> HIDE DEF Others
  <2>5. KeyTable(f[i - 1], L, Others(i - 1))
    BY <1>9
  <2>6. KeyTable(DropAnti(f[i - 1], r), L, {x \in Others(i - 1) : L[x].k # r.k})
    BY <2>2, <2>3, <2>5, DropAntiLeaves
  <2>7. f[i] = DropAnti(f[i - 1], r)
    BY <1>1, <1>7, <2>2
  <2> QED BY <2>1, <2>4, <2>6, <2>7
<1>10. \A i \in 0 .. n : i \in T
  <2> HIDE DEF T
  <2>1. \A i \in 1 .. n : i - 1 \in T => i \in T
    BY <1>9
  <2> QED BY <1>8, <2>1, UpTo, Zenon
<1>11. n \in T
  <2>1. n \in 0 .. n
    OBVIOUS
  <2> HIDE DEF T
  <2> QED BY <1>10, <2>1
<1>12. Others(n) = NotIn(L, R)
  <2>1. R = <<>> <=> n = 0
    BY <1>1
  <2>2. \A r : r \in ToSet(R) <=> \E j \in 1 .. n : r = R[j]
    BY <1>1 DEF ToSet
  <2>3. ASSUME NEW i \in DOMAIN L PROVE i \in Others(n) <=> i \in NotIn(L, R)
    <3>1. i \in NotIn(L, R) <=> \A j \in 1 .. n : L[i].k # Null /\ R[j].k # Null /\ L[i].k # R[j].k
      BY <2>2, ZenonT(40) DEF NotIn
    <3>2. \A j \in 1 .. n : R[j].k # Null
      BY <2>2
    <3>3. i \in Others(n) <=> (R = <<>> \/ L[i].k # Null) /\ \A j \in 1 .. n : L[i].k # R[j].k
      BY <1>2
    <3>4. R # <<>> => 1 \in 1 .. n
      BY <2>1
    <3>5. R = <<>> => 1 .. n = {}
      BY <2>1
    <3> QED BY <3>1, <3>2, <3>3, <3>4, <3>5
  <2> QED BY <1>2, <2>3 DEF NotIn
<1> QED BY <1>1, <1>6, <1>7, <1>11, <1>12

-----------------------------------------------------------------------------
(* The pairs of a join.                                                     *)

PairOf(L, R) == [p \in (DOMAIN L) \X (DOMAIN R) |-> <<L[p[1]], R[p[2]]>>]

\* The pairs with the first k rows of the right side
PairsTo(L, R, k) == {p \in (DOMAIN L) \X (1 .. k) : KeyEqual(L[p[1]], R[p[2]])}

\* The left rows that have a match there
MatchedBy(L, R, k) == {i \in DOMAIN L : \E j \in 1 .. k : KeyEqual(L[i], R[j])}

\* The rows of the queue, which wait to be returned with r
PairsOf(q, r) == [j \in DOMAIN q |-> <<q[j], r>>]

LEMMA MoveHead ==
  ASSUME NEW V, NEW s \in Seq(V), NEW w \in Seq(V), w # <<>>
  PROVE  /\ Head(w) \in V /\ Tail(w) \in Seq(V)
         /\ Append(s, Head(w)) \o Tail(w) = s \o w
<1>1. PICK m \in Nat, n \in Nat : m = Len(s) /\ n = Len(w)
  OBVIOUS
<1>2. n > 0 /\ Head(w) \in V /\ Head(w) = w[1]
  BY <1>1
<1>3. PICK u : u = Tail(w)
  OBVIOUS
<1>4. u \in Seq(V) /\ Len(u) = n - 1 /\ \A i \in 1 .. n - 1 : u[i] = w[i + 1]
  BY <1>1, <1>2, <1>3
<1>5. PICK a : a = Append(s, Head(w))
  OBVIOUS
<1>6. a \in Seq(V) /\ Len(a) = m + 1 /\ a[m + 1] = w[1] /\ \A i \in 1 .. m : a[i] = s[i]
  BY <1>1, <1>2, <1>5
<1>7. PICK x : x = a \o u
  OBVIOUS
<1>8. PICK y : y = s \o w
  OBVIOUS
<1>9. /\ x \in Seq(V) /\ DOMAIN x = 1 .. m + n
      /\ \A i \in 1 .. m + 1 : x[i] = a[i]
      /\ \A i \in m + 2 .. m + n : x[i] = u[i - (m + 1)]
  <2>1. x \in Seq(V) /\ Len(x) = Len(a) + Len(u)
    <3>1. a \in Seq(V) /\ u \in Seq(V)
      BY <1>4, <1>6
    <3> QED BY <1>7, <3>1, ConcatProperties
  <2>2. (\A i \in 1 .. Len(a) : x[i] = a[i]) /\ \A i \in Len(a) + 1 .. Len(a) + Len(u) : x[i] = u[i - Len(a)]
    BY <1>4, <1>6, <1>7
  <2>3. Len(a) = m + 1 /\ Len(u) = n - 1 /\ Len(a) + 1 = m + 2 /\ Len(a) + Len(u) = m + n
    BY <1>2, <1>4, <1>6
  <2>4. DOMAIN x = 1 .. m + n
    BY <2>1, <2>3
  <2> QED BY <2>1, <2>2, <2>3, <2>4
<1>10. /\ y \in Seq(V) /\ DOMAIN y = 1 .. m + n
       /\ \A i \in 1 .. m : y[i] = s[i]
       /\ \A i \in m + 1 .. m + n : y[i] = w[i - m]
  BY <1>1, <1>8
<1>11. ASSUME NEW i \in 1 .. m + n PROVE x[i] = y[i]
  <2>1. CASE i \in 1 .. m
    <3>1. i \in 1 .. m + 1
      BY <2>1
    <3> QED BY <1>6, <1>9, <1>10, <2>1, <3>1
  <2>2. CASE i = m + 1
    <3>1. i \in 1 .. m + 1 /\ i \in m + 1 .. m + n /\ i - m = 1
      BY <1>2, <2>2
    <3> QED BY <1>6, <1>9, <1>10, <2>2, <3>1
  <2>3. CASE i \notin 1 .. m /\ i # m + 1
    <3>1. /\ i \in m + 2 .. m + n /\ i \in m + 1 .. m + n /\ i - (m + 1) \in 1 .. n - 1
          /\ (i - (m + 1)) + 1 = i - m
      BY <2>3
    <3> QED BY <1>4, <1>9, <1>10, <3>1
  <2> QED BY <2>1, <2>2, <2>3
<1>12. x = y
  BY <1>9, <1>10, <1>11
<1> QED BY <1>2, <1>3, <1>4, <1>5, <1>7, <1>8, <1>12

LEMMA PairsTyped ==
  ASSUME NEW q \in Seq(Row), NEW r \in Row
  PROVE  /\ PairsOf(q, r) \in Seq(Row \X Row)
         /\ q = <<>> => PairsOf(q, r) = <<>>
         /\ q # <<>> => /\ PairsOf(q, r) # <<>> /\ Head(PairsOf(q, r)) = <<Head(q), r>>
                        /\ PairsOf(Tail(q), r) = Tail(PairsOf(q, r))
<1>1. PICK n \in Nat : n = Len(q) /\ DOMAIN q = 1 .. n
  OBVIOUS
<1>2. PICK w : w = PairsOf(q, r)
  OBVIOUS
<1>3. DOMAIN w = 1 .. n /\ \A i \in 1 .. n : w[i] = <<q[i], r>> /\ w[i] \in Row \X Row
  BY <1>1, <1>2 DEF PairsOf
<1>4. w \in Seq(Row \X Row) /\ Len(w) = n
  <2>1. w = [i \in 1 .. n |-> w[i]]
    BY <1>1, <1>2 DEF PairsOf
  <2> QED BY <1>3, <2>1
<1>5. ASSUME q = <<>> PROVE w = <<>>
  BY <1>1, <1>4, <1>5
<1>6. ASSUME q # <<>> PROVE w # <<>> /\ Head(w) = <<Head(q), r>> /\ PairsOf(Tail(q), r) = Tail(w)
  <2>1. n > 0 /\ Head(q) = q[1] /\ 1 \in 1 .. n
    BY <1>1, <1>6
  <2>2. w # <<>> /\ Head(w) = w[1]
    BY <1>4, <2>1
  <2>3. PICK u : u = Tail(q)
    OBVIOUS
  <2>4. u \in Seq(Row) /\ DOMAIN u = 1 .. n - 1 /\ \A i \in 1 .. n - 1 : u[i] = q[i + 1]
    BY <1>1, <2>1, <2>3
  <2>5. PICK x : x = Tail(w)
    OBVIOUS
  <2>6. x \in Seq(Row \X Row) /\ DOMAIN x = 1 .. n - 1 /\ \A i \in 1 .. n - 1 : x[i] = w[i + 1]
    BY <1>4, <2>1, <2>5
  <2>7. PairsOf(u, r) = [i \in 1 .. n - 1 |-> <<u[i], r>>]
    BY <2>4 DEF PairsOf
  <2>8. \A i \in 1 .. n - 1 : x[i] = <<u[i], r>>
    <3>1. \A i \in 1 .. n - 1 : i + 1 \in 1 .. n
      OBVIOUS
    <3> QED BY <1>3, <2>4, <2>6, <3>1
  <2>9. x = [i \in 1 .. n - 1 |-> x[i]]
    BY <2>6
  <2>10. x = PairsOf(u, r)
    BY <2>7, <2>8, <2>9
  <2> QED BY <1>3, <2>1, <2>2, <2>3, <2>5, <2>10
<1> QED BY <1>2, <1>4, <1>5, <1>6

LEMMA PairsListed ==
  ASSUME NEW L \in Seq(Row), NEW R \in Seq(Row), NEW n \in DOMAIN R,
         NEW M \in SUBSET DOMAIN L, NEW q \in Seq(Row), Lists(q, M, L)
  PROVE  Lists(PairsOf(q, R[n]), M \X {n}, PairOf(L, R))
<1>1. PICK f : ListsBy(f, q, M, L)
  BY DEF Lists
<1>2. PICK w : w = PairsOf(q, R[n])
  OBVIOUS
<1>3. DOMAIN w = DOMAIN q /\ \A i \in DOMAIN q : w[i] = <<q[i], R[n]>>
  BY <1>2 DEF PairsOf
<1> DEFINE k == [i \in DOMAIN q |-> <<f[i], n>>]
           S == M \X {n}
<1>4. /\ f \in [DOMAIN q -> M] /\ \A i, j \in DOMAIN q : f[i] = f[j] => i = j
      /\ \A x \in M : \E i \in DOMAIN q : f[i] = x
      /\ \A i \in DOMAIN q : q[i] = L[f[i]]
  BY <1>1 DEF ListsBy
<1>5. k \in [DOMAIN q -> S] /\ \A i, j \in DOMAIN q : k[i] = k[j] => i = j
  BY <1>4
<1>6. \A p \in S : \E i \in DOMAIN q : k[i] = p
  <2>1. SUFFICES ASSUME NEW p \in S PROVE \E i \in DOMAIN q : k[i] = p
    OBVIOUS
  <2>3. PICK x \in M : p = <<x, n>>
    OBVIOUS
  <2>2. PICK i \in DOMAIN q : f[i] = x
    BY <1>4
  <2> QED BY <2>2, <2>3
<1>7. \A i \in DOMAIN q : w[i] = PairOf(L, R)[k[i]]
  <2>1. SUFFICES ASSUME NEW i \in DOMAIN q PROVE w[i] = PairOf(L, R)[<<f[i], n>>]
    OBVIOUS
  <2>2. <<f[i], n>> \in (DOMAIN L) \X (DOMAIN R)
    BY <1>4
  <2>3. PairOf(L, R)[<<f[i], n>>] = <<L[f[i]], R[n]>>
    BY <2>2 DEF PairOf
  <2> QED BY <1>3, <1>4, <2>3
<1> HIDE DEF k, S
<1>8. ListsBy(k, w, S, PairOf(L, R))
  BY <1>3, <1>5, <1>6, <1>7 DEF ListsBy
<1> QED BY <1>2, <1>8 DEF Lists, S

LEMMA ListsNothing ==
  ASSUME NEW S, NEW g, Lists(<<>>, S, g)
  PROVE  S = {}
<1>1. PICK f : ListsBy(f, <<>>, S, g)
  BY DEF Lists
<1>2. DOMAIN <<>> = {}
  OBVIOUS
<1> QED BY <1>1, <1>2 DEF ListsBy

\* The next row of the right side that has a match, and those before it
LEMMA JoinSkips ==
  ASSUME NEW L \in Seq(Row), NEW R \in Seq(Row), NEW t, NEW S \in SUBSET DOMAIN L, KeyTable(t, L, S),
         NEW i \in DOMAIN R, Matches(t, R[i]) = <<>>
  PROVE  \A x \in S : ~KeyEqual(L[x], R[i])
<1>1. R[i] \in Row
  OBVIOUS
<1>2. Lists(Matches(t, R[i]), {x \in S : KeyEqual(L[x], R[i])}, L)
  BY <1>1, MatchesAre
<1>3. {x \in S : KeyEqual(L[x], R[i])} = {}
  BY <1>2, ListsNothing
<1> QED BY <1>3

LEMMA JoinGoesOn ==
  ASSUME NEW L \in Seq(Row), NEW R \in Seq(Row), NEW t, KeyTable(t, L, DOMAIN L),
         NEW k \in Nat, NEW m \in Nat, k <= m, m <= Len(R),
         \A i \in k + 1 .. m : Matches(t, R[i]) = <<>>
  PROVE  PairsTo(L, R, m) = PairsTo(L, R, k)
<1>1. \A i \in k + 1 .. m : i \in DOMAIN R
  BY SMT
<1>2. \A i \in k + 1 .. m : \A x \in DOMAIN L : ~KeyEqual(L[x], R[i])
  BY <1>1, JoinSkips
<1>3. \A i \in 1 .. m : i \in 1 .. k \/ i \in k + 1 .. m
  OBVIOUS
<1>4. \A i \in 1 .. k : i \in 1 .. m
  OBVIOUS
<1> QED BY <1>2, <1>3, <1>4 DEF PairsTo

LEMMA JoinStep ==
  ASSUME NEW L \in Seq(Row), NEW R \in Seq(Row), NEW t, KeyTable(t, L, DOMAIN L),
         NEW k \in Nat, NEW n \in k + 1 .. Len(R),
         \A i \in k + 1 .. n - 1 : Matches(t, R[i]) = <<>>,
         NEW s \in Seq(Row \X Row), Lists(s, PairsTo(L, R, k), PairOf(L, R))
  PROVE  LET w == PairsOf(Matches(t, R[n]), R[n])
         IN  w \in Seq(Row \X Row) /\ Lists(s \o w, PairsTo(L, R, n), PairOf(L, R))
<1>1. n \in DOMAIN R /\ R[n] \in Row /\ n - 1 \in Nat /\ k <= n - 1 /\ n - 1 <= Len(R)
  BY SMT
<1>2. PairsTo(L, R, n - 1) = PairsTo(L, R, k)
  BY <1>1, JoinGoesOn
<1>3. PICK M : M = {x \in DOMAIN L : KeyEqual(L[x], R[n])}
  OBVIOUS
<1>4. PICK q \in Seq(Row) : q = Matches(t, R[n]) /\ Lists(q, M, L)
  BY <1>1, <1>3, MatchesAre
<1>5. Lists(PairsOf(q, R[n]), M \X {n}, PairOf(L, R)) /\ PairsOf(q, R[n]) \in Seq(Row \X Row)
  BY <1>1, <1>3, <1>4, PairsListed, PairsTyped
<1>6. 1 .. n = 1 .. n - 1 \cup {n} /\ n \notin 1 .. n - 1
  OBVIOUS
<1>7. PairsTo(L, R, n) = PairsTo(L, R, n - 1) \cup (M \X {n})
  BY <1>3, <1>6 DEF PairsTo
<1>8. PairsTo(L, R, n - 1) \cap (M \X {n}) = {}
  BY <1>6 DEF PairsTo
<1>9. Lists(s \o PairsOf(q, R[n]), PairsTo(L, R, k) \cup (M \X {n}), PairOf(L, R))
  BY <1>2, <1>5, <1>8, ListsBoth
<1> QED BY <1>2, <1>4, <1>5, <1>7, <1>9

LEMMA SemiGoesOn ==
  ASSUME NEW L \in Seq(Row), NEW R \in Seq(Row), NEW k \in Nat, NEW m \in Nat, k <= m, m <= Len(R),
         NEW t, NEW U, U = DOMAIN L \ MatchedBy(L, R, k), KeyTable(t, L, U),
         \A i \in k + 1 .. m : Matches(t, R[i]) = <<>>
  PROVE  MatchedBy(L, R, m) = MatchedBy(L, R, k)
<1>1. \A i \in k + 1 .. m : i \in DOMAIN R
  BY SMT
<1>2. \A i \in k + 1 .. m : \A x \in U : ~KeyEqual(L[x], R[i])
  BY <1>1, JoinSkips
<1>3. \A i \in 1 .. m : i \in 1 .. k \/ i \in k + 1 .. m
  OBVIOUS
<1>4. \A i \in 1 .. k : i \in 1 .. m
  OBVIOUS
<1> QED BY <1>2, <1>3, <1>4 DEF MatchedBy

LEMMA SemiStep ==
  ASSUME NEW L \in Seq(Row), NEW R \in Seq(Row), NEW k \in Nat, NEW n \in k + 1 .. Len(R),
         NEW t, KeyTable(t, L, DOMAIN L \ MatchedBy(L, R, k)),
         \A i \in k + 1 .. n - 1 : Matches(t, R[i]) = <<>>,
         NEW s \in Seq(Row), Lists(s, MatchedBy(L, R, k), L)
  PROVE  /\ Matches(t, R[n]) \in Seq(Row) /\ Lists(s \o Matches(t, R[n]), MatchedBy(L, R, n), L)
         /\ KeyTable(Drop(t, R[n]), L, DOMAIN L \ MatchedBy(L, R, n))
<1>1. n \in DOMAIN R /\ R[n] \in Row /\ n - 1 \in Nat /\ k <= n - 1 /\ n - 1 <= Len(R)
  BY SMT
<1>2. MatchedBy(L, R, n - 1) = MatchedBy(L, R, k)
  BY <1>1, SemiGoesOn
<1>3. PICK U \in SUBSET DOMAIN L : U = DOMAIN L \ MatchedBy(L, R, k)
  OBVIOUS
<1>4. PICK M : M = {x \in U : KeyEqual(L[x], R[n])}
  OBVIOUS
<1>5. PICK q \in Seq(Row) : q = Matches(t, R[n]) /\ Lists(q, M, L)
  BY <1>1, <1>3, <1>4, MatchesAre
<1>6. 1 .. n = 1 .. n - 1 \cup {n}
  OBVIOUS
<1>7. MatchedBy(L, R, n) = MatchedBy(L, R, n - 1) \cup M
  BY <1>2, <1>3, <1>4, <1>6 DEF MatchedBy
<1>8. MatchedBy(L, R, k) \cap M = {}
  BY <1>3, <1>4
<1>9. Lists(s \o q, MatchedBy(L, R, k) \cup M, L)
  BY <1>5, <1>8, ListsBoth
<1>10. KeyTable(Drop(t, R[n]), L, {x \in U : ~KeyEqual(L[x], R[n])})
  BY <1>1, <1>3, DropLeaves
<1>11. {x \in U : ~KeyEqual(L[x], R[n])} = DOMAIN L \ MatchedBy(L, R, n)
  <2>1. \A x \in DOMAIN L : x \in U <=> x \notin MatchedBy(L, R, n - 1)
    BY <1>2, <1>3
  <2> QED BY <1>3, <1>4, <1>7, <2>1
<1> QED BY <1>2, <1>5, <1>7, <1>9, <1>10, <1>11

-----------------------------------------------------------------------------
(* The joins, between the rows they return.                                 *)

JoinKinds == {"hashJoin", "hashSemi", "antiJoin", "nlJoin", "nlSemi"}

\* What waits in the queue completes what has been returned
JoinRead ==
  /\ read \in Nat /\ read <= Len(Right) /\ op.queue \in Seq(Row) /\ out \in Seq(Row \X Row)
  /\ KeyTable(op.table, Left, DOMAIN Left)
  /\ op.queue = <<>> => Lists(out, PairsTo(Left, Right, read), PairOf(Left, Right))
  /\ op.queue # <<>> =>
       /\ op.last \in Row
       /\ Lists(out \o PairsOf(op.queue, op.last), PairsTo(Left, Right, read), PairOf(Left, Right))
  /\ pc = "end" => op.queue = <<>> /\ read = Len(Right)

\* The table has the rows without a match so far
SemiRead ==
  /\ read \in Nat /\ read <= Len(Right) /\ op.queue \in Seq(Row) /\ out \in Seq(Row)
  /\ KeyTable(op.table, Left, DOMAIN Left \ MatchedBy(Left, Right, read))
  /\ Lists(out \o op.queue, MatchedBy(Left, Right, read), Left)
  /\ pc = "end" => op.queue = <<>> /\ read = Len(Right)

NotInRead ==
  /\ op.rows \in Seq(Row) /\ Lists(op.rows, NotIn(Left, Right), Left)
  /\ op.pos \in Nat /\ op.pos <= Len(op.rows) /\ Copied(out, op.rows, 0, op.pos)
  /\ pc = "end" => op.pos = Len(op.rows)

\* The pairs before and at h and k in the order of the loops
LoopDone(L, R, h, k) ==
  {p \in (DOMAIN L) \X (DOMAIN R) : /\ KeyLess(L[p[1]], R[p[2]])
                                    /\ p[1] < h \/ (p[1] = h /\ p[2] <= k)}
Less(L, R) == {p \in (DOMAIN L) \X (DOMAIN R) : KeyLess(L[p[1]], R[p[2]])}
Here == IF op.leftRow = <<>> THEN read + 1 ELSE read
LoopRead ==
  /\ op.rows = Right /\ out \in Seq(Row \X Row)
  /\ pc = "reading" =>
       /\ read \in Nat /\ op.pos \in Nat
       /\ \/ op.leftRow = <<>> /\ read = 0
          \/ read \in DOMAIN Left /\ op.leftRow = <<Left[read]>>
       /\ Lists(out, LoopDone(Left, Right, Here, op.pos), PairOf(Left, Right))
  /\ pc = "end" => Lists(out, Less(Left, Right), PairOf(Left, Right))

LoopSemiRead ==
  /\ op.rows = Right /\ out \in Seq(Row) /\ read \in Nat /\ op.pos \in Nat
  /\ \A l \in ToSet(out) : l \in ToSet(Left) /\ \E r \in ToSet(Right) : KeyLess(l, r)

JoinsRead ==
  /\ plan.kind = "hashJoin" => JoinRead
  /\ plan.kind = "hashSemi" => read \in Nat /\ (pass = 1 => SemiRead)
  /\ (plan.kind = "antiJoin" /\ pass = 1) => NotInRead
  /\ (plan.kind = "nlJoin" /\ pass = 1) => LoopRead
  /\ (plan.kind = "nlSemi" /\ pass = 1) => LoopSemiRead

JoinInv ==
  /\ plan \in Plan /\ pass \in Nat
  /\ pc \in {"reading", "end"} => pass # 0
  /\ (plan.kind \in JoinKinds /\ plan.use = "again") =>
       /\ IsOp(op) /\ (pc = "new" => op = NewOp)
       /\ pc \in {"reading", "end"} => JoinsRead

LEMMA JoinChildren ==
  ASSUME plan \in Plan
  PROVE  /\ Left \in Seq(Row) /\ Right \in Seq(Row) /\ Len(Left) \in Nat /\ Len(Right) \in Nat
         /\ DOMAIN Left = 1 .. Len(Left) /\ DOMAIN Right = 1 .. Len(Right)
         /\ plan.kind \in {"hashJoin", "hashSemi"} => Input = Right
         /\ plan.kind \in {"nlJoin", "nlSemi", "antiJoin"} => Input = Left
<1>1. Left \in Seq(Row) /\ Right \in Seq(Row)
  BY ChildTyped DEF Left, Right
<1>2. plan.kind \in {"hashJoin", "hashSemi"} => Input = Right
  BY DEF Input
<1>3. plan.kind \in {"nlJoin", "nlSemi", "antiJoin"} => Input = Left
  BY DEF Input
<1> QED BY <1>1, <1>2, <1>3

LEMMA JoinInit == Init => JoinInv
<1>1. IsOp(NewOp)
  BY DEF IsOp, NewOp
<1> QED BY <1>1 DEF Init, JoinInv

LEMMA NewOpIs == /\ IsOp(NewOp) /\ NewOp.table = NewTable /\ NewOp.queue = <<>> /\ NewOp.leftRow = <<>>
                 /\ NewOp.pos = 0
BY DEF IsOp, NewOp

LEMMA OpTable ==
  ASSUME NEW o, IsOp(o), NEW x
  PROVE  LET p == [o EXCEPT !.table = x]
         IN /\ IsOp(p) /\ p.table = x /\ p.queue = o.queue /\ p.last = o.last /\ p.leftRow = o.leftRow
            /\ p.rows = o.rows /\ p.pos = o.pos
BY DEF IsOp

LEMMA OpQueue ==
  ASSUME NEW o, IsOp(o), NEW x
  PROVE  LET p == [o EXCEPT !.queue = x]
         IN /\ IsOp(p) /\ p.table = o.table /\ p.queue = x /\ p.last = o.last /\ p.leftRow = o.leftRow
            /\ p.rows = o.rows /\ p.pos = o.pos
BY DEF IsOp

LEMMA OpLast ==
  ASSUME NEW o, IsOp(o), NEW x
  PROVE  LET p == [o EXCEPT !.last = x]
         IN /\ IsOp(p) /\ p.table = o.table /\ p.queue = o.queue /\ p.last = x /\ p.leftRow = o.leftRow
            /\ p.rows = o.rows /\ p.pos = o.pos
BY DEF IsOp

\* The parts of a join that open prepares
LEMMA JoinBuilt ==
  ASSUME NEW o, o = NewOp, NEW L, NEW R, NEW p \in Built(o, L, R)
  PROVE  /\ plan.kind \in JoinKinds => IsOp(p)
         /\ plan.kind \in {"hashJoin", "hashSemi"} =>
              p.table = BuildAll(NewTable, KeyHash, L) /\ p.queue = <<>>
         /\ plan.kind \in {"nlJoin", "nlSemi"} => p.rows = R /\ p.pos = 0 /\ p.leftRow = <<>>
         /\ plan.kind = "antiJoin" =>
              /\ p.pos = 0
              /\ p.rows = Rows(IF \E r \in ToSet(R) : r.k = Null THEN NewTable ELSE Unmatched(NewTable, L, R))
<1>1. IsOp(o) /\ o.table = NewTable /\ o.queue = <<>> /\ o.leftRow = <<>> /\ o.pos = 0
  BY NewOpIs
<1>2. CASE plan.kind \in {"hashJoin", "hashSemi"}
  <2>1. Built(o, L, R) = {BuiltJoin(o, L)}
    BY <1>2 DEF Built
  <2>2. p = [o EXCEPT !.table = BuildAll(o.table, KeyHash, L)]
    BY <2>1 DEF BuiltJoin, Clear
  <2> QED BY <1>1, <1>2, <2>2, OpTable
<1>3. CASE plan.kind \in {"nlJoin", "nlSemi"}
  <2>1. Built(o, L, R) = {CachedRight(o, R)}
    BY <1>3 DEF Built
  <2>2. p = [o EXCEPT !.rows = R, !.pos = 0]
    BY <2>1 DEF CachedRight
  <2>3. IsOp(p) /\ p.rows = R /\ p.pos = 0
    BY <1>1, <2>2, OpRows DEF IsOp
  <2>4. p.leftRow = <<>>
    <3>1. PICK q : q = [o EXCEPT !.rows = R]
      OBVIOUS
    <3>2. q.leftRow = <<>> /\ IsOp(q)
      BY <1>1, <3>1 DEF IsOp
    <3>3. p = [q EXCEPT !.pos = 0]
      BY <2>2, <3>1
    <3> QED BY <3>2, <3>3 DEF IsOp
  <2> QED BY <1>3, <2>3, <2>4
<1>4. CASE plan.kind = "antiJoin"
  <2>1. Built(o, L, R) = {BuiltAntiJoin(o, L, R)}
    BY <1>4 DEF Built
  <2>2. PICK t : t = IF \E r \in ToSet(R) : r.k = Null THEN NewTable ELSE Unmatched(NewTable, L, R)
    OBVIOUS
  <2>3. p = [o EXCEPT !.table = t, !.rows = Rows(t), !.pos = 0]
    BY <1>1, <2>1, <2>2 DEF BuiltAntiJoin, Clear
  <2>4. PICK q : q = [o EXCEPT !.table = t]
    OBVIOUS
  <2>5. IsOp(q)
    BY <1>1, <2>4, OpTable
  <2>6. p = [q EXCEPT !.rows = Rows(t), !.pos = 0]
    BY <2>3, <2>4
  <2>7. IsOp(p) /\ p.rows = Rows(t) /\ p.pos = 0
    BY <2>5, <2>6, OpRows DEF IsOp
  <2> QED BY <1>4, <2>2, <2>7
<1> QED BY <1>2, <1>3, <1>4 DEF JoinKinds

\* What open prepares of NOT IN is its result
LEMMA NotInBuilt ==
  ASSUME NEW L \in Seq(Row), NEW R \in Seq(Row),
         NEW s, s = Rows(IF \E r \in ToSet(R) : r.k = Null THEN NewTable ELSE Unmatched(NewTable, L, R))
  PROVE  s \in Seq(Row) /\ Lists(s, NotIn(L, R), L)
<1>1. CASE \E r \in ToSet(R) : r.k = Null
  <2>1. NotIn(L, R) = {}
    BY <1>1 DEF NotIn
  <2>2. KeyTable(NewTable, L, NotIn(L, R))
    BY <2>1, NewKeyTable
  <2>3. NotIn(L, R) \in SUBSET DOMAIN L /\ s = Rows(NewTable)
    BY <1>1, <2>1
  <2> QED BY <2>2, <2>3, RowsListed
<1>2. CASE ~\E r \in ToSet(R) : r.k = Null
  <2>1. PICK t : t = Unmatched(NewTable, L, R)
    OBVIOUS
  <2>2. KeyTable(t, L, NotIn(L, R))
    BY <1>2, <2>1, UnmatchedAre
  <2>3. NotIn(L, R) \in SUBSET DOMAIN L /\ s = Rows(t)
    BY <1>2, <2>1 DEF NotIn
  <2> QED BY <2>2, <2>3, RowsListed
<1> QED BY <1>1, <1>2

LEMMA JoinOpen ==
  ASSUME JoinInv, Open
  PROVE  JoinInv'
<1>1. /\ plan' = plan /\ outer' = outer /\ pass' = pass + 1 /\ read' = 0 /\ out' = <<>>
      /\ pc' = "reading" /\ op' \in Built(op, Left, Right)
  BY DEF Open
<1>2. pass' \in Nat /\ pass' # 0 /\ plan \in Plan
  BY <1>1 DEF JoinInv
<1>3. CASE plan.kind \in JoinKinds /\ plan.use = "again"
  <2>1. op = NewOp
    BY <1>3 DEF Open, JoinInv
  <2>2. /\ Left \in Seq(Row) /\ Right \in Seq(Row) /\ Len(Right) \in Nat
        /\ Left' = Left /\ Right' = Right
    BY <1>1, <1>2, JoinChildren, ChildrenKept
  <2>3. IsOp(op')
    BY <1>1, <1>3, <2>1, JoinBuilt
  <2>4. /\ PairsTo(Left, Right, 0) = {} /\ MatchedBy(Left, Right, 0) = {}
        /\ <<>> \in Seq(Row \X Row) /\ <<>> \in Seq(Row)
    BY DEF PairsTo, MatchedBy
  <2>5. plan.kind = "hashJoin" => JoinRead'
    <3>1. SUFFICES ASSUME plan.kind = "hashJoin" PROVE JoinRead'
      OBVIOUS
    <3>2. op'.table = BuildAll(NewTable, KeyHash, Left) /\ op'.queue = <<>>
      BY <1>1, <2>1, <3>1, JoinBuilt
    <3>3. KeyTable(op'.table, Left, DOMAIN Left)
      BY <2>2, <3>2, BuiltKeyTable
    <3>4. Lists(<<>>, PairsTo(Left, Right, 0), PairOf(Left, Right))
      BY <2>4, ListsNone
    <3>5. KeyTable(op.table, Left, DOMAIN Left)'
      BY <2>2, <3>3
    <3>6. Lists(out, PairsTo(Left, Right, read), PairOf(Left, Right))'
      BY <1>1, <2>2, <3>4
    <3> QED BY <1>1, <2>2, <2>4, <3>2, <3>5, <3>6 DEF JoinRead
  <2>6. plan.kind = "hashSemi" => SemiRead'
    <3>1. SUFFICES ASSUME plan.kind = "hashSemi" PROVE SemiRead'
      OBVIOUS
    <3>2. op'.table = BuildAll(NewTable, KeyHash, Left) /\ op'.queue = <<>>
      BY <1>1, <2>1, <3>1, JoinBuilt
    <3>3. KeyTable(op'.table, Left, DOMAIN Left \ MatchedBy(Left, Right, 0))
      <4>1. DOMAIN Left \ MatchedBy(Left, Right, 0) = DOMAIN Left
        BY <2>4
      <4> QED BY <2>2, <3>2, <4>1, BuiltKeyTable
    <3>4. Lists(<<>>, MatchedBy(Left, Right, 0), Left)
      BY <2>4, ListsNone
    <3>5. KeyTable(op.table, Left, DOMAIN Left \ MatchedBy(Left, Right, read))'
      BY <1>1, <2>2, <3>3
    <3>6. <<>> \o <<>> = <<>>
      OBVIOUS
    <3>7. Lists(out \o op.queue, MatchedBy(Left, Right, read), Left)'
      BY <1>1, <2>2, <3>2, <3>4, <3>6
    <3> QED BY <1>1, <2>2, <2>4, <3>2, <3>5, <3>7 DEF SemiRead
  <2>7. plan.kind = "antiJoin" => NotInRead'
    <3>1. SUFFICES ASSUME plan.kind = "antiJoin" PROVE NotInRead'
      OBVIOUS
    <3>2. /\ op'.pos = 0
          /\ op'.rows = Rows(IF \E r \in ToSet(Right) : r.k = Null THEN NewTable
                             ELSE Unmatched(NewTable, Left, Right))
      BY <1>1, <2>1, <3>1, JoinBuilt
    <3>3. op'.rows \in Seq(Row) /\ Lists(op'.rows, NotIn(Left, Right), Left)
      BY <2>2, <3>2, NotInBuilt
    <3>4. Lists(op.rows, NotIn(Left, Right), Left)'
      BY <2>2, <3>3
    <3>5. Copied(<<>>, op'.rows, 0, 0) /\ Len(op'.rows) \in Nat
      BY <3>3, CopiedNone
    <3> QED BY <1>1, <3>2, <3>3, <3>4, <3>5 DEF NotInRead
  <2>8. plan.kind \in {"nlJoin", "nlSemi"} => op'.rows = Right /\ op'.pos = 0 /\ op'.leftRow = <<>>
    BY <1>1, <2>1, JoinBuilt
  <2>9. plan.kind = "nlJoin" => LoopRead'
    <3>1. SUFFICES ASSUME plan.kind = "nlJoin" PROVE LoopRead'
      OBVIOUS
    <3>2. LoopDone(Left, Right, 1, 0) = {}
      BY <2>2 DEF LoopDone
    <3>3. Lists(<<>>, LoopDone(Left, Right, 1, 0), PairOf(Left, Right))
      BY <3>2, ListsNone
    <3>4. Here' = 1
      BY <1>1, <2>8, <3>1 DEF Here
    <3>5. Lists(out, LoopDone(Left, Right, Here, op.pos), PairOf(Left, Right))'
      BY <1>1, <2>2, <2>8, <3>1, <3>3, <3>4
    <3> QED BY <1>1, <2>2, <2>4, <2>8, <3>1, <3>5 DEF LoopRead
  <2>10. plan.kind = "nlSemi" => LoopSemiRead'
    <3>1. ToSet(<<>>) = {}
      BY DEF ToSet
    <3> QED BY <1>1, <2>2, <2>4, <2>8, <3>1 DEF LoopSemiRead
  <2> QED BY <1>1, <1>2, <2>3, <2>5, <2>6, <2>7, <2>9, <2>10 DEF JoinInv, JoinsRead
<1>4. CASE ~(plan.kind \in JoinKinds /\ plan.use = "again")
  BY <1>1, <1>2, <1>4 DEF JoinInv
<1> QED BY <1>3, <1>4

LEMMA JoinReset ==
  ASSUME JoinInv, Reset
  PROVE  JoinInv'
<1>1. /\ plan' = plan /\ outer' = outer /\ pass' = pass + 1 /\ read' = 0 /\ out' = <<>>
      /\ pc = "end" /\ pc' = "reading" /\ op' = WasReset(op)
  BY DEF Reset
<1>2. plan \in Plan /\ pass \in Nat /\ pass # 0
  BY <1>1 DEF JoinInv
<1>3. pass' \in Nat /\ pass' # 0 /\ pass' # 1
  BY <1>1, <1>2
<1>4. CASE plan.kind \in JoinKinds /\ plan.use = "again"
  <2>1. IsOp(op) /\ (plan.kind = "hashJoin" => JoinRead)
    BY <1>1, <1>4 DEF JoinInv, JoinsRead
  <2>2. CASE plan.kind \in {"hashJoin", "hashSemi"}
    <3>1. op' = [op EXCEPT !.queue = <<>>, !.last = <<>>]
      BY <1>1, <2>2 DEF WasReset
    <3>2. PICK q : q = [op EXCEPT !.queue = <<>>]
      OBVIOUS
    <3>3. IsOp(q) /\ q.table = op.table /\ q.queue = <<>>
      BY <2>1, <3>2, OpQueue
    <3>4. op' = [q EXCEPT !.last = <<>>]
      BY <3>1, <3>2
    <3>5. IsOp(op') /\ op'.table = op.table /\ op'.queue = <<>>
      <4>1. PICK p : p = [q EXCEPT !.last = <<>>]
        OBVIOUS
      <4>2. IsOp(p) /\ p.table = q.table /\ p.queue = q.queue
        BY <3>3, <4>1 DEF IsOp
      <4> QED BY <3>3, <3>4, <4>1, <4>2
    <3>6. plan.kind = "hashJoin" => JoinRead'
      <4>1. SUFFICES ASSUME plan.kind = "hashJoin" PROVE JoinRead'
        OBVIOUS
      <4>2. /\ Left' = Left /\ Right' = Right /\ Len(Right) \in Nat
            /\ PairsTo(Left, Right, 0) = {} /\ <<>> \in Seq(Row \X Row) /\ <<>> \in Seq(Row)
        BY <1>1, <1>2, JoinChildren, ChildrenKept DEF PairsTo
      <4>3. KeyTable(op.table, Left, DOMAIN Left)'
        BY <2>1, <3>5, <4>1, <4>2 DEF JoinRead
      <4>4. Lists(<<>>, PairsTo(Left, Right, 0), PairOf(Left, Right))
        BY <4>2, ListsNone
      <4>5. Lists(out, PairsTo(Left, Right, read), PairOf(Left, Right))'
        BY <1>1, <4>2, <4>4
      <4> QED BY <1>1, <3>5, <4>2, <4>3, <4>5 DEF JoinRead
    <3> QED BY <1>1, <1>2, <1>3, <2>2, <3>5, <3>6 DEF JoinInv, JoinsRead
  <2>3. CASE plan.kind = "antiJoin"
    <3>1. op' = op
      BY <1>1, <2>3 DEF WasReset
    <3> QED BY <1>1, <1>2, <1>3, <2>1, <2>3, <3>1 DEF JoinInv, JoinsRead
  <2>4. CASE plan.kind \in {"nlJoin", "nlSemi"}
    <3>1. op' = [op EXCEPT !.pos = 0]
      BY <1>1, <2>4 DEF WasReset
    <3>2. IsOp(op')
      BY <2>1, <3>1 DEF IsOp
    <3> QED BY <1>1, <1>2, <1>3, <2>4, <3>2 DEF JoinInv, JoinsRead
  <2> QED BY <1>4, <2>2, <2>3, <2>4 DEF JoinKinds
<1>5. CASE ~(plan.kind \in JoinKinds /\ plan.use = "again")
  BY <1>1, <1>2, <1>3, <1>5 DEF JoinInv
<1> QED BY <1>4, <1>5

LEMMA JoinLeft ==
  ASSUME JoinInv, Reopen \/ Close \/ NestedLoopBlank
  PROVE  JoinInv'
<1>1. plan' = plan /\ pass' = pass /\ pc' \in {"reopened", "closed", "crashed"}
  BY DEF Reopen, Close, NestedLoopBlank
<1>2. ASSUME plan.use = "again" PROVE op' = op
  BY <1>2 DEF Reopen, Close, NestedLoopBlank
<1> QED BY <1>1, <1>2 DEF JoinInv

\* The first row of the queue is returned with r
LEMMA JoinReturns ==
  ASSUME NEW s \in Seq(Row \X Row), NEW q \in Seq(Row), q # <<>>, NEW r \in Row, NEW S, NEW g,
         Lists(s \o PairsOf(q, r), S, g)
  PROVE  /\ Append(s, <<Head(q), r>>) \in Seq(Row \X Row) /\ Tail(q) \in Seq(Row)
         /\ Tail(q) = <<>> => Lists(Append(s, <<Head(q), r>>), S, g)
         /\ Tail(q) # <<>> => Lists(Append(s, <<Head(q), r>>) \o PairsOf(Tail(q), r), S, g)
<1>1. PICK w \in Seq(Row \X Row) : w = PairsOf(q, r)
  BY PairsTyped
<1>2. /\ w # <<>> /\ Head(w) = <<Head(q), r>> /\ PairsOf(Tail(q), r) = Tail(w)
  BY <1>1, PairsTyped
<1>3. Head(q) \in Row /\ Tail(q) \in Seq(Row) /\ <<Head(q), r>> \in Row \X Row
  OBVIOUS
<1>4. PICK a : a = Append(s, <<Head(q), r>>)
  OBVIOUS
<1>5. a \in Seq(Row \X Row) /\ a \o Tail(w) = s \o w
  <2>1. PICK V : V = Row \X Row
    OBVIOUS
  <2>2. s \in Seq(V) /\ w \in Seq(V) /\ <<Head(q), r>> \in V
    BY <1>1, <1>3, <2>1
  <2>3. Append(s, Head(w)) \o Tail(w) = s \o w
    BY <1>2, <2>2, MoveHead
  <2>4. a \in Seq(V)
    BY <1>4, <2>2
  <2> QED BY <1>2, <1>4, <2>1, <2>3, <2>4
<1>6. ASSUME Tail(q) = <<>> PROVE Lists(a, S, g)
  <2>1. PairsOf(Tail(q), r) = <<>>
    BY <1>3, <1>6, PairsTyped
  <2>2. a \o <<>> = a
    OBVIOUS
  <2> QED BY <1>1, <1>2, <1>5, <2>1, <2>2
<1> QED BY <1>1, <1>2, <1>3, <1>4, <1>5, <1>6

JoinedRow(l, r) == IF plan.kind = "hashSemi" THEN l ELSE <<l, r>>

\* The three answers of a hash join
FromQueue ==
  /\ op.queue # <<>> /\ pc' = pc /\ read' = read
  /\ out' = Append(out, JoinedRow(Head(op.queue), op.last))
  /\ op' = [op EXCEPT !.queue = Tail(op.queue)]
FromTable(n) ==
  /\ n \in read + 1 .. Len(Right) /\ op.queue = <<>> /\ pc' = pc /\ read' = n
  /\ Matches(op.table, Right[n]) # <<>>
  /\ \A i \in read + 1 .. n - 1 : Matches(op.table, Right[i]) = <<>>
  /\ out' = Append(out, JoinedRow(Head(Matches(op.table, Right[n])), Right[n]))
  /\ op' = [op EXCEPT !.queue = Tail(Matches(op.table, Right[n])), !.last = Right[n],
                      !.table = IF plan.kind = "hashSemi" THEN Drop(op.table, Right[n])
                                ELSE op.table]
AllJoined ==
  /\ op.queue = <<>> /\ pc' = "end" /\ read' = Len(Right) /\ op' = op /\ out' = out
  /\ \A i \in read + 1 .. Len(Right) : Matches(op.table, Right[i]) = <<>>

LEMMA HashJoinIs ==
  ASSUME plan \in Plan, read \in Nat, HashJoin
  PROVE  /\ plan.kind \in {"hashJoin", "hashSemi"} /\ pc = "reading"
         /\ plan' = plan /\ outer' = outer /\ pass' = pass
         /\ FromQueue \/ (\E n : FromTable(n)) \/ AllJoined
<1>1. plan.kind \in {"hashJoin", "hashSemi"} /\ pc = "reading"
  BY DEF HashJoin, Asked
<1>2. Input = Right /\ Right \in Seq(Row)
  BY <1>1, JoinChildren
<1>3. PICK I : I = {i \in read + 1 .. Len(Right) : Matches(op.table, Right[i]) # <<>>}
  OBVIOUS
<1>4. PICK n : n = IF I # {} THEN Min(I) ELSE 0
  OBVIOUS
<1>5. \/ n \in I /\ n \in read + 1 .. Len(Right) /\ \A i \in read + 1 .. n - 1 : i \notin I
      \/ n = 0 /\ \A i \in read + 1 .. Len(Right) : i \notin I
  <2>1. I \subseteq read + 1 .. Len(Right)
    BY <1>3
  <2> QED BY <1>2, <1>4, <2>1, SelectIs
<1>6. SelectInSubSeq(Right, read + 1, Len(Right), LAMBDA r : Matches(op.table, r) # <<>>) = n
  BY <1>3, <1>4 DEF SelectInSubSeq
<1>7. PICK found : found = Matches(op.table, Right[n])
  OBVIOUS
<1>8. CASE op.queue # <<>>
  <2>1. Return(JoinedRow(Head(op.queue), op.last), read, [op EXCEPT !.queue = Tail(op.queue)])
    BY <1>2, <1>8 DEF HashJoin, JoinedRow
  <2> QED BY <1>1, <1>8, <2>1 DEF Return, FromQueue
<1>9. CASE op.queue = <<>> /\ n # 0
  <2>1. n > 0 /\ n \in read + 1 .. Len(Right) /\ \A i \in read + 1 .. n - 1 : i \notin I
    BY <1>2, <1>5, <1>9
  <2>2. Return(JoinedRow(Head(found), Right[n]), n,
               [op EXCEPT !.queue = Tail(found), !.last = Right[n],
                          !.table = IF plan.kind = "hashSemi" THEN Drop(op.table, Right[n]) ELSE op.table])
    BY <1>2, <1>6, <1>7, <1>9, <2>1 DEF HashJoin, JoinedRow
  <2>3. found # <<>>
    BY <1>3, <1>5, <1>7, <1>9
  <2>4. \A i \in read + 1 .. n - 1 : i \in read + 1 .. Len(Right)
    <3>1. Len(Right) \in Nat
      BY <1>2
    <3> QED BY <2>1, <3>1
  <2>5. \A i \in read + 1 .. n - 1 : Matches(op.table, Right[i]) = <<>>
    BY <1>3, <2>1, <2>4
  <2>6. FromTable(n)
    BY <1>7, <1>9, <2>1, <2>2, <2>3, <2>5 DEF Return, FromTable
  <2> QED BY <1>1, <2>2, <2>6 DEF Return
<1>10. CASE op.queue = <<>> /\ n = 0
  <2>1. NoMoreRows(Len(Right), op)
    BY <1>2, <1>6, <1>10 DEF HashJoin
  <2>2. \A i \in read + 1 .. Len(Right) : Matches(op.table, Right[i]) = <<>>
    <3>1. \A i \in read + 1 .. Len(Right) : i \notin I
      BY <1>5, <1>10
    <3> QED BY <1>3, <3>1
  <2> QED BY <1>1, <1>10, <2>1, <2>2 DEF NoMoreRows, AllJoined
<1> QED BY <1>8, <1>9, <1>10

LEMMA OpMatched ==
  ASSUME NEW o, IsOp(o), NEW q, NEW l, NEW t, NEW p, p = [o EXCEPT !.queue = q, !.last = l, !.table = t]
  PROVE  IsOp(p) /\ p.table = t /\ p.queue = q /\ p.last = l
<1>1. PICK a : a = [o EXCEPT !.queue = q]
  OBVIOUS
<1>2. IsOp(a) /\ a.queue = q
  BY <1>1, OpQueue
<1>3. PICK b : b = [a EXCEPT !.last = l]
  OBVIOUS
<1>4. IsOp(b) /\ b.queue = q /\ b.last = l
  BY <1>2, <1>3, OpLast
<1>5. p = [b EXCEPT !.table = t]
  BY <1>1, <1>3
<1>6. IsOp(p)
  BY <1>4, <1>5 DEF IsOp
<1>7. p.table = t /\ p.queue = b.queue /\ p.last = b.last
  BY <1>4, <1>5 DEF IsOp
<1> QED BY <1>4, <1>6, <1>7

LEMMA JoinPairs ==
  ASSUME plan \in Plan, IsOp(op), JoinRead, plan.kind = "hashJoin", HashJoin
  PROVE  IsOp(op') /\ JoinRead'
<1>1. /\ Left \in Seq(Row) /\ Right \in Seq(Row) /\ Len(Right) \in Nat /\ DOMAIN Right = 1 .. Len(Right)
  BY JoinChildren
<1>2. /\ read \in Nat /\ read <= Len(Right) /\ op.queue \in Seq(Row) /\ out \in Seq(Row \X Row)
      /\ KeyTable(op.table, Left, DOMAIN Left)
  BY DEF JoinRead
<1>3. pc = "reading" /\ plan' = plan /\ outer' = outer /\ Left' = Left /\ Right' = Right
  BY <1>2, HashJoinIs, ChildrenKept
<1>4. CASE FromQueue
  <2>0. op.queue # <<>>
    BY <1>4 DEF FromQueue
  <2>1. /\ pc' = pc /\ read' = read /\ out' = Append(out, <<Head(op.queue), op.last>>)
        /\ op' = [op EXCEPT !.queue = Tail(op.queue)]
    BY <1>4 DEF FromQueue, JoinedRow
  <2>2. IsOp(op') /\ op'.queue = Tail(op.queue) /\ op'.table = op.table /\ op'.last = op.last
    <3>1. PICK w : w = Tail(op.queue)
      OBVIOUS
    <3>2. op' = [op EXCEPT !.queue = w]
      BY <2>1, <3>1
    <3>3. IsOp(op') /\ op'.queue = w /\ op'.table = op.table /\ op'.last = op.last
      BY <3>2 DEF IsOp
    <3> QED BY <3>1, <3>3
  <2>3. PICK q \in Seq(Row), r \in Row : q = op.queue /\ r = op.last
    BY <1>2, <2>0 DEF JoinRead
  <2>4. Lists(out \o PairsOf(q, r), PairsTo(Left, Right, read), PairOf(Left, Right))
    BY <2>0, <2>3 DEF JoinRead
  <2>5. /\ Append(out, <<Head(q), r>>) \in Seq(Row \X Row) /\ Tail(q) \in Seq(Row)
        /\ Tail(q) = <<>> => Lists(Append(out, <<Head(q), r>>), PairsTo(Left, Right, read), PairOf(Left, Right))
        /\ Tail(q) # <<>> => Lists(Append(out, <<Head(q), r>>) \o PairsOf(Tail(q), r),
                                   PairsTo(Left, Right, read), PairOf(Left, Right))
    BY <1>2, <2>0, <2>3, <2>4, JoinReturns
  <2>6. out' = Append(out, <<Head(q), r>>) /\ op'.queue = Tail(q) /\ op'.last = r
    BY <2>1, <2>2, <2>3
  <2>7. KeyTable(op.table, Left, DOMAIN Left)'
    BY <1>2, <1>3, <2>2
  <2>8. op'.queue = <<>> => Lists(out, PairsTo(Left, Right, read), PairOf(Left, Right))'
    BY <1>3, <2>1, <2>5, <2>6
  <2>9. op'.queue # <<>> => Lists(out \o PairsOf(op.queue, op.last), PairsTo(Left, Right, read), PairOf(Left, Right))'
    BY <1>3, <2>1, <2>5, <2>6
  <2> QED BY <1>2, <1>3, <2>1, <2>2, <2>3, <2>5, <2>6, <2>7, <2>8, <2>9 DEF JoinRead
<1>5. ASSUME NEW n, FromTable(n)
      PROVE  IsOp(op') /\ JoinRead'
  <2>0. /\ n \in read + 1 .. Len(Right) /\ op.queue = <<>> /\ pc' = pc /\ read' = n
        /\ Matches(op.table, Right[n]) # <<>>
        /\ \A i \in read + 1 .. n - 1 : Matches(op.table, Right[i]) = <<>>
    BY <1>5 DEF FromTable
  <2>1. PICK q : q = Matches(op.table, Right[n])
    OBVIOUS
  <2>2. n \in Nat /\ n <= Len(Right) /\ Right[n] \in Row
    BY <1>1, <1>2, <2>0
  <2>3. PICK r \in Row : r = Right[n]
    BY <2>2
  <2>4. op' = [op EXCEPT !.queue = Tail(q), !.last = r, !.table = op.table]
    BY <1>5, <2>1, <2>3 DEF FromTable
  <2>5. IsOp(op') /\ op'.queue = Tail(q) /\ op'.table = op.table /\ op'.last = r
    BY <2>4, OpMatched DEF IsOp
  <2>6. q \in Seq(Row) /\ q # <<>>
    BY <1>1, <1>2, <2>0, <2>1, <2>2, MatchesAre
  <2>7. Lists(out, PairsTo(Left, Right, read), PairOf(Left, Right))
    BY <2>0 DEF JoinRead
  <2>8. Lists(out \o PairsOf(q, r), PairsTo(Left, Right, n), PairOf(Left, Right))
    BY <1>1, <1>2, <2>0, <2>1, <2>3, <2>7, JoinStep
  <2>9. /\ Append(out, <<Head(q), r>>) \in Seq(Row \X Row) /\ Tail(q) \in Seq(Row)
        /\ Tail(q) = <<>> => Lists(Append(out, <<Head(q), r>>), PairsTo(Left, Right, n), PairOf(Left, Right))
        /\ Tail(q) # <<>> => Lists(Append(out, <<Head(q), r>>) \o PairsOf(Tail(q), r),
                                   PairsTo(Left, Right, n), PairOf(Left, Right))
    BY <1>2, <2>6, <2>8, JoinReturns
  <2>10. out' = Append(out, <<Head(q), r>>)
    BY <1>5, <2>1, <2>3 DEF FromTable, JoinedRow
  <2>11. KeyTable(op.table, Left, DOMAIN Left)'
    BY <1>2, <1>3, <2>5
  <2>12. op'.queue = <<>> => Lists(out, PairsTo(Left, Right, read), PairOf(Left, Right))'
    BY <1>3, <2>0, <2>5, <2>9, <2>10
  <2>13. op'.queue # <<>> => Lists(out \o PairsOf(op.queue, op.last), PairsTo(Left, Right, read), PairOf(Left, Right))'
    BY <1>3, <2>0, <2>5, <2>9, <2>10
  <2> QED BY <1>3, <2>0, <2>2, <2>3, <2>5, <2>9, <2>10, <2>11, <2>12, <2>13 DEF JoinRead
<1>6. ASSUME AllJoined
      PROVE  IsOp(op') /\ JoinRead'
  <2>0. /\ op.queue = <<>> /\ pc' = "end" /\ read' = Len(Right) /\ op' = op /\ out' = out
        /\ \A i \in read + 1 .. Len(Right) : Matches(op.table, Right[i]) = <<>>
    BY <1>6 DEF AllJoined
  <2>1. PairsTo(Left, Right, Len(Right)) = PairsTo(Left, Right, read)
    <3>1. PICK m \in Nat : m = Len(Right)
      BY <1>1
    <3> QED BY <1>1, <1>2, <2>0, <3>1, JoinGoesOn
  <2>2. KeyTable(op.table, Left, DOMAIN Left)'
    BY <1>2, <1>3, <2>0
  <2>3. Lists(out, PairsTo(Left, Right, read), PairOf(Left, Right))'
    BY <1>3, <2>0, <2>1 DEF JoinRead
  <2>4. IsOp(op') /\ op'.queue = <<>> /\ read' \in Nat /\ read' <= Len(Right') /\ read' = Len(Right')
    BY <1>1, <1>3, <2>0
  <2>5. op'.queue \in Seq(Row) /\ out' \in Seq(Row \X Row)
    BY <1>2, <2>0
  <2> QED BY <2>2, <2>3, <2>4, <2>5 DEF JoinRead
<1> QED BY <1>2, <1>4, <1>5, <1>6, HashJoinIs

LEMMA JoinSemi ==
  ASSUME plan \in Plan, IsOp(op), SemiRead, plan.kind = "hashSemi", HashJoin
  PROVE  IsOp(op') /\ SemiRead'
<1>1. /\ Left \in Seq(Row) /\ Right \in Seq(Row) /\ Len(Right) \in Nat /\ DOMAIN Right = 1 .. Len(Right)
  BY JoinChildren
<1>2. /\ read \in Nat /\ read <= Len(Right) /\ op.queue \in Seq(Row) /\ out \in Seq(Row)
      /\ KeyTable(op.table, Left, DOMAIN Left \ MatchedBy(Left, Right, read))
      /\ Lists(out \o op.queue, MatchedBy(Left, Right, read), Left)
  BY DEF SemiRead
<1>3. pc = "reading" /\ plan' = plan /\ outer' = outer /\ Left' = Left /\ Right' = Right
  BY <1>2, HashJoinIs, ChildrenKept
<1>4. CASE FromQueue
  <2>0. op.queue # <<>>
    BY <1>4 DEF FromQueue
  <2>1. /\ pc' = pc /\ read' = read /\ out' = Append(out, Head(op.queue))
        /\ op' = [op EXCEPT !.queue = Tail(op.queue)]
    BY <1>4 DEF FromQueue, JoinedRow
  <2>2. IsOp(op') /\ op'.queue = Tail(op.queue) /\ op'.table = op.table
    <3>1. PICK w : w = Tail(op.queue)
      OBVIOUS
    <3>2. op' = [op EXCEPT !.queue = w]
      BY <2>1, <3>1
    <3>3. IsOp(op') /\ op'.queue = w /\ op'.table = op.table /\ op'.last = op.last
      BY <3>2 DEF IsOp
    <3> QED BY <3>1, <3>3
  <2>3. Head(op.queue) \in Row /\ Tail(op.queue) \in Seq(Row) /\ out' \o op'.queue = out \o op.queue
    <3>1. PICK V, w : V = Row /\ w = op.queue
      OBVIOUS
    <3>2. out \in Seq(V) /\ w \in Seq(V) /\ w # <<>>
      BY <1>2, <2>0, <3>1
    <3>3. Head(w) \in V /\ Tail(w) \in Seq(V) /\ Append(out, Head(w)) \o Tail(w) = out \o w
      BY <3>2, MoveHead
    <3> QED BY <2>1, <2>2, <3>1, <3>3
  <2>4. out' \in Seq(Row)
    BY <1>2, <2>1, <2>3
  <2>5. KeyTable(op.table, Left, DOMAIN Left \ MatchedBy(Left, Right, read))'
    BY <1>2, <1>3, <2>1, <2>2
  <2>6. Lists(out \o op.queue, MatchedBy(Left, Right, read), Left)'
    BY <1>2, <1>3, <2>1, <2>3
  <2> QED BY <1>2, <1>3, <2>1, <2>2, <2>3, <2>4, <2>5, <2>6 DEF SemiRead
<1>5. ASSUME NEW n, FromTable(n)
      PROVE  IsOp(op') /\ SemiRead'
  <2>0. /\ n \in read + 1 .. Len(Right) /\ op.queue = <<>> /\ pc' = pc /\ read' = n
        /\ Matches(op.table, Right[n]) # <<>>
        /\ \A i \in read + 1 .. n - 1 : Matches(op.table, Right[i]) = <<>>
    BY <1>5 DEF FromTable
  <2>1. PICK q : q = Matches(op.table, Right[n])
    OBVIOUS
  <2>2. n \in Nat /\ n <= Len(Right) /\ Right[n] \in Row
    BY <1>1, <1>2, <2>0
  <2>3. PICK t : t = Drop(op.table, Right[n])
    OBVIOUS
  <2>4. op' = [op EXCEPT !.queue = Tail(q), !.last = Right[n], !.table = t]
    BY <1>5, <2>1, <2>3 DEF FromTable
  <2>5. IsOp(op') /\ op'.queue = Tail(q) /\ op'.table = t
    BY <2>4, OpMatched DEF IsOp
  <2>6. Lists(out, MatchedBy(Left, Right, read), Left)
    <3>1. out \o <<>> = out
      BY <1>2
    <3> QED BY <1>2, <2>0, <3>1
  <2>7. /\ q \in Seq(Row) /\ q # <<>> /\ Lists(out \o q, MatchedBy(Left, Right, n), Left)
        /\ KeyTable(t, Left, DOMAIN Left \ MatchedBy(Left, Right, n))
    BY <1>1, <1>2, <2>0, <2>1, <2>3, <2>6, SemiStep
  <2>8. out' = Append(out, Head(q))
    BY <1>5, <2>1 DEF FromTable, JoinedRow
  <2>9. Head(q) \in Row /\ Tail(q) \in Seq(Row) /\ out' \o op'.queue = out \o q
    BY <1>2, <2>5, <2>7, <2>8, MoveHead
  <2>10. out' \in Seq(Row)
    BY <1>2, <2>8, <2>9
  <2>11. KeyTable(op.table, Left, DOMAIN Left \ MatchedBy(Left, Right, read))'
    BY <1>3, <2>0, <2>5, <2>7
  <2>12. Lists(out \o op.queue, MatchedBy(Left, Right, read), Left)'
    BY <1>3, <2>0, <2>7, <2>9
  <2> QED BY <1>3, <2>0, <2>2, <2>5, <2>9, <2>10, <2>11, <2>12 DEF SemiRead
<1>6. ASSUME AllJoined
      PROVE  IsOp(op') /\ SemiRead'
  <2>0. /\ op.queue = <<>> /\ pc' = "end" /\ read' = Len(Right) /\ op' = op /\ out' = out
        /\ \A i \in read + 1 .. Len(Right) : Matches(op.table, Right[i]) = <<>>
    BY <1>6 DEF AllJoined
  <2>1. MatchedBy(Left, Right, Len(Right)) = MatchedBy(Left, Right, read)
    <3>1. PICK m \in Nat : m = Len(Right)
      BY <1>1
    <3>2. PICK t : t = op.table
      OBVIOUS
    <3>3. \A i \in read + 1 .. m : Matches(t, Right[i]) = <<>>
      BY <2>0, <3>1, <3>2
    <3>4. KeyTable(t, Left, DOMAIN Left \ MatchedBy(Left, Right, read)) /\ read <= m /\ m <= Len(Right)
      BY <1>2, <3>1, <3>2
    <3>5. MatchedBy(Left, Right, m) = MatchedBy(Left, Right, read)
      <4>1. Left \in Seq(Row) /\ Right \in Seq(Row) /\ read \in Nat
        BY <1>1, <1>2
      <4>2. PICK U : U = DOMAIN Left \ MatchedBy(Left, Right, read)
        OBVIOUS
      <4>3. KeyTable(t, Left, U)
        BY <3>4, <4>2
      <4> QED BY <4>1, <4>2, <4>3, <3>1, <3>3, <3>4, SemiGoesOn
    <3> QED BY <3>1, <3>5
  <2>2. KeyTable(op.table, Left, DOMAIN Left \ MatchedBy(Left, Right, read))'
    BY <1>2, <1>3, <2>0, <2>1
  <2>3. Lists(out \o op.queue, MatchedBy(Left, Right, read), Left)'
    BY <1>2, <1>3, <2>0, <2>1
  <2>4. IsOp(op') /\ op'.queue = <<>> /\ read' \in Nat /\ read' <= Len(Right') /\ read' = Len(Right')
    BY <1>1, <1>3, <2>0
  <2>5. op'.queue \in Seq(Row) /\ out' \in Seq(Row)
    BY <1>2, <2>0
  <2> QED BY <2>2, <2>3, <2>4, <2>5 DEF SemiRead
<1> QED BY <1>2, <1>4, <1>5, <1>6, HashJoinIs

LEMMA JoinHash ==
  ASSUME JoinInv, HashJoin
  PROVE  JoinInv'
<1>1. /\ plan.kind \in {"hashJoin", "hashSemi"} /\ pc = "reading" /\ plan \in Plan /\ pass \in Nat
      /\ pass # 0
  BY DEF HashJoin, Asked, JoinInv
<1>2. plan' = plan /\ pass' = pass /\ pc' \in {"reading", "end"}
  BY <1>1 DEF HashJoin, Return, NoMoreRows
<1>3. CASE plan.use = "again"
  <2>1. IsOp(op) /\ JoinsRead
    BY <1>1, <1>3 DEF JoinInv, JoinKinds
  <2>2. CASE plan.kind = "hashJoin"
    <3>1. IsOp(op') /\ JoinRead'
      BY <1>1, <2>1, <2>2, JoinPairs DEF JoinsRead
    <3> QED BY <1>1, <1>2, <2>2, <3>1 DEF JoinInv, JoinsRead
  <2>3. CASE plan.kind = "hashSemi"
    <3>1. read \in Nat /\ (pass = 1 => SemiRead)
      BY <2>1, <2>3 DEF JoinsRead
    <3>2. pass = 1 => SemiRead'
      BY <1>1, <2>1, <2>3, <3>1, JoinSemi
    <3>3. IsOp(op') /\ read' \in Nat
      <4>1. Right \in Seq(Row) /\ Len(Right) \in Nat
        BY <1>1, JoinChildren
      <4>2. CASE FromQueue
        <5>1. read' = read /\ op' = [op EXCEPT !.queue = Tail(op.queue)]
          BY <4>2 DEF FromQueue
        <5>2. IsOp(op')
          BY <2>1, <5>1, OpQueue
        <5> QED BY <3>1, <5>1, <5>2
      <4>3. ASSUME NEW n, FromTable(n) PROVE IsOp(op') /\ read' \in Nat
        <5>1. PICK q, t : q = Tail(Matches(op.table, Right[n])) /\ t = Drop(op.table, Right[n])
          OBVIOUS
        <5>2. op' = [op EXCEPT !.queue = q, !.last = Right[n], !.table = t]
          BY <2>3, <4>3, <5>1 DEF FromTable
        <5>3. IsOp(op')
          BY <2>1, <5>2, OpMatched DEF IsOp
        <5>4. n \in read + 1 .. Len(Right) /\ read' = n
          BY <4>3 DEF FromTable
        <5> QED BY <3>1, <4>1, <5>3, <5>4
      <4>4. CASE AllJoined
        BY <2>1, <4>1, <4>4 DEF AllJoined
      <4> QED BY <1>1, <3>1, <4>2, <4>3, <4>4, HashJoinIs
    <3> QED BY <1>1, <1>2, <2>3, <3>2, <3>3 DEF JoinInv, JoinsRead
  <2> QED BY <1>1, <2>2, <2>3
<1>4. CASE plan.use # "again"
  BY <1>1, <1>2, <1>4 DEF JoinInv
<1> QED BY <1>3, <1>4

LEMMA JoinNotIn ==
  ASSUME JoinInv, HashNullAwareAntiJoin
  PROVE  JoinInv'
<1>1. /\ plan.kind = "antiJoin" /\ pc = "reading" /\ plan \in Plan /\ pass \in Nat /\ pass # 0
  BY DEF HashNullAwareAntiJoin, NextOf, Asked, JoinInv
<1>2. /\ plan' = plan /\ outer' = outer /\ pass' = pass /\ pc' \in {"reading", "end"}
      /\ IF op.pos < Len(op.rows)
         THEN out' = Append(out, op.rows[op.pos + 1]) /\ pc' = pc /\ op' = [op EXCEPT !.pos = op.pos + 1]
         ELSE out' = out /\ pc' = "end" /\ op' = op
  BY <1>1 DEF HashNullAwareAntiJoin, NextOf, Return, NoMoreRows
<1>3. CASE plan.use = "again"
  <2>1. IsOp(op) /\ JoinsRead
    BY <1>1, <1>3 DEF JoinInv, JoinKinds
  <2>2. IsOp(op') /\ op'.rows = op.rows
    <3>1. CASE op' = [op EXCEPT !.pos = op.pos + 1]
      BY <2>1, <3>1, OpPos
    <3>2. CASE op' = op
      BY <2>1, <3>2
    <3> QED BY <1>2, <3>1, <3>2
  <2>3. pass = 1 => NotInRead'
    <3>1. SUFFICES ASSUME pass = 1 PROVE NotInRead'
      OBVIOUS
    <3>2. NotInRead
      BY <1>1, <2>1, <3>1 DEF JoinsRead
    <3>3. PICK rows \in Seq(Row), k \in Nat, n \in Nat :
            rows = op.rows /\ k = op.pos /\ n = Len(rows) /\ k <= n /\ Copied(out, rows, 0, k)
      BY <3>2 DEF NotInRead
    <3>4. Lists(rows, NotIn(Left, Right), Left)'
      <4>1. Left' = Left /\ Right' = Right
        BY <1>2, ChildrenKept
      <4> QED BY <3>2, <3>3, <4>1 DEF NotInRead
    <3>5. CASE k < n
      <4>1. out' = Append(out, rows[k + 1]) /\ pc' = pc /\ op' = [op EXCEPT !.pos = k + 1]
        BY <1>2, <3>3, <3>5
      <4>2. op'.pos = k + 1 /\ op'.rows = rows
        BY <2>1, <3>3, <4>1, OpPos
      <4>3. Copied(Append(out, rows[0 + k + 1]), rows, 0, k + 1)
        BY <3>3, <3>5, CopiedNext
      <4>4. Copied(out', rows, 0, k + 1)
        BY <4>1, <4>3
      <4> QED BY <1>1, <3>3, <3>4, <3>5, <4>1, <4>2, <4>4 DEF NotInRead
    <3>6. CASE ~(k < n)
      <4>1. out' = out /\ pc' = "end" /\ op' = op /\ k = n
        BY <1>2, <3>3, <3>6
      <4> QED BY <3>3, <3>4, <4>1 DEF NotInRead
    <3> QED BY <3>5, <3>6
  <2> QED BY <1>1, <1>2, <2>2, <2>3 DEF JoinInv, JoinsRead
<1>4. CASE plan.use # "again"
  BY <1>1, <1>2, <1>4 DEF JoinInv
<1> QED BY <1>3, <1>4

\* The first pair of S in the order of the loops
FirstPair(p, S) == p \in S /\ \A q \in S : p[1] < q[1] \/ (p[1] = q[1] /\ p[2] <= q[2])

LEMMA FirstPairIs ==
  ASSUME NEW S, S \subseteq Nat \X Nat, S # {}
  PROVE  \E p : FirstPair(p, S)
<1> DEFINE A == {p[1] : p \in S}
<1>1. A \subseteq Nat /\ A # {}
  OBVIOUS
<1> HIDE DEF A
<1>2. PICK a \in A : \A x \in A : a <= x
  BY <1>1, LeastOf
<1> DEFINE B == {p[2] : p \in {q \in S : q[1] = a}}
<1>3. B \subseteq Nat /\ B # {}
  BY <1>2 DEF A
<1> HIDE DEF B
<1>4. PICK b \in B : \A x \in B : b <= x
  BY <1>3, LeastOf
<1>5. PICK p \in S : p[1] = a /\ p[2] = b
  BY <1>4 DEF B
<1>6. ASSUME NEW q \in S PROVE a < q[1] \/ (a = q[1] /\ b <= q[2])
  <2>1. q[1] \in A /\ q[1] \in Nat /\ a \in Nat
    BY <1>1, <1>2 DEF A
  <2>2. CASE q[1] = a
    <3>1. q[2] \in B
      BY <2>2 DEF B
    <3> QED BY <1>4, <2>2, <3>1
  <2>3. CASE q[1] # a
    BY <1>2, <2>1, <2>3
  <2> QED BY <2>2, <2>3
<1> QED BY <1>5, <1>6 DEF FirstPair

\* The pairs from h and k on
LoopLeft(L, R, h, k) ==
  {p \in (h .. Len(L)) \X (DOMAIN R) : (p[1] = h => p[2] > k) /\ KeyLess(L[p[1]], R[p[2]])}

LEMMA LoopPairs ==
  ASSUME NEW L \in Seq(Row), NEW R \in Seq(Row), NEW h \in Nat, h # 0, NEW k \in Nat
  PROVE  /\ LoopLeft(L, R, h, k) = {} => LoopDone(L, R, h, k) = Less(L, R)
         /\ \A n : FirstPair(n, LoopLeft(L, R, h, k)) =>
              /\ n \in (DOMAIN L) \X (DOMAIN R) /\ KeyLess(L[n[1]], R[n[2]])
              /\ n \notin LoopDone(L, R, h, k)
              /\ LoopDone(L, R, n[1], n[2]) = LoopDone(L, R, h, k) \cup {n}
<1>1. PICK a \in Nat, b \in Nat : DOMAIN L = 1 .. a /\ a = Len(L) /\ DOMAIN R = 1 .. b
  OBVIOUS
<1> DEFINE P == LoopLeft(L, R, h, k)
           D == LoopDone(L, R, h, k)
<1>2. \A p : p \in P <=> /\ p \in (1 .. a) \X (1 .. b) /\ KeyLess(L[p[1]], R[p[2]])
                         /\ h < p[1] \/ (h = p[1] /\ k < p[2])
  BY <1>1 DEF LoopLeft
<1>3. \A p : p \in D <=> /\ p \in (1 .. a) \X (1 .. b) /\ KeyLess(L[p[1]], R[p[2]])
                         /\ p[1] < h \/ (p[1] = h /\ p[2] <= k)
  BY <1>1 DEF LoopDone
<1>4. \A p \in (1 .. a) \X (1 .. b) : KeyLess(L[p[1]], R[p[2]]) => (p \in D <=> p \notin P)
  BY <1>2, <1>3
<1> HIDE DEF P, D
<1>5. P = {} => D = Less(L, R)
  BY <1>1, <1>3, <1>4 DEF Less
<1>6. ASSUME NEW n, FirstPair(n, P)
      PROVE  /\ n \in (1 .. a) \X (1 .. b) /\ KeyLess(L[n[1]], R[n[2]]) /\ n \notin D
             /\ LoopDone(L, R, n[1], n[2]) = D \cup {n}
  <2>1. n \in P /\ \A q \in P : n[1] < q[1] \/ (n[1] = q[1] /\ n[2] <= q[2])
    BY <1>6 DEF FirstPair
  <2>2. /\ n \in (1 .. a) \X (1 .. b) /\ KeyLess(L[n[1]], R[n[2]]) /\ n \notin D
        /\ h < n[1] \/ (h = n[1] /\ k < n[2])
    BY <1>2, <1>4, <2>1
  <2>3. PICK x \in 1 .. a, y \in 1 .. b : n = <<x, y>>
    BY <2>2
  <2>4. \A p : p \in LoopDone(L, R, x, y) <=>
                 /\ p \in (1 .. a) \X (1 .. b) /\ KeyLess(L[p[1]], R[p[2]])
                 /\ p[1] < x \/ (p[1] = x /\ p[2] <= y)
    BY <1>1 DEF LoopDone
  <2>5. \A p \in (1 .. a) \X (1 .. b) :
          KeyLess(L[p[1]], R[p[2]]) => (p \in LoopDone(L, R, x, y) <=> p \in D \cup {n})
    <3>1. SUFFICES ASSUME NEW p \in (1 .. a) \X (1 .. b), KeyLess(L[p[1]], R[p[2]])
                   PROVE  p \in LoopDone(L, R, x, y) <=> p \in D \cup {n}
      OBVIOUS
    <3>2. PICK i \in 1 .. a, j \in 1 .. b : p = <<i, j>>
      OBVIOUS
    <3>3. p \in LoopDone(L, R, x, y) <=> i < x \/ (i = x /\ j <= y)
      BY <2>4, <3>1, <3>2
    <3>4. CASE p \in P
      <4>1. x < i \/ (x = i /\ y <= j)
        BY <2>1, <2>3, <3>2, <3>4
      <4>2. p \notin D /\ (p = n <=> i = x /\ j = y)
        BY <1>4, <2>3, <3>1, <3>2, <3>4
      <4> QED BY <3>3, <4>1, <4>2
    <3>5. CASE p \notin P
      <4>1. p \in D
        BY <1>4, <3>1, <3>5
      <4>2. i < h \/ (i = h /\ j <= k)
        BY <1>3, <3>2, <4>1
      <4>3. h < x \/ (h = x /\ k < y)
        BY <2>2, <2>3
      <4>4. i < x \/ (i = x /\ j <= y)
        BY <4>2, <4>3
      <4> QED BY <3>3, <4>1, <4>4
    <3> QED BY <3>4, <3>5
  <2>6. n \in (1 .. a) \X (1 .. b) /\ KeyLess(L[n[1]], R[n[2]])
    BY <2>2
  <2>7. LoopDone(L, R, x, y) = D \cup {n}
    <3>1. \A p \in D \cup {n} : p \in (1 .. a) \X (1 .. b) /\ KeyLess(L[p[1]], R[p[2]])
      BY <1>3, <2>6
    <3>2. \A p : p \in LoopDone(L, R, x, y) <=> p \in D \cup {n}
      BY <2>4, <2>5, <3>1
    <3> QED BY <3>2
  <2>8. n[1] = x /\ n[2] = y
    BY <2>3
  <2> QED BY <2>2, <2>7, <2>8
<1> QED BY <1>1, <1>5, <1>6 DEF P, D

LEMMA OpLoop ==
  ASSUME NEW o, IsOp(o), NEW l, NEW x, NEW p, p = [o EXCEPT !.leftRow = l, !.pos = x]
  PROVE  IsOp(p) /\ p.rows = o.rows /\ p.leftRow = l /\ p.pos = x
<1>1. PICK q : q = [o EXCEPT !.leftRow = l]
  OBVIOUS
<1>2. IsOp(q) /\ q.rows = o.rows /\ q.leftRow = l
  BY <1>1 DEF IsOp
<1>3. p = [q EXCEPT !.pos = x]
  BY <1>1
<1>4. IsOp(p) /\ p.rows = q.rows /\ p.pos = x
  BY <1>2, <1>3 DEF IsOp
<1>5. p.leftRow = q.leftRow
  BY <1>2, <1>3 DEF IsOp
<1> QED BY <1>2, <1>4, <1>5

LEMMA LoopIs ==
  ASSUME plan \in Plan, NestedLoopJoin, LoopRead
  PROVE  /\ plan' = plan /\ outer' = outer /\ pass' = pass
         /\ \/ \E n, x : /\ FirstPair(n, LoopLeft(Left, Right, Here, op.pos))
                         /\ x = Left[n[1]]
                         /\ pc' = pc /\ read' = n[1] /\ out' = Append(out, <<x, Right[n[2]]>>)
                         /\ op' = [op EXCEPT !.leftRow = <<x>>, !.pos = n[2]]
            \/ /\ LoopLeft(Left, Right, Here, op.pos) = {}
               /\ pc' = "end" /\ out' = out
               /\ \E l, x : op' = [op EXCEPT !.leftRow = l, !.pos = x]
<1> DEFINE OuterRow(i) == IF i = read THEN op.leftRow[1] ELSE Input[i]
           pairs == {p \in (Here .. Len(Input)) \X DOMAIN op.rows :
                       /\ (p[1] = Here => p[2] > op.pos)
                       /\ KeyLess(OuterRow(p[1]), op.rows[p[2]])}
           next == CHOOSE p \in pairs : \A q \in pairs : p[1] < q[1] \/ (p[1] = q[1] /\ p[2] <= q[2])
<1>1. plan.kind = "nlJoin" /\ pc = "reading"
  BY DEF NestedLoopJoin, Asked
<1>2. /\ Left \in Seq(Row) /\ Right \in Seq(Row) /\ Input = Left
      /\ Len(Left) \in Nat /\ DOMAIN Left = 1 .. Len(Left) /\ DOMAIN Right = 1 .. Len(Right)
      /\ Len(Right) \in Nat
  BY <1>1, JoinChildren
<1>3. /\ op.rows = Right /\ read \in Nat /\ op.pos \in Nat
      /\ \/ op.leftRow = <<>> /\ read = 0 /\ Here = 1
         \/ read \in DOMAIN Left /\ op.leftRow = <<Left[read]>> /\ Here = read
  <2>1. /\ op.rows = Right /\ read \in Nat /\ op.pos \in Nat
        /\ \/ op.leftRow = <<>> /\ read = 0
           \/ read \in DOMAIN Left /\ op.leftRow = <<Left[read]>>
    BY <1>1 DEF LoopRead
  <2>2. CASE op.leftRow = <<>> /\ read = 0
    <3>1. Here = 0 + 1
      BY <2>2 DEF Here
    <3> QED BY <2>1, <2>2, <3>1
  <2>3. CASE read \in DOMAIN Left /\ op.leftRow = <<Left[read]>>
    <3>1. op.leftRow # <<>>
      BY <2>3
    <3> QED BY <2>1, <2>3, <3>1 DEF Here
  <2> QED BY <2>1, <2>2, <2>3
<1>4. \A i \in Here .. Len(Left) : OuterRow(i) = Left[i]
  BY <1>2, <1>3
<1>5. IF pairs # {}
      THEN Return(<<OuterRow(next[1]), op.rows[next[2]]>>, next[1],
                  [op EXCEPT !.leftRow = <<OuterRow(next[1])>>, !.pos = next[2]])
      ELSE NoMoreRows(Len(Input), [op EXCEPT !.leftRow = <<BlankRow>>,
                                             !.pos = IF Here > Len(Input) THEN @ ELSE Len(op.rows)])
  BY Zenon DEF NestedLoopJoin, Here
<1>6. pairs = LoopLeft(Left, Right, Here, op.pos)
  BY <1>2, <1>3, <1>4 DEF LoopLeft
<1>7. pairs \subseteq Nat \X Nat /\ \A p \in pairs : p[1] \in Here .. Len(Left)
  BY <1>2, <1>3
<1> HIDE DEF pairs
<1>8. CASE pairs # {}
  <2>1. FirstPair(next, pairs)
    BY <1>7, <1>8, FirstPairIs DEF FirstPair
  <2>2. OuterRow(next[1]) = Left[next[1]]
    BY <1>4, <1>7, <2>1 DEF FirstPair
  <2> HIDE DEF next, OuterRow
  <2>3. PICK n, x : n = next /\ x = Left[n[1]]
    OBVIOUS
  <2>4. Return(<<x, Right[n[2]]>>, n[1], [op EXCEPT !.leftRow = <<x>>, !.pos = n[2]])
    BY <1>3, <1>5, <1>8, <2>2, <2>3
  <2> QED BY <1>6, <2>1, <2>3, <2>4 DEF Return
<1>9. CASE pairs = {}
  <2>1. PICK l, x : NoMoreRows(Len(Input), [op EXCEPT !.leftRow = l, !.pos = x])
    BY <1>5, <1>9
  <2> QED BY <1>6, <1>9, <2>1 DEF NoMoreRows
<1> QED BY <1>8, <1>9

LEMMA JoinLoop ==
  ASSUME plan \in Plan, IsOp(op), LoopRead, NestedLoopJoin
  PROVE  IsOp(op') /\ LoopRead'
<1>1. plan.kind = "nlJoin" /\ pc = "reading"
  BY DEF NestedLoopJoin, Asked
<1>2. /\ Left \in Seq(Row) /\ Right \in Seq(Row) /\ Left' = Left /\ Right' = Right
      /\ Len(Left) \in Nat /\ DOMAIN Left = 1 .. Len(Left) /\ DOMAIN Right = 1 .. Len(Right)
      /\ Len(Right) \in Nat
  BY <1>1, JoinChildren, LoopIs, ChildrenKept
<1>3. /\ op.rows = Right /\ op.pos \in Nat /\ Here \in Nat /\ Here # 0 /\ out \in Seq(Row \X Row)
      /\ Lists(out, LoopDone(Left, Right, Here, op.pos), PairOf(Left, Right))
  BY <1>1, <1>2 DEF LoopRead, Here
<1>4. PICK h \in Nat, k \in Nat : h = Here /\ k = op.pos
  BY <1>3
<1>5. ASSUME NEW n, NEW x, FirstPair(n, LoopLeft(Left, Right, Here, op.pos)), x = Left[n[1]],
             pc' = pc, read' = n[1], out' = Append(out, <<x, Right[n[2]]>>),
             op' = [op EXCEPT !.leftRow = <<x>>, !.pos = n[2]]
      PROVE  IsOp(op') /\ LoopRead'
  <2>1. IsOp(op') /\ op'.rows = Right /\ op'.leftRow = <<x>> /\ op'.pos = n[2]
    BY <1>3, <1>5, OpLoop DEF IsOp
  <2>2. /\ n \in (DOMAIN Left) \X (DOMAIN Right) /\ n \notin LoopDone(Left, Right, h, k)
        /\ LoopDone(Left, Right, n[1], n[2]) = LoopDone(Left, Right, h, k) \cup {n}
    BY <1>2, <1>3, <1>4, <1>5, LoopPairs
  <2>3. /\ PairOf(Left, Right)[n] = <<x, Right[n[2]]>> /\ <<x, Right[n[2]]>> \in Row \X Row
    <3>1. PairOf(Left, Right)[n] = <<Left[n[1]], Right[n[2]]>>
      BY <2>2 DEF PairOf
    <3>2. Left[n[1]] \in Row /\ Right[n[2]] \in Row
      BY <1>2, <2>2
    <3> QED BY <1>5, <3>1, <3>2
  <2>4. PICK V, g : V = Row \X Row /\ g = PairOf(Left, Right)
    OBVIOUS
  <2>5. out' \in Seq(V) /\ Lists(out', LoopDone(Left, Right, n[1], n[2]), g)
    <3>1. out \in Seq(V) /\ Lists(out, LoopDone(Left, Right, h, k), g) /\ g[n] \in V
      BY <1>3, <1>4, <2>3, <2>4
    <3>2. /\ Append(out, g[n]) \in Seq(V)
          /\ Lists(Append(out, g[n]), LoopDone(Left, Right, h, k) \cup {n}, g)
      BY <2>2, <3>1, ListsNext
    <3> QED BY <1>5, <2>2, <2>3, <2>4, <3>2
  <2>6. Here' = n[1] /\ read' \in Nat /\ read' \in DOMAIN Left /\ op'.pos \in Nat
    BY <1>2, <1>5, <2>1, <2>2 DEF Here
  <2>7. Lists(out, LoopDone(Left, Right, Here, op.pos), PairOf(Left, Right))'
    BY <1>2, <2>1, <2>4, <2>5, <2>6
  <2>8. op'.leftRow = <<Left'[read']>>
    BY <1>2, <1>5, <2>1
  <2> QED BY <1>1, <1>2, <1>5, <2>1, <2>4, <2>5, <2>6, <2>7, <2>8 DEF LoopRead
<1>6. ASSUME NEW l, NEW x, LoopLeft(Left, Right, Here, op.pos) = {}, pc' = "end", out' = out,
             op' = [op EXCEPT !.leftRow = l, !.pos = x]
      PROVE  IsOp(op') /\ LoopRead'
  <2>1. IsOp(op') /\ op'.rows = Right
    BY <1>3, <1>6, OpLoop DEF IsOp
  <2>2. LoopDone(Left, Right, h, k) = Less(Left, Right)
    BY <1>2, <1>3, <1>4, <1>6, LoopPairs
  <2>3. Lists(out, Less(Left, Right), PairOf(Left, Right))'
    BY <1>2, <1>3, <1>4, <1>6, <2>2
  <2> QED BY <1>2, <1>3, <1>6, <2>1, <2>3 DEF LoopRead
<1> QED BY <1>5, <1>6, LoopIs

LEMMA LoopKeeps ==
  ASSUME NestedLoopJoin
  PROVE  /\ plan' = plan /\ pass' = pass /\ pc' \in {pc, "end"}
         /\ \E l, x : op' = [op EXCEPT !.leftRow = l, !.pos = x]
<1> DEFINE OuterRow(i) == IF i = read THEN op.leftRow[1] ELSE Input[i]
           pairs == {p \in (Here .. Len(Input)) \X DOMAIN op.rows :
                       /\ (p[1] = Here => p[2] > op.pos)
                       /\ KeyLess(OuterRow(p[1]), op.rows[p[2]])}
           next == CHOOSE p \in pairs : \A q \in pairs : p[1] < q[1] \/ (p[1] = q[1] /\ p[2] <= q[2])
<1>1. IF pairs # {}
      THEN Return(<<OuterRow(next[1]), op.rows[next[2]]>>, next[1],
                  [op EXCEPT !.leftRow = <<OuterRow(next[1])>>, !.pos = next[2]])
      ELSE NoMoreRows(Len(Input), [op EXCEPT !.leftRow = <<BlankRow>>,
                                             !.pos = IF Here > Len(Input) THEN @ ELSE Len(op.rows)])
  BY Zenon DEF NestedLoopJoin, Here
<1> HIDE DEF OuterRow, pairs, next
<1>2. \/ \E l, x, i, r : Return(r, i, [op EXCEPT !.leftRow = l, !.pos = x])
      \/ \E l, x, i : NoMoreRows(i, [op EXCEPT !.leftRow = l, !.pos = x])
  BY <1>1
<1> QED BY <1>2 DEF Return, NoMoreRows

LEMMA JoinLoopAny ==
  ASSUME JoinInv, NestedLoopJoin
  PROVE  JoinInv'
<1>1. plan.kind = "nlJoin" /\ pc = "reading" /\ plan \in Plan /\ pass \in Nat /\ pass # 0
  BY DEF NestedLoopJoin, Asked, JoinInv
<1>2. /\ plan' = plan /\ pass' = pass /\ pc' \in {"reading", "end"}
      /\ \E l, x : op' = [op EXCEPT !.leftRow = l, !.pos = x]
  BY <1>1, LoopKeeps
<1>3. CASE plan.use = "again"
  <2>1. IsOp(op) /\ JoinsRead
    BY <1>1, <1>3 DEF JoinInv, JoinKinds
  <2>2. IsOp(op')
    BY <1>2, <2>1, OpLoop DEF IsOp
  <2>3. pass = 1 => LoopRead'
    BY <1>1, <2>1, JoinLoop DEF JoinsRead
  <2> QED BY <1>1, <1>2, <2>2, <2>3 DEF JoinInv, JoinsRead
<1>4. CASE plan.use # "again"
  BY <1>1, <1>2, <1>4 DEF JoinInv
<1> QED BY <1>3, <1>4

LEMMA JoinLoopSemi ==
  ASSUME JoinInv, NestedLoopSemi
  PROVE  JoinInv'
<1>1. plan.kind = "nlSemi" /\ pc = "reading" /\ plan \in Plan /\ pass \in Nat /\ pass # 0
  BY DEF NestedLoopSemi, Asked, JoinInv
<1>2. /\ plan' = plan /\ outer' = outer /\ pass' = pass /\ pc' \in {"reading", "end"}
      /\ \E x : op' = [op EXCEPT !.pos = x]
  BY <1>1 DEF NestedLoopSemi, Return, NoMoreRows
<1>3. CASE plan.use = "again"
  <2>1. IsOp(op) /\ JoinsRead
    BY <1>1, <1>3 DEF JoinInv, JoinKinds
  <2>2. IsOp(op') /\ op'.rows = op.rows
    BY <1>2, <2>1, OpPos
  <2>3. ASSUME pass = 1 PROVE LoopSemiRead'
    <3>1. /\ op.rows = Right /\ out \in Seq(Row) /\ read \in Nat /\ op.pos \in Nat
          /\ \A l \in ToSet(out) : l \in ToSet(Left) /\ \E r \in ToSet(Right) : KeyLess(l, r)
      BY <1>1, <2>1, <2>3 DEF JoinsRead, LoopSemiRead
    <3>2. /\ Left \in Seq(Row) /\ Right \in Seq(Row) /\ Input = Left /\ Left' = Left /\ Right' = Right
          /\ Len(Left) \in Nat /\ DOMAIN Left = 1 .. Len(Left) /\ DOMAIN Right = 1 .. Len(Right)
          /\ Len(Right) \in Nat
      BY <1>1, <1>2, JoinChildren, ChildrenKept
    <3>3. PICK I : I = {i \in op.pos + 1 .. Len(Right) : KeyLess(Left[read + 1], Right[i])}
      OBVIOUS
    <3>4. PICK n : n = IF read < Len(Left) THEN IF I # {} THEN Min(I) ELSE 0 ELSE 0
      OBVIOUS
    <3>5. IF n > 0 THEN Return(Left[read + 1], read + 1, [op EXCEPT !.pos = n])
          ELSE NoMoreRows(Len(Left), [op EXCEPT !.pos = IF read < Len(Left) THEN Len(Right) ELSE op.pos])
      BY <3>1, <3>2, <3>3, <3>4 DEF NestedLoopSemi, SelectInSubSeq
    <3>6. n = 0 \/ (read < Len(Left) /\ n \in I /\ n \in op.pos + 1 .. Len(Right))
      <4>1. I \subseteq op.pos + 1 .. Len(Right)
        BY <3>3
      <4> QED BY <3>1, <3>2, <3>4, <4>1, SelectIs
    <3>7. CASE n = 0
      <4>1. /\ out' = out /\ read' = Len(Left)
            /\ op' = [op EXCEPT !.pos = IF read < Len(Left) THEN Len(Right) ELSE op.pos]
        BY <3>5, <3>7 DEF NoMoreRows
      <4>2. op'.pos \in Nat
        BY <2>1, <3>1, <3>2, <4>1, OpPos
      <4> QED BY <2>2, <3>1, <3>2, <4>1, <4>2 DEF LoopSemiRead
    <3>8. CASE n # 0
      <4>1. n \in Nat /\ n > 0 /\ n \in I /\ read < Len(Left) /\ n \in DOMAIN Right
        BY <3>1, <3>2, <3>6, <3>8
      <4>2. /\ out' = Append(out, Left[read + 1]) /\ read' = read + 1 /\ op' = [op EXCEPT !.pos = n]
        BY <3>5, <4>1 DEF Return
      <4>3. op'.pos \in Nat
        BY <2>1, <4>1, <4>2, OpPos
      <4>4. read + 1 \in DOMAIN Left
        BY <3>1, <3>2, <4>1
      <4>5. PICK l \in Row : l = Left[read + 1]
        BY <3>2, <4>4
      <4>6. out' \in Seq(Row) /\ ToSet(out') = ToSet(out) \cup {l}
        BY <3>1, <4>2, <4>5, AppendIs
      <4>7. l \in ToSet(Left) /\ \E r \in ToSet(Right) : KeyLess(l, r)
        <5>1. KeyLess(l, Right[n])
          BY <3>3, <4>1, <4>5
        <5>2. Right[n] \in ToSet(Right)
          BY <4>1 DEF ToSet
        <5>3. l \in ToSet(Left)
          BY <4>4, <4>5 DEF ToSet
        <5> QED BY <5>1, <5>2, <5>3
      <4> QED BY <2>2, <3>1, <3>2, <4>2, <4>3, <4>6, <4>7 DEF LoopSemiRead
    <3> QED BY <3>7, <3>8
  <2> QED BY <1>1, <1>2, <2>2, <2>3 DEF JoinInv, JoinsRead
<1>4. CASE plan.use # "again"
  BY <1>1, <1>2, <1>4 DEF JoinInv
<1> QED BY <1>3, <1>4

LEMMA JoinOthers ==
  ASSUME JoinInv,
         \/ TableScan \/ UnionAll \/ HashDistinct \/ HashUnion \/ HashExcept \/ HashIntersect
         \/ HashGroup \/ ScalarGroup \/ Sort \/ TopNSort \/ Limit
  PROVE  JoinInv'
<1>1. plan.kind \notin JoinKinds /\ pc = "reading"
  BY DEF TableScan, UnionAll, ReadChild, HashDistinct, HashUnion, HashExcept, ReadNew, HashIntersect,
         HashGroup, ScalarGroup, Sort, TopNSort, NextOf, Limit, Asked, JoinKinds
<1>2. plan' = plan /\ pass' = pass /\ pc' \in {"reading", "end"}
  <2>1. \E r, n, o : Return(r, n, o) \/ NoMoreRows(n, o)
    BY DEF TableScan, UnionAll, ReadChild, HashDistinct, HashUnion, HashExcept, ReadNew, HashIntersect,
           HashGroup, ScalarGroup, Sort, TopNSort, NextOf, Limit
  <2> QED BY <1>1, <2>1 DEF Return, NoMoreRows
<1> QED BY <1>1, <1>2 DEF JoinInv

LEMMA JoinNext == JoinInv /\ [Next]_vars => JoinInv'
<1>1. SUFFICES ASSUME JoinInv, [Next]_vars PROVE JoinInv'
  OBVIOUS
<1>2. CASE UNCHANGED vars
  <2>1. plan' = plan /\ outer' = outer /\ pc' = pc /\ pass' = pass /\ read' = read /\ op' = op /\ out' = out
    BY <1>2 DEF vars
  <2>2. Left' = Left /\ Right' = Right
    BY <2>1, ChildrenKept
  <2>3. JoinsRead' <=> JoinsRead
    <3>1. JoinRead' <=> JoinRead
      BY <2>1, <2>2 DEF JoinRead
    <3>2. SemiRead' <=> SemiRead
      BY <2>1, <2>2 DEF SemiRead
    <3>3. NotInRead' <=> NotInRead
      BY <2>1, <2>2 DEF NotInRead
    <3>4. LoopRead' <=> LoopRead
      BY <2>1, <2>2 DEF LoopRead, Here
    <3>5. LoopSemiRead' <=> LoopSemiRead
      BY <2>1, <2>2 DEF LoopSemiRead
    <3> QED BY <2>1, <3>1, <3>2, <3>3, <3>4, <3>5 DEF JoinsRead
  <2> QED BY <1>1, <2>1, <2>3 DEF JoinInv
<1>3. CASE Next
  BY <1>1, <1>3, JoinOpen, JoinReset, JoinLeft, JoinHash, JoinNotIn, JoinLoopAny, JoinLoopSemi, JoinOthers DEF Next
<1> QED BY <1>1, <1>2, <1>3

LEMMA PairsAnswered ==
  ASSUME plan \in Plan, NEW S, out \in Seq(Row \X Row), Lists(out, S, PairOf(Left, Right)),
         S \subseteq (DOMAIN Left) \X (DOMAIN Right)
  PROVE  Returned(S, Pair)
<1>1. Len(out) = Cardinality(S)
  BY ListsCounted
<1>2. \A e : Occurrences(out, e) = Cardinality({x \in S : PairOf(Left, Right)[x] = e})
  BY ListsCounted
<1>3. \A x \in S : PairOf(Left, Right)[x] = Pair(x)
  BY DEF PairOf, Pair
<1>4. \A e : {x \in S : PairOf(Left, Right)[x] = e} = {x \in S : Pair(x) = e}
  BY <1>3
<1>5. \A e : Occurrences(out, e) = Cardinality({x \in S : Pair(x) = e})
  BY <1>2, <1>4
<1> QED BY <1>1, <1>5 DEF Returned

LEMMA RowsAnswered ==
  ASSUME NEW S, out \in Seq(Row), Lists(out, S, Left)
  PROVE  Returned(S, LeftRow)
<1>1. Len(out) = Cardinality(S) /\ \A e : Occurrences(out, e) = Cardinality({x \in S : Left[x] = e})
  BY ListsCounted
<1> QED BY <1>1 DEF Returned, LeftRow

LEMMA JoinAnswered == JoinInv => JoinsExact
<1>1. SUFFICES ASSUME JoinInv, pc = "end", plan.use = "again", pass = 1 \/ plan.kind = "hashJoin"
               PROVE  JoinsExact
  BY DEF JoinsExact
<1>2. /\ plan \in Plan /\ Left \in Seq(Row) /\ Right \in Seq(Row) /\ Len(Right) \in Nat
      /\ DOMAIN Left = 1 .. Len(Left) /\ DOMAIN Right = 1 .. Len(Right)
  BY <1>1, JoinChildren DEF JoinInv
<1>3. plan.kind \in JoinKinds => JoinsRead
  BY <1>1 DEF JoinInv
<1>4. CASE plan.kind = "hashJoin"
  <2>1. out \in Seq(Row \X Row) /\ Lists(out, PairsTo(Left, Right, Len(Right)), PairOf(Left, Right))
    BY <1>1, <1>3, <1>4 DEF JoinKinds, JoinsRead, JoinRead
  <2>2. PairsTo(Left, Right, Len(Right)) = Pairs(KeyEqual)
    BY <1>2 DEF PairsTo, Pairs
  <2>3. Pairs(KeyEqual) \subseteq (DOMAIN Left) \X (DOMAIN Right)
    BY DEF Pairs
  <2>4. Returned(Pairs(KeyEqual), Pair)
    BY <1>2, <2>1, <2>2, <2>3, PairsAnswered
  <2> QED BY <1>4, <2>4 DEF JoinsExact
<1>5. CASE plan.kind = "nlJoin"
  <2>1. out \in Seq(Row \X Row) /\ Lists(out, Less(Left, Right), PairOf(Left, Right))
    BY <1>1, <1>3, <1>5 DEF JoinKinds, JoinsRead, LoopRead
  <2>2. Less(Left, Right) = Pairs(KeyLess)
    BY DEF Less, Pairs
  <2>3. Pairs(KeyLess) \subseteq (DOMAIN Left) \X (DOMAIN Right)
    BY DEF Pairs
  <2>4. Returned(Pairs(KeyLess), Pair)
    BY <1>2, <2>1, <2>2, <2>3, PairsAnswered
  <2> QED BY <1>5, <2>4 DEF JoinsExact
<1>6. CASE plan.kind = "hashSemi"
  <2>1. SemiRead /\ out \in Seq(Row) /\ op.queue = <<>> /\ read = Len(Right)
    BY <1>1, <1>3, <1>6 DEF JoinKinds, JoinsRead, SemiRead
  <2>2. out \o op.queue = out
    BY <2>1
  <2>3. Lists(out, MatchedBy(Left, Right, Len(Right)), Left)
    BY <2>1, <2>2 DEF SemiRead
  <2>4. MatchedBy(Left, Right, Len(Right)) = LeftRows(LAMBDA l : \E r \in ToSet(Right) : KeyEqual(l, r))
    BY <1>2 DEF MatchedBy, LeftRows, ToSet
  <2>5. Returned(LeftRows(LAMBDA l : \E r \in ToSet(Right) : KeyEqual(l, r)), LeftRow)
    BY <2>1, <2>3, <2>4, RowsAnswered
  <2> QED BY <1>6, <2>5 DEF JoinsExact
<1>7. CASE plan.kind = "antiJoin"
  <2>1. NotInRead /\ op.pos = Len(op.rows) /\ op.rows \in Seq(Row)
    BY <1>1, <1>3, <1>7 DEF JoinKinds, JoinsRead, NotInRead
  <2>2. out = op.rows
    BY <2>1, CopiedAll DEF NotInRead
  <2>3. Lists(out, NotIn(Left, Right), Left) /\ out \in Seq(Row)
    BY <2>1, <2>2 DEF NotInRead
  <2>4. NotIn(Left, Right) = LeftRows(LAMBDA l : \A r \in ToSet(Right) : l.k # Null /\ r.k # Null /\ l.k # r.k)
    BY <1>2 DEF NotIn, LeftRows, ToSet
  <2>5. Returned(LeftRows(LAMBDA l : \A r \in ToSet(Right) : l.k # Null /\ r.k # Null /\ l.k # r.k), LeftRow)
    BY <2>3, <2>4, RowsAnswered
  <2> QED BY <1>7, <2>5 DEF JoinsExact
<1>8. CASE plan.kind = "nlSemi"
  <2>1. LoopSemiRead
    BY <1>1, <1>3, <1>8 DEF JoinKinds, JoinsRead
  <2> QED BY <1>8, <2>1 DEF JoinsExact, LoopSemiRead
<1>9. CASE plan.kind \notin JoinKinds
  BY <1>9 DEF JoinsExact, JoinKinds
<1> QED BY <1>4, <1>5, <1>6, <1>7, <1>8, <1>9 DEF JoinKinds

(* Theorem: the joins of a query that is not correlated return each pair    *)
(* (or, for IN and NOT IN, each row) that the condition asks for, as often  *)
(* as it occurs, whichever keys share buckets; the hash join also after a   *)
(* reset.                                                                   *)
THEOREM ReturnsJoins == Spec => []JoinsExact
<1>1. JoinInv /\ [Next]_vars => JoinInv'
  BY JoinNext
<1> QED BY <1>1, JoinInit, JoinAnswered, PTL DEF Spec

-----------------------------------------------------------------------------
(* The keys of a bucket in order.                                           *)

LEMMA OntoItself ==
  ASSUME NEW K, NEW n \in Nat, NEW s \in [1 .. n -> K], \A i, j \in 1 .. n : s[i] = s[j] => i = j,
         \A k \in K : \E i \in 1 .. n : s[i] = k
  PROVE  Lists(s, K, [k \in K |-> k])
<1>1. PICK g : g = [k \in K |-> k]
  OBVIOUS
<1>2. DOMAIN s = 1 .. n
  OBVIOUS
<1>3. \A i \in 1 .. n : s[i] \in K /\ s[i] = g[s[i]]
  BY <1>1
<1>4. ListsBy(s, s, K, g)
  BY <1>2, <1>3 DEF ListsBy
<1>5. Lists(s, K, g)
  BY <1>4 DEF Lists
<1> QED BY <1>1, <1>5

\* SetToSeqs, and an increasing member of it
LEMMA OrderedKeys ==
  ASSUME NEW K \in SUBSET Nat, IsFiniteSet(K),
         NEW s, s = CHOOSE x \in SetToSeqs(K) : \A i, j \in DOMAIN x : i < j => x[i] < x[j]
  PROVE  s \in [1 .. Cardinality(K) -> K] /\ Lists(s, K, [k \in K |-> k])
<1>1. PICK n \in Nat : n = Cardinality(K)
  BY FS_CardinalityType
<1>2. IsFiniteSet(1 .. n) /\ Cardinality(1 .. n) = n
  <2>1. IsFiniteSet(1 .. n) /\ Cardinality(1 .. n) = IF 1 > n THEN 0 ELSE n - 1 + 1
    BY FS_Interval
  <2> QED BY <2>1
<1> DEFINE upto(k) == {y \in K : y <= k}
           rank == [k \in K |-> Cardinality(upto(k))]
<1>3. ASSUME NEW k \in K
      PROVE  /\ upto(k) \in SUBSET K /\ IsFiniteSet(upto(k)) /\ rank[k] \in 1 .. n
             /\ rank[k] = Cardinality(upto(k))
  <2>1. upto(k) \in SUBSET K /\ k \in upto(k)
    OBVIOUS
  <2>2. IsFiniteSet(upto(k)) /\ Cardinality(upto(k)) <= Cardinality(K)
    BY <2>1, FS_Subset
  <2>3. Cardinality(upto(k)) \in Nat /\ Cardinality(upto(k)) # 0
    BY <2>1, <2>2, FS_CardinalityType, FS_EmptySet
  <2> QED BY <1>1, <2>1, <2>2, <2>3
<1>4. ASSUME NEW j \in K, NEW k \in K, j < k PROVE rank[j] < rank[k]
  <2>1. upto(j) \in SUBSET upto(k) /\ k \in upto(k) /\ k \notin upto(j)
    <3>1. j \in Nat /\ k \in Nat /\ k <= k /\ ~(k <= j)
      BY <1>4
    <3>2. \A y \in K : y <= j => y <= k
      <4>1. K \subseteq Nat
        OBVIOUS
      <4> QED BY <1>4, <3>1, <4>1
    <3>3. \A y \in upto(j) : y \in upto(k)
      BY <3>2
    <3>4. k \in upto(k) /\ k \notin upto(j)
      BY <3>1
    <3> QED BY <3>3, <3>4
  <2> HIDE DEF upto
  <2>2. Cardinality(upto(j)) <= Cardinality(upto(k)) /\ Cardinality(upto(j)) # Cardinality(upto(k))
    BY <1>3, <2>1, FS_Subset
  <2>3. rank[j] \in Nat /\ rank[k] \in Nat
    BY <1>3
  <2> QED BY <1>3, <2>2, <2>3
<1>5. rank \in [K -> 1 .. n]
  BY <1>3
<1> HIDE DEF rank
<1>6. \A j, k \in K : rank[j] = rank[k] => j = k
  <2>1. SUFFICES ASSUME NEW j \in K, NEW k \in K, j # k PROVE rank[j] # rank[k]
    OBVIOUS
  <2>2. j < k \/ k < j
    BY <2>1
  <2>3. rank[j] < rank[k] \/ rank[k] < rank[j]
    BY <1>4, <2>2
  <2>4. rank[j] \in Nat /\ rank[k] \in Nat
    BY <1>5
  <2> QED BY <2>3, <2>4
<1>7. \A i \in 1 .. n : \E k \in K : rank[k] = i
  <2>1. rank \in Injection(K, 1 .. n)
    BY <1>5, <1>6 DEF Injection, IsInjective
  <2>2. rank \in Surjection(K, 1 .. n)
    BY <1>1, <1>2, <2>1, FS_Injection
  <2> QED BY <2>2 DEF Surjection
<1> DEFINE h == [i \in 1 .. n |-> CHOOSE k \in K : rank[k] = i]
<1>8. h \in [1 .. n -> K] /\ \A i \in 1 .. n : rank[h[i]] = i
  BY <1>7
<1> HIDE DEF h
<1>9. \A i, j \in 1 .. n : i < j => h[i] < h[j]
  <2>1. SUFFICES ASSUME NEW i \in 1 .. n, NEW j \in 1 .. n, i < j PROVE h[i] < h[j]
    OBVIOUS
  <2>2. h[i] \in K /\ h[j] \in K /\ h[i] \in Nat /\ h[j] \in Nat /\ rank[h[i]] = i /\ rank[h[j]] = j
    BY <1>8
  <2>3. h[i] # h[j]
    BY <2>1, <2>2
  <2>4. ~(h[j] < h[i])
    <3>1. h[j] < h[i] => j < i
      BY <1>4, <2>2
    <3> QED BY <2>1, <3>1
  <2> QED BY <2>2, <2>3, <2>4
<1>10. h \in SetToSeqs(K) /\ \A i, j \in DOMAIN h : i < j => h[i] < h[j]
  <2>1. \A i, j \in 1 .. n : i # j => h[i] # h[j]
    BY <1>8
  <2> QED BY <1>1, <1>8, <1>9, <2>1 DEF SetToSeqs
<1>11. s \in SetToSeqs(K)
  BY <1>10
<1>12. s \in [1 .. n -> K] /\ \A i, j \in 1 .. n : s[i] = s[j] => i = j
  BY <1>1, <1>11 DEF SetToSeqs
<1>13. \A k \in K : \E i \in 1 .. n : s[i] = k
  <2>1. DOMAIN s = 1 .. n
    BY <1>12
  <2>2. IsInjective(s)
    BY <1>12, <2>1 DEF IsInjective
  <2>3. s \in Injection(1 .. n, K)
    BY <1>12, <2>2 DEF Injection
  <2>4. s \in Surjection(1 .. n, K)
    BY <1>1, <1>2, <2>3, FS_Injection
  <2> QED BY <2>4 DEF Surjection
<1> QED
  <2>1. s \in [1 .. Cardinality(K) -> K]
    BY <1>1, <1>12
  <2>2. Lists(s, K, [k \in K |-> k])
    BY <1>12, <1>13, OntoItself
  <2> QED BY <2>1, <2>2

-----------------------------------------------------------------------------
(* The groups of the rows.                                                  *)

KeysOf(s, S) == {s[i].k : i \in S}
RowsWith(s, S, key) == {i \in S : s[i].k = key}
GroupFor(s) == [key \in Nat |-> [k |-> key, tally |-> Tally(Only(s, RowsWith(s, DOMAIN s, key)))]]
GroupRow == [k : Nat, tally : [Row -> Nat]]

LEMMA KeysTyped ==
  ASSUME NEW s \in Seq(Row)
  PROVE  /\ KeysOf(s, DOMAIN s) \in SUBSET Nat /\ IsFiniteSet(KeysOf(s, DOMAIN s))
         /\ {r.k : r \in ToSet(s)} = KeysOf(s, DOMAIN s)
<1>1. PICK n \in Nat : n = Len(s) /\ DOMAIN s = 1 .. n
  OBVIOUS
<1>2. \A i \in 1 .. n : s[i].k \in Nat
  BY <1>1, RowTyped
<1>3. KeysOf(s, DOMAIN s) \in SUBSET Nat
  BY <1>1, <1>2 DEF KeysOf
<1> DEFINE K == KeysOf(s, DOMAIN s)
           f == [i \in 1 .. n |-> s[i].k]
<1>4. f \in Surjection(1 .. n, K)
  BY <1>1 DEF KeysOf, Surjection
<1> HIDE DEF K, f
<1>5. IsFiniteSet(1 .. n)
  BY FS_Interval
<1>6. IsFiniteSet(K)
  BY <1>4, <1>5, FS_Surjection
<1>7. {r.k : r \in ToSet(s)} = K
  BY DEF K, KeysOf, ToSet
<1> QED BY <1>3, <1>6, <1>7 DEF K

\* What lists the same rows has the same tally
LEMMA TallyIs ==
  ASSUME NEW s \in Seq(Row), NEW t \in Seq(Row), NEW S, NEW g, Lists(s, S, g), Lists(t, S, g)
  PROVE  Tally(s) = Tally(t) /\ Tally(s) \in [Row -> Nat]
<1>1. /\ \A e : Occurrences(s, e) = Cardinality({x \in S : g[x] = e})
      /\ \A e : Occurrences(t, e) = Cardinality({x \in S : g[x] = e})
  BY ListsCounted
<1>2. Tally(s) = [r \in Row |-> Occurrences(s, r)] /\ Tally(t) = [r \in Row |-> Occurrences(t, r)]
  BY DEF Tally, Occurrences
<1>3. \A r \in Row : Occurrences(s, r) = Occurrences(t, r) /\ Occurrences(s, r) \in Nat
  BY <1>1, OccurrencesTyped
<1> QED BY <1>2, <1>3

LEMMA GroupTyped ==
  ASSUME NEW s \in Seq(Row), NEW key \in Nat
  PROVE  GroupFor(s)[key] \in GroupRow /\ GroupFor(s)[key].k = key
<1>1. PICK u \in Seq(Row) : u = Only(s, RowsWith(s, DOMAIN s, key))
  BY OnlyTyped
<1>2. Lists(u, DOMAIN u, u)
  BY ListsAll
<1>3. Tally(u) \in [Row -> Nat]
  BY <1>2, TallyIs
<1>4. GroupFor(s)[key] = [k |-> key, tally |-> Tally(u)]
  BY <1>1 DEF GroupFor
<1> QED BY <1>3, <1>4 DEF GroupRow

\* The groups of a bucket with all rows that have the same keys
LEMMA BucketGroups ==
  ASSUME NEW s \in Seq(Row), NEW u \in Seq(Row), NEW S \in SUBSET DOMAIN s, Lists(u, S, s),
         \A i \in DOMAIN s, j \in S : s[i].k = s[j].k => i \in S
  PROVE  GroupsOf(u) \in Seq(GroupRow) /\ Lists(GroupsOf(u), KeysOf(s, S), GroupFor(s))
<1>1. PICK K : K = {r.k : r \in ToSet(u)}
  OBVIOUS
<1>2. K \in SUBSET Nat /\ IsFiniteSet(K) /\ K = KeysOf(u, DOMAIN u)
  BY <1>1, KeysTyped
<1>3. K = KeysOf(s, S)
  <2>1. PICK f : ListsBy(f, u, S, s)
    BY DEF Lists
  <2> QED BY <1>2, <2>1 DEF ListsBy, KeysOf
<1>4. PICK keys : keys = CHOOSE x \in SetToSeqs(K) : \A i, j \in DOMAIN x : i < j => x[i] < x[j]
  OBVIOUS
<1>5. keys \in [1 .. Cardinality(K) -> K] /\ Lists(keys, K, [k \in K |-> k])
  BY <1>2, <1>4, OrderedKeys
<1>6. PICK w : w = GroupsOf(u)
  OBVIOUS
<1>7. w = [i \in DOMAIN keys |-> [k |-> keys[i], tally |-> Tally(Only(u, RowsWith(u, DOMAIN u, keys[i])))]]
  BY <1>1, <1>4, <1>6 DEF GroupsOf, RowsWith
<1>8. ASSUME NEW key \in K
      PROVE  Tally(Only(u, RowsWith(u, DOMAIN u, key))) = Tally(Only(s, RowsWith(s, DOMAIN s, key)))
  <2>1. PICK C, P, T : /\ C = {r \in Row : r.k = key} /\ P = RowsWith(u, DOMAIN u, key)
                       /\ T = RowsWith(s, S, key)
    OBVIOUS
  <2>2. P \in SUBSET DOMAIN u /\ \A j \in DOMAIN u : j \in P <=> u[j] \in C
    BY <2>1 DEF RowsWith
  <2>3. T \in SUBSET S /\ \A i \in S : i \in T <=> s[i] \in C
    BY <2>1 DEF RowsWith
  <2>4. Only(u, P) \in Seq(Row) /\ Lists(Only(u, P), T, s)
    BY <2>2, <2>3, OnlySome
  <2>5. T = RowsWith(s, DOMAIN s, key)
    BY <1>3, <2>1 DEF RowsWith, KeysOf
  <2>6. Only(s, T) \in Seq(Row) /\ Lists(Only(s, T), T, s)
    <3>1. T \cap DOMAIN s = T
      BY <2>3
    <3> QED BY <3>1, OnlyLists, OnlyTyped
  <2>7. Tally(Only(u, P)) = Tally(Only(s, T))
    BY <2>4, <2>6, TallyIs
  <2> QED BY <2>1, <2>5, <2>7
<1>9. \A i \in DOMAIN keys : keys[i] \in K /\ keys[i] \in Nat
  BY <1>2, <1>5
<1>10. \A i \in DOMAIN keys : w[i] = GroupFor(s)[keys[i]]
  BY <1>7, <1>8, <1>9 DEF GroupFor
<1>11. w \in Seq(GroupRow)
  <2>1. \A i \in DOMAIN keys : w[i] \in GroupRow
    BY <1>9, <1>10, GroupTyped
  <2>2. DOMAIN w = 1 .. Cardinality(K) /\ Cardinality(K) \in Nat /\ w = [i \in DOMAIN w |-> w[i]]
    BY <1>2, <1>5, <1>7, FS_CardinalityType
  <2> QED BY <1>5, <2>1, <2>2
<1>12. Lists(w, K, GroupFor(s))
  <2>1. PICK f : ListsBy(f, keys, K, [k \in K |-> k])
    BY <1>5 DEF Lists
  <2>2. \A i \in DOMAIN keys : f[i] = keys[i]
    BY <2>1 DEF ListsBy
  <2>3. ListsBy(f, w, K, GroupFor(s))
    <3>1. DOMAIN w = DOMAIN keys
      BY <1>7
    <3> QED BY <1>10, <2>1, <2>2, <3>1 DEF ListsBy
  <2> QED BY <2>3 DEF Lists
<1> QED BY <1>3, <1>6, <1>11, <1>12

LEMMA GroupsListed ==
  ASSUME NEW s \in Seq(Row), NEW t, KeyTable(t, s, DOMAIN s)
  PROVE  Groups(t) \in Seq(GroupRow) /\ Lists(Groups(t), KeysOf(s, DOMAIN s), GroupFor(s))
<1>1. PICK n \in Nat \ {0} : n = Buckets
  BY HashAssumption
<1>2. \A i \in DOMAIN s : s[i] \in Row
  OBVIOUS
<1>3. ASSUME NEW b \in 1 .. n
      PROVE  /\ GroupsOf(t[b]) \in Seq(GroupRow)
             /\ Lists(GroupsOf(t[b]), KeysOf(s, InBucket(s, DOMAIN s, b)), GroupFor(s))
  <2>1. t[b] \in Seq(Row) /\ Lists(t[b], InBucket(s, DOMAIN s, b), s)
    BY <1>1 DEF KeyTable, Table
  <2>2. PICK S \in SUBSET DOMAIN s : S = InBucket(s, DOMAIN s, b)
    BY DEF InBucket
  <2>3. \A i \in DOMAIN s, j \in S : s[i].k = s[j].k => i \in S
    BY <1>2, <2>2, KeyTyped DEF InBucket
  <2>4. PICK u \in Seq(Row) : u = t[b]
    BY <2>1
  <2>5. Lists(u, S, s)
    BY <2>1, <2>2, <2>4
  <2> QED BY <2>2, <2>3, <2>4, <2>5, BucketGroups
<1> DEFINE D == [b \in 1 .. n |-> KeysOf(s, InBucket(s, DOMAIN s, b))]
           g == [b \in 1 .. n |-> GroupsOf(t[b])]
<1>4. g \in [1 .. n -> Seq(GroupRow)] /\ \A b \in 1 .. n : Lists(g[b], D[b], GroupFor(s))
  BY <1>3
<1>5. \A b, c \in 1 .. n : b # c => D[b] \cap D[c] = {}
  <2>1. \A i, j \in DOMAIN s : s[i].k = s[j].k => KeyHash[s[i]] = KeyHash[s[j]]
    BY <1>2, KeyTyped
  <2> QED BY <2>1 DEF KeysOf, InBucket
<1>6. UNION {D[b] : b \in 1 .. n} = KeysOf(s, DOMAIN s)
  <2>1. \A i \in DOMAIN s : KeyHash[s[i]] \in 1 .. n
    BY <1>1, <1>2, KeyTyped
  <2>2. ASSUME NEW x PROVE (\E b \in 1 .. n : x \in D[b]) <=> x \in KeysOf(s, DOMAIN s)
    BY <2>1 DEF KeysOf, InBucket
  <2> QED BY <2>2
<1>7. Groups(t) = FlattenSeq(g)
  BY <1>1 DEF Groups
<1> HIDE DEF D, g
<1>8. FlattenSeq(g) \in Seq(GroupRow) /\ Lists(FlattenSeq(g), UNION {D[b] : b \in 1 .. n}, GroupFor(s))
  BY <1>4, <1>5, FlattenLists
<1> QED BY <1>6, <1>7, <1>8

-----------------------------------------------------------------------------
(* Grouping, between the groups it returns.                                 *)

\* HAVING
Enough(g) == CountRows(g.tally) >= plan.size
NoGroup == [k |-> Null, tally |-> NoRows]
EnoughTo(rows, k) == {i \in 1 .. k : Enough(rows[i])}

GroupRead ==
  /\ op.rows \in Seq(GroupRow) /\ Lists(op.rows, KeysOf(Left, DOMAIN Left), GroupFor(Left))
  /\ op.pos \in Nat /\ op.pos <= Len(op.rows) /\ out \in Seq(GroupRow)
  /\ op.ended \in BOOLEAN /\ op.emitted \in BOOLEAN
  /\ op.rows # <<>> => /\ Lists(out, EnoughTo(op.rows, op.pos), op.rows)
                       /\ (op.ended \/ pc = "end") => op.pos = Len(op.rows)
  /\ op.rows = <<>> => /\ out = IF op.emitted /\ Enough(NoGroup) THEN <<NoGroup>> ELSE <<>>
                       /\ pc = "end" => op.emitted

WholeGroup == [k |-> Null, tally |-> Tally(Left)]
ScalarRead ==
  \/ out = <<>> /\ op.result = <<WholeGroup>> /\ (pc = "end" => ~Enough(WholeGroup))
  \/ out = <<WholeGroup>> /\ op.result = <<>> /\ Enough(WholeGroup)

GroupInv ==
  /\ plan \in Plan /\ pass \in Nat
  /\ pc \in {"reading", "end"} => pass # 0
  /\ (plan.kind \in {"group", "scalar"} /\ plan.use = "again") =>
       /\ pc = "new" => op = NewOp
       /\ (pc \in {"reading", "end"} /\ pass = 1) =>
            /\ IsOp(op)
            /\ plan.kind = "group" => GroupRead
            /\ plan.kind = "scalar" => ScalarRead

LEMMA GroupInit == Init => GroupInv
BY DEF Init, GroupInv

LEMMA ScalarOp ==
  ASSUME NEW x, NEW y, NEW p, p = [NewOp EXCEPT !.tally = x, !.result = y]
  PROVE  IsOp(p) /\ p.result = y
<1>0. PICK o : o = NewOp
  OBVIOUS
<1>1. IsOp(o)
  BY <1>0 DEF NewOp, IsOp
<1>2. PICK q : q = [o EXCEPT !.tally = x]
  OBVIOUS
<1>3. IsOp(q)
  BY <1>1, <1>2 DEF IsOp
<1>4. p = [q EXCEPT !.result = y]
  BY <1>0, <1>2
<1> QED BY <1>3, <1>4 DEF IsOp

LEMMA TallyTyped ==
  ASSUME NEW s \in Seq(Row)
  PROVE  Tally(s) \in [Row -> Nat] /\ Plus(NoRows, s) = Tally(s)
<1>1. Lists(s, DOMAIN s, s)
  BY ListsAll
<1>2. Tally(s) \in [Row -> Nat]
  BY <1>1, TallyIs
<1>3. Plus(NoRows, s) = [r \in Row |-> 0 + Tally(s)[r]]
  BY DEF Plus, NoRows
<1>4. \A r \in Row : 0 + Tally(s)[r] = Tally(s)[r]
  BY <1>2
<1>5. Tally(s) = [r \in Row |-> Tally(s)[r]]
  BY <1>2
<1> QED BY <1>2, <1>3, <1>4, <1>5

LEMMA GroupOpen ==
  ASSUME GroupInv, Open
  PROVE  GroupInv'
<1>1. /\ plan' = plan /\ outer' = outer /\ pass' = pass + 1 /\ read' = 0 /\ out' = <<>>
      /\ pc' = "reading" /\ op' \in Built(op, Left, Right)
  BY DEF Open
<1>2. pass' \in Nat /\ pass' # 0 /\ plan \in Plan
  BY <1>1 DEF GroupInv
<1>3. Left' = Left /\ Left \in Seq(Row)
  BY <1>1, <1>2, JoinChildren, ChildrenKept
<1>4. CASE plan.kind = "group" /\ plan.use = "again"
  <2>1. op = NewOp
    BY <1>4 DEF Open, GroupInv
  <2>2. Built(op, Left, Right) = {BuiltGroups(op, Left)}
    BY <1>4 DEF Built
  <2>3. PICK t : t = BuildAll(op.table, KeyHash, Left)
    OBVIOUS
  <2>4. op' = [op EXCEPT !.table = t, !.rows = Groups(t)]
    BY <1>1, <2>2, <2>3 DEF BuiltGroups, Clear
  <2>5. IsOp(op') /\ op'.rows = Groups(t) /\ op'.pos = 0 /\ op'.ended = FALSE /\ op'.emitted = FALSE
    <3>1. PICK y : y = Groups(t)
      OBVIOUS
    <3>2. op' = [NewOp EXCEPT !.table = t, !.rows = y]
      BY <2>1, <2>4, <3>1
    <3>3. IsOp(op') /\ op'.rows = y /\ op'.pos = 0 /\ op'.ended = FALSE /\ op'.emitted = FALSE
      <4>1. PICK q : q = [NewOp EXCEPT !.table = t]
        OBVIOUS
      <4>2. IsOp(q) /\ q.pos = 0 /\ q.ended = FALSE /\ q.emitted = FALSE
        BY <4>1 DEF NewOp, IsOp
      <4>3. op' = [q EXCEPT !.rows = y]
        BY <3>2, <4>1
      <4> QED BY <4>2, <4>3 DEF IsOp
    <3> QED BY <3>1, <3>3
  <2>6. t = BuildAll(NewTable, KeyHash, Left)
    BY <2>1, <2>3, NewOpIs
  <2>7. KeyTable(t, Left, DOMAIN Left)
    BY <1>3, <2>6, BuiltKeyTable
  <2>8. op'.rows \in Seq(GroupRow) /\ Lists(op'.rows, KeysOf(Left, DOMAIN Left), GroupFor(Left))
    BY <1>3, <2>5, <2>7, GroupsListed
  <2>9. Lists(op.rows, KeysOf(Left, DOMAIN Left), GroupFor(Left))'
    BY <1>3, <2>8
  <2>10. EnoughTo(op.rows, op.pos)' = {} /\ Lists(<<>>, {}, op'.rows)
    BY <2>5, ListsNone DEF EnoughTo
  <2>11. Lists(out, EnoughTo(op.rows, op.pos), op.rows)'
    BY <1>1, <2>10
  <2>12. GroupRead'
    <3>1. <<>> \in Seq(GroupRow) /\ Len(op'.rows) \in Nat
      BY <2>8
    <3>2. op'.pos \in Nat /\ op'.pos <= Len(op'.rows) /\ pc' # "end" /\ ~op'.ended /\ ~op'.emitted
      BY <1>1, <2>5, <3>1
    <3>3. op'.ended \in BOOLEAN /\ op'.emitted \in BOOLEAN
      BY <2>5
    <3>4. out' = <<>> /\ out' \in Seq(GroupRow)
      BY <1>1, <3>1
    <3> QED BY <2>8, <2>9, <2>11, <3>2, <3>3, <3>4 DEF GroupRead
  <2> QED BY <1>1, <1>2, <1>4, <2>5, <2>12 DEF GroupInv
<1>5. CASE plan.kind = "scalar" /\ plan.use = "again"
  <2>1. op = NewOp
    BY <1>5 DEF Open, GroupInv
  <2>2. Built(op, Left, Right) = {Aggregated(op, Left)}
    BY <1>5 DEF Built
  <2>3. PICK n : n = Plus(op.tally, Left)
    OBVIOUS
  <2>4. op' = [op EXCEPT !.tally = n, !.result = <<[k |-> Null, tally |-> n]>>]
    BY <1>1, <2>2, <2>3 DEF Aggregated
  <2>5. IsOp(op') /\ op'.result = <<[k |-> Null, tally |-> n]>>
    <3>1. PICK y : y = <<[k |-> Null, tally |-> n]>>
      OBVIOUS
    <3>2. op' = [NewOp EXCEPT !.tally = n, !.result = y]
      BY <2>1, <2>4, <3>1
    <3>3. IsOp(op') /\ op'.result = y
      BY <3>2, ScalarOp
    <3> QED BY <3>1, <3>3
  <2>6. n = Tally(Left)
    <3>1. op.tally = NoRows
      BY <2>1 DEF NewOp
    <3> QED BY <1>3, <2>3, <3>1, TallyTyped
  <2>7. ScalarRead'
    <3>1. WholeGroup' = [k |-> Null, tally |-> n]
      BY <1>3, <2>6 DEF WholeGroup
    <3> QED BY <1>1, <2>5, <3>1 DEF ScalarRead
  <2> QED BY <1>1, <1>2, <1>5, <2>5, <2>7 DEF GroupInv
<1>6. CASE ~(plan.kind \in {"group", "scalar"} /\ plan.use = "again")
  BY <1>1, <1>2, <1>6 DEF GroupInv
<1> QED BY <1>4, <1>5, <1>6

LEMMA GroupReset ==
  ASSUME GroupInv, Reset
  PROVE  GroupInv'
<1>1. plan' = plan /\ pass' = pass + 1 /\ pc = "end" /\ pc' = "reading"
  BY DEF Reset
<1>2. plan \in Plan /\ pass \in Nat /\ pass # 0
  BY <1>1 DEF GroupInv
<1>3. pass' \in Nat /\ pass' # 0 /\ pass' # 1
  BY <1>1, <1>2
<1> QED BY <1>1, <1>2, <1>3 DEF GroupInv

LEMMA GroupLeft ==
  ASSUME GroupInv, Reopen \/ Close \/ NestedLoopBlank
  PROVE  GroupInv'
<1>1. plan' = plan /\ pass' = pass /\ pc' \in {"reopened", "closed", "crashed"}
  BY DEF Reopen, Close, NestedLoopBlank
<1> QED BY <1>1 DEF GroupInv

\* SelectInSubSeq, whatever the members are
LEMMA SelectAny ==
  ASSUME NEW m \in Nat, NEW k \in Nat, NEW I, NEW n, I \subseteq k + 1 .. m,
         n = IF I # {} THEN Min(I) ELSE 0
  PROVE  \/ n \in I /\ n \in k + 1 .. m /\ \A i \in k + 1 .. n - 1 : i \notin I
         \/ n = 0 /\ I = {}
<1>1. I \subseteq Nat
  OBVIOUS
<1>2. CASE I # {}
  <2>1. n \in I /\ \A j \in I : n <= j
    BY <1>1, <1>2, LeastOf
  <2>2. n \in k + 1 .. m
    BY <2>1
  <2>3. \A i \in k + 1 .. n - 1 : ~(n <= i)
    BY <2>2
  <2> QED BY <2>1, <2>2, <2>3
<1>3. CASE I = {}
  BY <1>3
<1> QED BY <1>2, <1>3

\* The answers of HashGroup
NoInput(o) ==
  /\ op.rows = <<>> /\ ~op.emitted /\ o = [op EXCEPT !.emitted = TRUE]
  /\ IF Enough(NoGroup) THEN Return(NoGroup, read, o) ELSE NoMoreRows(read, o)
GroupsOver ==
  /\ \/ op.rows = <<>> /\ op.emitted
     \/ op.rows # <<>> /\ op.ended
  /\ NoMoreRows(read, op)
LastGroup(o) ==
  /\ op.rows # <<>> /\ ~op.ended /\ o = [op EXCEPT !.pos = Len(op.rows), !.ended = TRUE]
  /\ \A i \in op.pos + 1 .. Len(op.rows) : ~Enough(op.rows[i])
  /\ NoMoreRows(read, o)
NextGroup(n, o) ==
  /\ op.rows # <<>> /\ ~op.ended
  /\ n \in op.pos + 1 .. Len(op.rows) /\ Enough(op.rows[n])
  /\ \A i \in op.pos + 1 .. n - 1 : ~Enough(op.rows[i])
  /\ \/ n = Len(op.rows) /\ o = [op EXCEPT !.pos = Len(op.rows), !.ended = TRUE]
     \/ o = [op EXCEPT !.pos = n] /\ n # Len(op.rows)
  /\ Return(op.rows[n], read, o)

LEMMA HashGroupIs ==
  ASSUME GroupRead, HashGroup
  PROVE  \E o : NoInput(o) \/ GroupsOver \/ LastGroup(o) \/ \E n : NextGroup(n, o)
<1>1. op.rows \in Seq(GroupRow) /\ op.pos \in Nat /\ op.ended \in BOOLEAN /\ op.emitted \in BOOLEAN
  BY DEF GroupRead
<1>2. PICK m \in Nat : m = Len(op.rows)
  BY <1>1
<1>3. PICK I : I = {i \in op.pos + 1 .. Len(op.rows) : Enough(op.rows[i])}
  OBVIOUS
<1>4. PICK n : n = IF I # {} THEN Min(I) ELSE 0
  OBVIOUS
<1>5. \/ n \in I /\ n \in op.pos + 1 .. m /\ \A i \in op.pos + 1 .. n - 1 : i \notin I
      \/ n = 0 /\ I = {}
  <2>1. PICK k \in Nat : k = op.pos
    BY <1>1
  <2>2. I \subseteq k + 1 .. m
    BY <1>2, <1>3, <2>1
  <2>3. \/ n \in I /\ n \in k + 1 .. m /\ \A i \in k + 1 .. n - 1 : i \notin I
        \/ n = 0 /\ I = {}
    BY <1>4, <2>2, SelectAny
  <2> QED BY <2>1, <2>3
<1>6. SelectInSubSeq(op.rows, op.pos + 1, Len(op.rows), LAMBDA g : CountRows(g.tally) >= plan.size) = n
  BY <1>3, <1>4 DEF SelectInSubSeq, Enough
<1>7. CASE op.rows = <<>> /\ ~op.emitted
  <2>1. PICK o : o = [op EXCEPT !.emitted = TRUE]
    OBVIOUS
  <2>2. IF Enough(NoGroup) THEN Return(NoGroup, read, [op EXCEPT !.emitted = TRUE])
        ELSE NoMoreRows(read, [op EXCEPT !.emitted = TRUE])
    BY <1>7 DEF HashGroup, Enough, NoGroup
  <2>3. NoInput(o)
    BY <1>7, <2>1, <2>2 DEF NoInput
  <2> QED BY <2>3
<1>8. CASE op.rows = <<>> /\ op.emitted
  <2>1. NoMoreRows(read, op)
    BY <1>8 DEF HashGroup
  <2>2. GroupsOver
    BY <1>8, <2>1 DEF GroupsOver
  <2> QED BY <2>2
<1>9. CASE op.rows # <<>> /\ op.ended
  <2>1. NoMoreRows(read, op)
    BY <1>9 DEF HashGroup
  <2>2. GroupsOver
    BY <1>9, <2>1 DEF GroupsOver
  <2> QED BY <2>2
<1>10. CASE op.rows # <<>> /\ ~op.ended
  <2>1. PICK e, f : e = [op EXCEPT !.pos = Len(op.rows), !.ended = TRUE] /\ f = [op EXCEPT !.pos = n]
    OBVIOUS
  <2>2. IF n = 0 THEN NoMoreRows(read, [op EXCEPT !.pos = Len(op.rows), !.ended = TRUE])
        ELSE Return(op.rows[n], read,
                    IF n = Len(op.rows) THEN [op EXCEPT !.pos = Len(op.rows), !.ended = TRUE]
                    ELSE [op EXCEPT !.pos = n])
    BY <1>6, <1>10 DEF HashGroup
  <2>3. IF n = 0 THEN NoMoreRows(read, e)
        ELSE Return(op.rows[n], read, IF n = Len(op.rows) THEN e ELSE f)
    BY <2>1, <2>2
  <2>4. CASE n = 0
    <3>1. \A i \in op.pos + 1 .. Len(op.rows) : ~Enough(op.rows[i])
      BY <1>1, <1>3, <1>5, <2>4
    <3>2. LastGroup(e)
      BY <1>10, <2>1, <2>3, <2>4, <3>1 DEF LastGroup
    <3> QED BY <3>2
  <2>5. CASE n # 0
    <3>1. n \in op.pos + 1 .. Len(op.rows) /\ Enough(op.rows[n]) /\ \A i \in op.pos + 1 .. n - 1 : i \notin I
      BY <1>2, <1>3, <1>5, <2>5
    <3>2. \A i \in op.pos + 1 .. n - 1 : ~Enough(op.rows[i])
      <4>1. \A i \in op.pos + 1 .. n - 1 : i \in op.pos + 1 .. Len(op.rows)
        BY <1>1, <1>2, <3>1
      <4> QED BY <1>3, <3>1, <4>1
    <3>3. CASE n = Len(op.rows)
      <4>1. NextGroup(n, e)
        BY <1>10, <2>1, <2>3, <2>5, <3>1, <3>2, <3>3 DEF NextGroup
      <4> QED BY <4>1
    <3>4. CASE n # Len(op.rows)
      <4>1. NextGroup(n, f)
        BY <1>10, <2>1, <2>3, <2>5, <3>1, <3>2, <3>4 DEF NextGroup
      <4> QED BY <4>1
    <3> QED BY <3>3, <3>4
  <2> QED BY <2>4, <2>5
<1> QED BY <1>1, <1>7, <1>8, <1>9, <1>10

LEMMA OpEmitted ==
  ASSUME NEW o, IsOp(o), NEW p, p = [o EXCEPT !.emitted = TRUE]
  PROVE  IsOp(p) /\ p.rows = o.rows /\ p.pos = o.pos /\ p.ended = o.ended /\ p.emitted = TRUE
BY DEF IsOp

LEMMA OpAt ==
  ASSUME NEW o, IsOp(o), NEW x, NEW p, p = [o EXCEPT !.pos = x]
  PROVE  IsOp(p) /\ p.rows = o.rows /\ p.pos = x /\ p.ended = o.ended /\ p.emitted = o.emitted
BY DEF IsOp

LEMMA OpResult ==
  ASSUME NEW o, IsOp(o), NEW x, NEW p, p = [o EXCEPT !.result = x]
  PROVE  IsOp(p) /\ p.result = x
BY DEF IsOp

LEMMA TallyOf == Tally(<<>>) = NoRows /\ NoGroup = [k |-> Null, tally |-> Tally(<<>>)]
<1>1. <<>> \in Seq(Row) /\ Lists(<<>>, {}, <<>>)
  BY ListsNone
<1>2. \A r \in Row : Tally(<<>>)[r] = 0 /\ Tally(<<>>) \in [Row -> Nat]
  <2>1. SUFFICES ASSUME NEW r \in Row PROVE Tally(<<>>)[r] = 0 /\ Tally(<<>>) \in [Row -> Nat]
    OBVIOUS
  <2> QED BY <1>1, FS_EmptySet DEF Tally
<1> QED BY <1>2 DEF NoRows, NoGroup, Tally

LEMMA NoGroupTyped == NoGroup \in GroupRow
<1>1. NoRows \in [Row -> Nat]
  BY DEF NoRows
<1> QED BY <1>1 DEF NoGroup, GroupRow, Null

LEMMA EnoughKept ==
  ASSUME NEW rows, NEW p \in Nat, NEW m \in Nat, p <= m, \A i \in p + 1 .. m : ~Enough(rows[i])
  PROVE  EnoughTo(rows, m) = EnoughTo(rows, p)
<1>1. \A i \in 1 .. m : i \in 1 .. p \/ i \in p + 1 .. m
  OBVIOUS
<1>2. \A i \in 1 .. p : i \in 1 .. m
  OBVIOUS
<1> QED BY <1>1, <1>2 DEF EnoughTo

LEMMA EnoughAlso ==
  ASSUME NEW rows, NEW p \in Nat, NEW m \in Nat, NEW n \in p + 1 .. m, Enough(rows[n]),
         \A i \in p + 1 .. n - 1 : ~Enough(rows[i])
  PROVE  EnoughTo(rows, n) = EnoughTo(rows, p) \cup {n} /\ n \notin EnoughTo(rows, p)
<1>1. \A i \in 1 .. n : i \in 1 .. p \/ i \in p + 1 .. n - 1 \/ i = n
  OBVIOUS
<1>2. \A i \in 1 .. p : i \in 1 .. n
  OBVIOUS
<1>3. n \in 1 .. n /\ n \notin 1 .. p
  OBVIOUS
<1> QED BY <1>1, <1>2, <1>3 DEF EnoughTo

LEMMA GroupHash ==
  ASSUME GroupInv, HashGroup
  PROVE  GroupInv'
<1>1. plan.kind = "group" /\ pc = "reading" /\ pass # 0 /\ plan \in Plan /\ pass \in Nat
  BY DEF HashGroup, Asked, GroupInv
<1>2. plan' = plan /\ outer' = outer /\ pass' = pass /\ pc' \in {"reading", "end"}
  <2>1. \E r, n, o : Return(r, n, o) \/ NoMoreRows(n, o)
    BY DEF HashGroup
  <2> QED BY <1>1, <2>1 DEF Return, NoMoreRows
<1>3. CASE ~(plan.use = "again" /\ pass = 1)
  BY <1>1, <1>2, <1>3 DEF GroupInv
<1>4. CASE plan.use = "again" /\ pass = 1
  <2>1. IsOp(op) /\ GroupRead
    BY <1>1, <1>4 DEF GroupInv
  <2>2. Left' = Left
    BY <1>2, ChildrenKept
  <2>3. /\ op.rows \in Seq(GroupRow) /\ Lists(op.rows, KeysOf(Left, DOMAIN Left), GroupFor(Left))
        /\ op.pos \in Nat /\ op.pos <= Len(op.rows) /\ out \in Seq(GroupRow)
        /\ op.ended \in BOOLEAN /\ op.emitted \in BOOLEAN
        /\ op.rows # <<>> => /\ Lists(out, EnoughTo(op.rows, op.pos), op.rows)
                             /\ (op.ended \/ pc = "end") => op.pos = Len(op.rows)
        /\ op.rows = <<>> => /\ out = IF op.emitted /\ Enough(NoGroup) THEN <<NoGroup>> ELSE <<>>
                             /\ pc = "end" => op.emitted
    BY <2>1 DEF GroupRead
  <2>4. SUFFICES IsOp(op') /\ GroupRead'
    BY <1>1, <1>2, <1>4 DEF GroupInv
  <2>5. PICK o : NoInput(o) \/ GroupsOver \/ LastGroup(o) \/ \E n : NextGroup(n, o)
    BY <2>1, HashGroupIs
  <2>6. PICK m \in Nat : m = Len(op.rows)
    BY <2>3
  <2>7. \A g : Enough(g)' <=> Enough(g)
    BY <1>2 DEF Enough
  <2>8. NoGroup' = NoGroup
    BY DEF NoGroup
  <2>9. CASE NoInput(o)
    <3>1. op.rows = <<>> /\ ~op.emitted /\ o = [op EXCEPT !.emitted = TRUE]
      BY <2>9 DEF NoInput
    <3>2. IsOp(o) /\ o.rows = op.rows /\ o.pos = op.pos /\ o.ended = op.ended /\ o.emitted = TRUE
      BY <2>1, <3>1, OpEmitted
    <3>3. out = <<>>
      BY <2>3, <3>1
    <3>4. NoGroup \in GroupRow
      BY NoGroupTyped
    <3>5. op' = o /\ out' \in Seq(GroupRow) /\ out' = IF Enough(NoGroup) THEN <<NoGroup>> ELSE <<>>
      <4>1. CASE Enough(NoGroup)
        <5>1. Return(NoGroup, read, o)
          BY <2>9, <4>1 DEF NoInput
        <5>2. out' = Append(out, NoGroup) /\ op' = o
          BY <5>1 DEF Return
        <5> QED BY <3>3, <3>4, <4>1, <5>2
      <4>2. CASE ~Enough(NoGroup)
        <5>1. NoMoreRows(read, o)
          BY <2>9, <4>2 DEF NoInput
        <5>2. out' = out /\ op' = o
          BY <5>1 DEF NoMoreRows
        <5> QED BY <2>3, <3>3, <4>2, <5>2
      <4> QED BY <4>1, <4>2
    <3>6. op'.rows = <<>> /\ op'.emitted = TRUE /\ op'.ended = op.ended /\ op'.pos = op.pos /\ IsOp(op') /\ op'.rows = op.rows
      BY <3>1, <3>2, <3>5
    <3>7. out' = IF op'.emitted /\ Enough(NoGroup)' THEN <<NoGroup'>> ELSE <<>>
      BY <2>7, <2>8, <3>5, <3>6
    <3>8. Lists(op.rows, KeysOf(Left, DOMAIN Left), GroupFor(Left))'
      BY <2>2, <2>3, <3>6
    <3> QED BY <2>3, <3>5, <3>6, <3>7, <3>8 DEF GroupRead
  <2>10. CASE GroupsOver
    <3>1. op' = op /\ out' = out /\ pc' = "end"
      BY <2>10 DEF GroupsOver, NoMoreRows
    <3>2. (op.rows = <<>> /\ op.emitted) \/ (op.rows # <<>> /\ op.ended)
      BY <2>10 DEF GroupsOver
    <3>3. Lists(op.rows, KeysOf(Left, DOMAIN Left), GroupFor(Left))'
      BY <2>2, <2>3, <3>1
    <3>4. EnoughTo(op.rows, op.pos)' = EnoughTo(op.rows, op.pos)
      BY <1>2, <3>1 DEF EnoughTo, Enough
    <3>5. op.rows # <<>> => Lists(out, EnoughTo(op.rows, op.pos), op.rows)' /\ op.pos = Len(op.rows)
      BY <2>3, <3>1, <3>2, <3>4
    <3>6. op.rows = <<>> => out' = (IF op'.emitted /\ Enough(NoGroup)' THEN <<NoGroup'>> ELSE <<>>) /\ op.emitted
      BY <2>3, <2>7, <2>8, <3>1, <3>2
    <3> QED BY <2>1, <2>3, <3>1, <3>3, <3>5, <3>6 DEF GroupRead
  <2>11. CASE LastGroup(o)
    <3>1. op.rows # <<>> /\ o = [op EXCEPT !.pos = m, !.ended = TRUE] /\ op' = o /\ out' = out
      BY <2>6, <2>11 DEF LastGroup, NoMoreRows
    <3>2. IsOp(op') /\ op'.rows = op.rows /\ op'.pos = m /\ op'.ended = TRUE /\ op'.emitted = op.emitted
      <4>1. o = [op EXCEPT !.pos = m, !.ended = TRUE] /\ op' = o
        BY <3>1
      <4>2. IsOp(o) /\ o.rows = op.rows /\ o.pos = m /\ o.ended = TRUE /\ o.emitted = op.emitted
        <5>1. PICK q : q = [op EXCEPT !.pos = m]
          OBVIOUS
        <5>2. o = [q EXCEPT !.ended = TRUE]
          BY <4>1, <5>1
        <5>3. IsOp(q) /\ q.rows = op.rows /\ q.pos = m /\ q.emitted = op.emitted
            BY <2>1, <5>1, OpAt
        <5> QED BY <5>2, <5>3 DEF IsOp
      <4> QED BY <4>1, <4>2
    <3>3. \A i \in op.pos + 1 .. m : ~Enough(op.rows[i])
      BY <2>6, <2>11 DEF LastGroup
    <3>4. EnoughTo(op.rows, m) = EnoughTo(op.rows, op.pos)
      BY <2>3, <2>6, <3>3, EnoughKept
    <3>5. EnoughTo(op.rows, op.pos)' = EnoughTo(op.rows, m)
      BY <1>2, <3>2 DEF EnoughTo, Enough
    <3>6. Lists(op.rows, KeysOf(Left, DOMAIN Left), GroupFor(Left))'
      BY <2>2, <2>3, <3>2
    <3>7. Lists(out, EnoughTo(op.rows, op.pos), op.rows)'
      BY <2>3, <3>1, <3>2, <3>4, <3>5
    <3>8. op'.pos = Len(op'.rows) /\ op'.pos \in Nat /\ op'.pos <= Len(op'.rows)
      BY <2>6, <3>2
    <3> QED BY <2>3, <3>1, <3>2, <3>6, <3>7, <3>8 DEF GroupRead
  <2>12. CASE \E n : NextGroup(n, o)
    <3>1. PICK n : NextGroup(n, o)
      BY <2>12
    <3>2. op.rows # <<>> /\ ~op.ended /\ n \in op.pos + 1 .. m /\ Enough(op.rows[n])
          /\ \A i \in op.pos + 1 .. n - 1 : ~Enough(op.rows[i])
      BY <2>6, <3>1 DEF NextGroup
    <3>3. op' = o /\ pc' = pc
      BY <3>1 DEF NextGroup, Return
    <3>4. out' = Append(out, op.rows[n])
      BY <3>1 DEF NextGroup, Return
    <3>5. n \in Nat /\ n <= m
      BY <2>3, <2>6, <3>2
    <3>6. IsOp(op') /\ op'.rows = op.rows /\ op'.pos = n /\ op'.emitted = op.emitted
          /\ op'.ended \in BOOLEAN /\ (op'.ended => n = m)
      <4>1. CASE n = m /\ o = [op EXCEPT !.pos = m, !.ended = TRUE]
        <5>1. o = [op EXCEPT !.pos = m, !.ended = TRUE]
          BY <4>1
        <5>2. IsOp(o) /\ o.rows = op.rows /\ o.pos = m /\ o.ended = TRUE /\ o.emitted = op.emitted
          <6>1. PICK q : q = [op EXCEPT !.pos = m]
            OBVIOUS
          <6>2. o = [q EXCEPT !.ended = TRUE]
            BY <5>1, <6>1
          <6>3. IsOp(q) /\ q.rows = op.rows /\ q.pos = m /\ q.emitted = op.emitted
              BY <2>1, <6>1, OpAt
          <6> QED BY <6>2, <6>3 DEF IsOp
        <5>3. op' = o /\ n = m
          BY <3>3, <4>1
        <5> QED BY <5>2, <5>3
      <4>2. CASE o = [op EXCEPT !.pos = n]
        <5>1. IsOp(o) /\ o.rows = op.rows /\ o.pos = n /\ o.ended = op.ended /\ o.emitted = op.emitted
          BY <2>1, <4>2, OpAt
        <5>2. op' = o /\ op.ended = FALSE
          BY <2>3, <3>2, <3>3
        <5> QED BY <5>1, <5>2
      <4> QED BY <2>6, <3>1, <4>1, <4>2 DEF NextGroup
    <3>7. EnoughTo(op.rows, n) = EnoughTo(op.rows, op.pos) \cup {n} /\ n \notin EnoughTo(op.rows, op.pos)
      BY <2>3, <3>2, EnoughAlso
    <3>8. op.rows[n] \in GroupRow
      BY <2>3, <2>6, <3>2
    <3>9. out' \in Seq(GroupRow) /\ Lists(out', EnoughTo(op.rows, n), op.rows)
      <4>1. Lists(out, EnoughTo(op.rows, op.pos), op.rows)
        BY <2>3, <3>2
      <4>2. PICK S, g : S = EnoughTo(op.rows, op.pos) /\ g = op.rows
        OBVIOUS
      <4>3. Append(out, g[n]) \in Seq(GroupRow) /\ Lists(Append(out, g[n]), S \cup {n}, g)
        BY <2>3, <3>7, <3>8, <4>1, <4>2, ListsNext
      <4> QED BY <3>4, <3>7, <4>2, <4>3
    <3>10. EnoughTo(op.rows, op.pos)' = EnoughTo(op.rows, n)
      BY <1>2, <3>6 DEF EnoughTo, Enough
    <3>11. Lists(op.rows, KeysOf(Left, DOMAIN Left), GroupFor(Left))'
      BY <2>2, <2>3, <3>6
    <3>12. Lists(out, EnoughTo(op.rows, op.pos), op.rows)'
      BY <3>6, <3>9, <3>10
    <3>13. op'.pos \in Nat /\ op'.pos <= Len(op'.rows) /\ (op'.ended \/ pc' = "end" => op'.pos = Len(op'.rows))
      BY <1>1, <2>6, <3>3, <3>5, <3>6
    <3> QED BY <2>3, <3>2, <3>6, <3>9, <3>11, <3>12, <3>13 DEF GroupRead
  <2> QED BY <2>5, <2>9, <2>10, <2>11, <2>12
<1> QED BY <1>3, <1>4

LEMMA GroupScalar ==
  ASSUME GroupInv, ScalarGroup
  PROVE  GroupInv'
<1>1. plan.kind = "scalar" /\ pc = "reading" /\ pass # 0 /\ plan \in Plan /\ pass \in Nat
  BY DEF ScalarGroup, Asked, GroupInv
<1>2. plan' = plan /\ outer' = outer /\ pass' = pass /\ pc' \in {"reading", "end"}
  <2>1. \E r, n, o : Return(r, n, o) \/ NoMoreRows(n, o)
    BY DEF ScalarGroup
  <2> QED BY <1>1, <2>1 DEF Return, NoMoreRows
<1>3. CASE ~(plan.use = "again" /\ pass = 1)
  BY <1>1, <1>2, <1>3 DEF GroupInv
<1>4. CASE plan.use = "again" /\ pass = 1
  <2>1. IsOp(op) /\ ScalarRead
    BY <1>1, <1>4 DEF GroupInv
  <2>2. WholeGroup' = WholeGroup
    <3>1. Left' = Left
      BY <1>2, ChildrenKept
    <3> QED BY <3>1 DEF WholeGroup
  <2>3. \A g : Enough(g)' <=> Enough(g)
    BY <1>2 DEF Enough
  <2>4. SUFFICES IsOp(op') /\ ScalarRead'
    BY <1>1, <1>2, <1>4 DEF GroupInv
  <2>5. PICK w, r : w = WholeGroup /\ r = op.result
    OBVIOUS
  <2>6. PICK e : e = Enough(w)
    OBVIOUS
  <2>7. SUFFICES /\ IsOp(op')
                 /\ \/ out' = <<>> /\ op'.result = <<w>> /\ (pc' = "end" => ~e)
                    \/ out' = <<w>> /\ op'.result = <<>> /\ e
    <3>1. WholeGroup' = w /\ (Enough(WholeGroup)' <=> e)
      <4>1. (Enough(WholeGroup))' <=> Enough(w)
        BY <1>2, <2>2, <2>5 DEF Enough
      <4>2. Enough(w) <=> e
        BY <2>6
      <4> QED BY <2>2, <2>5, <4>1, <4>2
    <3> QED BY <3>1 DEF ScalarRead
  <2>8. \/ out = <<>> /\ r = <<w>>
        \/ out = <<w>> /\ r = <<>> /\ e
    BY <1>1, <2>1, <2>5, <2>6 DEF ScalarRead
  <2>9. CASE out = <<>> /\ r = <<w>>
    <3>1. op.result # <<>> /\ op.result[1] = w
      BY <2>5, <2>9
    <3>2. CASE e
      <4>1. PICK o : o = [op EXCEPT !.result = <<>>]
        OBVIOUS
      <4>2. Return(w, read, o)
        BY <2>6, <3>1, <3>2, <4>1 DEF ScalarGroup, Enough
      <4>3. IsOp(o) /\ o.result = <<>>
        BY <2>1, <4>1, OpResult
      <4>4. out' = Append(out, w) /\ op' = o
        BY <4>2 DEF Return
      <4> QED BY <2>9, <3>2, <4>3, <4>4
    <3>3. CASE ~e
      <4>1. NoMoreRows(read, op)
        BY <2>6, <3>1, <3>3 DEF ScalarGroup, Enough
      <4>2. op' = op /\ out' = out
        BY <4>1 DEF NoMoreRows
      <4> QED BY <2>1, <2>5, <2>9, <3>3, <4>2
    <3> QED BY <3>2, <3>3
  <2>10. CASE out = <<w>> /\ r = <<>> /\ e
    <3>1. NoMoreRows(read, op)
      BY <2>5, <2>10 DEF ScalarGroup
    <3>2. op' = op /\ out' = out
      BY <3>1 DEF NoMoreRows
    <3> QED BY <2>1, <2>5, <2>10, <3>2
  <2> QED BY <2>8, <2>9, <2>10
<1> QED BY <1>3, <1>4

LEMMA GroupOthers ==
  ASSUME GroupInv,
         \/ TableScan \/ UnionAll \/ HashDistinct \/ HashUnion \/ HashExcept \/ HashIntersect
         \/ HashJoin \/ HashNullAwareAntiJoin \/ NestedLoopJoin \/ NestedLoopSemi \/ Sort \/ TopNSort \/ Limit
  PROVE  GroupInv'
<1>1. plan.kind \notin {"group", "scalar"} /\ pc = "reading"
  BY DEF TableScan, UnionAll, ReadChild, HashDistinct, HashUnion, HashExcept, ReadNew, HashIntersect,
         HashJoin, HashNullAwareAntiJoin, NestedLoopJoin, NestedLoopSemi, Sort, TopNSort, NextOf, Limit, Asked
<1>2. plan' = plan /\ pass' = pass /\ pc' \in {"reading", "end"}
  <2>1. \E r, n, o : Return(r, n, o) \/ NoMoreRows(n, o)
    <3>1. CASE HashJoin
      <4>1. PICK d : d = op.queue
        OBVIOUS
      <4> QED BY <3>1 DEF HashJoin
    <3>2. CASE NestedLoopJoin \/ NestedLoopSemi \/ HashNullAwareAntiJoin
      BY <3>2 DEF NestedLoopJoin, NestedLoopSemi, HashNullAwareAntiJoin, NextOf
    <3>3. CASE TableScan \/ UnionAll \/ HashDistinct \/ HashUnion \/ HashExcept \/ HashIntersect
               \/ Sort \/ TopNSort \/ Limit
      BY <3>3 DEF TableScan, UnionAll, ReadChild, HashDistinct, HashUnion, HashExcept, ReadNew, HashIntersect,
           Sort, TopNSort, NextOf, Limit
    <3> QED BY <3>1, <3>2, <3>3
  <2> QED BY <1>1, <2>1 DEF Return, NoMoreRows
<1>3. plan \in Plan /\ pass \in Nat /\ pass # 0
  BY <1>1 DEF GroupInv
<1> QED BY <1>1, <1>2, <1>3 DEF GroupInv

LEMMA GroupNext == GroupInv /\ [Next]_vars => GroupInv'
<1>1. SUFFICES ASSUME GroupInv, [Next]_vars PROVE GroupInv'
  OBVIOUS
<1>2. CASE UNCHANGED vars
  <2>1. plan' = plan /\ outer' = outer /\ pc' = pc /\ pass' = pass /\ read' = read /\ op' = op /\ out' = out
    BY <1>2 DEF vars
  <2>2. Left' = Left
    BY <2>1, ChildrenKept
  <2>3. GroupRead' <=> GroupRead
    BY <2>1, <2>2 DEF GroupRead, EnoughTo, Enough, NoGroup
  <2>4. ScalarRead' <=> ScalarRead
    BY <2>1, <2>2 DEF ScalarRead, WholeGroup, Enough
  <2> QED BY <1>1, <2>1, <2>3, <2>4 DEF GroupInv
<1>3. CASE Next
  BY <1>1, <1>3, GroupOpen, GroupReset, GroupLeft, GroupHash, GroupScalar, GroupOthers DEF Next
<1> QED BY <1>1, <1>2, <1>3

\* A set listed by itself
ListsSet(s, T) == Lists(s, T, [y \in T |-> y])

\* T has the g[x] for x of S, all different
ImageOf(T, S, g) ==
  /\ \A x \in S : g[x] \in T
  /\ \A y \in T : \E x \in S : y = g[x]
  /\ \A x, y \in S : g[x] = g[y] => x = y

LEMMA ListsImage ==
  ASSUME NEW V, NEW s \in Seq(V), NEW S, NEW g, Lists(s, S, g), NEW T, ImageOf(T, S, g)
  PROVE  ListsSet(s, T)
<1>1. PICK f : ListsBy(f, s, S, g)
  BY DEF Lists
<1>2. /\ f \in [DOMAIN s -> S] /\ \A i, j \in DOMAIN s : f[i] = f[j] => i = j
      /\ \A x \in S : \E i \in DOMAIN s : f[i] = x
      /\ \A i \in DOMAIN s : s[i] = g[f[i]]
  BY <1>1 DEF ListsBy
<1>3. PICK n \in Nat : DOMAIN s = 1 .. n /\ s \in [1 .. n -> V]
  OBVIOUS
<1>4. \A i \in DOMAIN s : s[i] \in T
  BY <1>2 DEF ImageOf
<1>5. s \in [DOMAIN s -> T]
  BY <1>3, <1>4
<1>6. \A i, j \in DOMAIN s : s[i] = s[j] => i = j
  BY <1>2 DEF ImageOf
<1>7. \A y \in T : \E i \in DOMAIN s : s[i] = y
  BY <1>2 DEF ImageOf
<1>8. PICK h : h = [y \in T |-> y]
  OBVIOUS
<1>9. \A i \in DOMAIN s : s[i] = h[s[i]]
  BY <1>4, <1>8
<1>10. ListsBy(s, s, T, h)
  BY <1>5, <1>6, <1>7, <1>9 DEF ListsBy
<1>11. Lists(s, T, h)
  BY <1>10 DEF Lists
<1> QED BY <1>8, <1>11 DEF ListsSet

LEMMA SetAnswers ==
  ASSUME NEW V, out \in Seq(V), NEW T, ListsSet(out, T)
  PROVE  Returned(T, LAMBDA g : g)
<1>1. PICK h : h = [y \in T |-> y]
  OBVIOUS
<1>2. Len(out) = Cardinality(T) /\ \A e : Occurrences(out, e) = Cardinality({x \in T : h[x] = e})
  BY <1>1, ListsCounted DEF ListsSet
<1>3. \A e : {x \in T : h[x] = e} = {x \in T : x = e}
  BY <1>1
<1>4. \A e : Occurrences(out, e) = Cardinality({x \in T : x = e})
  BY <1>2, <1>3
<1> QED BY <1>2, <1>4 DEF Returned

\* Nothing, or one row if there is enough of it
LEMMA OneAnswer ==
  ASSUME NEW w \in GroupRow, out = IF Enough(w) THEN <<w>> ELSE <<>>,
         NEW T, T = {g \in {w} : CountRows(g.tally) >= plan.size}
  PROVE  Returned(T, LAMBDA g : g)
<1>1. out \in Seq(GroupRow)
  OBVIOUS
<1>2. PICK h : h = [y \in T |-> y]
  OBVIOUS
<1>3. CASE Enough(w)
  <2>1. T = {w} /\ h[w] = w /\ out = <<w>>
    BY <1>2, <1>3 DEF Enough
  <2>2. Lists(<<h[w]>>, {w}, h)
    BY <2>1, ListsOne
  <2>3. ListsSet(out, T)
    BY <1>2, <2>1, <2>2 DEF ListsSet
  <2> QED BY <1>1, <2>3, SetAnswers
<1>4. CASE ~Enough(w)
  <2>1. T = {} /\ out = <<>>
    BY <1>4 DEF Enough
  <2>2. ListsSet(out, T)
    BY <2>1, ListsNone DEF ListsSet
  <2> QED BY <1>1, <2>2, SetAnswers
<1> QED BY <1>3, <1>4

LEMMA TallyAll ==
  ASSUME NEW s \in Seq(Row), NEW P, P \cap DOMAIN s = DOMAIN s
  PROVE  Tally(Only(s, P)) = Tally(s)
<1>1. PICK u \in Seq(Row) : u = Only(s, P)
  BY OnlyTyped
<1>2. Lists(u, DOMAIN s, s)
  BY <1>1, OnlyLists
<1>3. Lists(s, DOMAIN s, s)
  BY ListsAll
<1> QED BY <1>1, <1>2, <1>3, TallyIs

LEMMA WholeGroupTyped ==
  ASSUME plan \in Plan
  PROVE  WholeGroup \in GroupRow
<1>1. Left \in Seq(Row)
  BY JoinChildren
<1>2. Tally(Left) \in [Row -> Nat]
  BY <1>1, TallyTyped
<1> QED BY <1>2 DEF WholeGroup, GroupRow, Null

\* The groups GroupsExact speaks of, when there is input
LEMMA GroupsAsked ==
  ASSUME NEW s \in Seq(Row), NEW rows \in Seq(GroupRow), rows # <<>>,
         Lists(rows, KeysOf(s, DOMAIN s), GroupFor(s)),
         NEW t, Lists(t, EnoughTo(rows, Len(rows)), rows), t \in Seq(GroupRow),
         NEW T, T = {g \in {GroupFor(s)[key] : key \in KeysOf(s, DOMAIN s)} : CountRows(g.tally) >= plan.size}
  PROVE  s # <<>> /\ ListsSet(t, T)
<1>1. PICK K \in SUBSET Nat : K = KeysOf(s, DOMAIN s)
  BY KeysTyped
<1>2. PICK G : G = GroupFor(s)
  OBVIOUS
<1>3. \A key \in Nat : G[key] \in GroupRow /\ G[key].k = key
  BY <1>2, GroupTyped
<1>4. PICK n \in Nat : n = Len(rows) /\ DOMAIN rows = 1 .. n
  OBVIOUS
<1>5. PICK P \in SUBSET DOMAIN rows : P = EnoughTo(rows, Len(rows))
  BY <1>4 DEF EnoughTo
<1>6. PICK C : C = {g \in GroupRow : Enough(g)}
  OBVIOUS
<1>7. \A j \in DOMAIN rows : j \in P <=> rows[j] \in C
  BY <1>4, <1>5, <1>6 DEF EnoughTo
<1>8. PICK U \in SUBSET K : U = {key \in K : Enough(G[key])}
  OBVIOUS
<1>9. \A x \in K : x \in U <=> G[x] \in C
  BY <1>3, <1>6, <1>8
<1>10. Lists(rows, K, G) /\ Lists(t, P, rows)
  BY <1>1, <1>2, <1>5
<1>11. Lists(t, U, G)
  BY <1>7, <1>9, <1>10, ListsSome
<1>12. \A x, y \in U : G[x] = G[y] => x = y
  BY <1>3, <1>8
<1>13. T = {G[x] : x \in U}
  BY <1>1, <1>2, <1>8 DEF Enough
<1>14. ListsSet(t, T)
  <2>1. ImageOf(T, U, G)
    BY <1>12, <1>13 DEF ImageOf
  <2> QED BY <1>11, <2>1, ListsImage
<1>15. s # <<>>
  <2>1. SUFFICES ASSUME s = <<>> PROVE FALSE
    OBVIOUS
  <2>2. K = {}
    BY <1>1, <2>1 DEF KeysOf
  <2>3. Len(rows) = 0
    BY <1>10, <2>2, ListsCounted, FS_EmptySet
  <2> QED BY <2>3
<1> QED BY <1>14, <1>15

LEMMA GroupAnswered == GroupInv => GroupsExact
<1>1. SUFFICES ASSUME GroupInv, pc = "end", pass = 1, plan.use = "again", plan.kind \in {"group", "scalar"}
               PROVE  GroupsExact
  BY DEF GroupsExact
<1>2. plan \in Plan /\ Left \in Seq(Row) /\ DOMAIN Left = 1 .. Len(Left)
  BY <1>1, JoinChildren DEF GroupInv
<1>3. plan.kind = "group" => GroupRead
  BY <1>1 DEF GroupInv
<1>4. plan.kind = "scalar" => ScalarRead
  BY <1>1 DEF GroupInv
<1> DEFINE keys == IF Left = <<>> \/ plan.kind = "scalar" THEN {Null} ELSE {r.k : r \in ToSet(Left)}
           Member(key, r) == plan.kind = "scalar" \/ r.k = key
           groups == {[k |-> key, tally |-> Tally(Only(Left, {i \in DOMAIN Left : Member(key, Left[i])}))]
                        : key \in keys}
<1>5. Returned({g \in groups : CountRows(g.tally) >= plan.size}, LAMBDA g : g)
  <2>1. PICK T : T = {g \in groups : CountRows(g.tally) >= plan.size}
    OBVIOUS
  <2>2. CASE plan.kind = "scalar"
    <3>1. out = IF Enough(WholeGroup) THEN <<WholeGroup>> ELSE <<>>
      BY <1>1, <1>4, <2>2 DEF ScalarRead
    <3>2. groups = {[k |-> Null, tally |-> Tally(Only(Left, DOMAIN Left))]}
      <4>1. keys = {Null}
        BY <2>2
      <4>2. \A key : {i \in DOMAIN Left : Member(key, Left[i])} = DOMAIN Left
        BY <2>2
      <4> HIDE DEF Member, keys
      <4> QED BY <4>1, <4>2
    <3>3. Tally(Only(Left, DOMAIN Left)) = Tally(Left)
      BY <1>2, TallyAll
    <3>4. groups = {WholeGroup}
      BY <3>2, <3>3 DEF WholeGroup
    <3>5. T = {g \in {WholeGroup} : CountRows(g.tally) >= plan.size}
      BY <2>1, <3>4
    <3>6. WholeGroup \in GroupRow
      BY <1>2, WholeGroupTyped
    <3>7. Returned(T, LAMBDA g : g)
      BY <3>1, <3>5, <3>6, OneAnswer
    <3> QED BY <2>1, <3>7
  <2>3. CASE plan.kind = "group" /\ op.rows = <<>>
    <3>1. out = IF Enough(NoGroup) THEN <<NoGroup>> ELSE <<>>
      BY <1>1, <1>3, <2>3 DEF GroupRead
    <3>2. KeysOf(Left, DOMAIN Left) = {}
      BY <1>3, <2>3, ListsNothing DEF GroupRead
    <3>3. Left = <<>>
      <4>1. DOMAIN Left = {}
        BY <3>2 DEF KeysOf
      <4> QED BY <1>2, <4>1
    <3>4. groups = {[k |-> Null, tally |-> Tally(Only(Left, {i \in DOMAIN Left : Member(Null, Left[i])}))]}
      <4>1. keys = {Null}
        BY <3>3
      <4> HIDE DEF Member, keys
      <4> QED BY <4>1
    <3>5. Tally(Only(Left, {i \in DOMAIN Left : Member(Null, Left[i])})) = Tally(Left)
      <4>1. PICK P : P = {i \in DOMAIN Left : Member(Null, Left[i])}
        OBVIOUS
      <4>2. P \cap DOMAIN Left = DOMAIN Left
        BY <3>3
      <4>3. Tally(Only(Left, P)) = Tally(Left)
        BY <1>2, <4>2, TallyAll
      <4> QED BY <4>1, <4>3
    <3>6. groups = {NoGroup}
      BY <3>3, <3>4, <3>5, TallyOf
    <3>7. T = {g \in {NoGroup} : CountRows(g.tally) >= plan.size}
      BY <2>1, <3>6
    <3>8. Returned(T, LAMBDA g : g)
      BY <3>1, <3>7, NoGroupTyped, OneAnswer
    <3> QED BY <2>1, <3>8
  <2>4. CASE plan.kind = "group" /\ op.rows # <<>>
    <3>1. PICK rows \in Seq(GroupRow) : rows = op.rows
      BY <1>3, <2>4 DEF GroupRead
    <3>2. /\ rows # <<>> /\ Lists(rows, KeysOf(Left, DOMAIN Left), GroupFor(Left))
          /\ out \in Seq(GroupRow) /\ Lists(out, EnoughTo(rows, Len(rows)), rows)
      BY <1>1, <1>3, <2>4, <3>1 DEF GroupRead
    <3>3. PICK G : G = {GroupFor(Left)[key] : key \in KeysOf(Left, DOMAIN Left)}
      OBVIOUS
    <3>4. PICK U : U = {g \in G : CountRows(g.tally) >= plan.size}
      OBVIOUS
    <3>5. Left # <<>> /\ ListsSet(out, U)
      BY <1>2, <3>2, <3>3, <3>4, GroupsAsked
    <3>6. keys = KeysOf(Left, DOMAIN Left) /\ keys \subseteq Nat
      BY <1>2, <2>4, <3>5, KeysTyped
    <3>7. \A key \in keys : [k |-> key, tally |-> Tally(Only(Left, {i \in DOMAIN Left : Member(key, Left[i])}))]
                            = GroupFor(Left)[key]
      <4>1. \A key \in keys : {i \in DOMAIN Left : Member(key, Left[i])} = RowsWith(Left, DOMAIN Left, key)
        BY <2>4 DEF RowsWith
      <4>2. \A key \in keys : GroupFor(Left)[key]
                              = [k |-> key, tally |-> Tally(Only(Left, RowsWith(Left, DOMAIN Left, key)))]
        BY <3>6 DEF GroupFor
      <4> HIDE DEF Member, keys
      <4> QED BY <4>1, <4>2
    <3>8. groups = G
      <4> HIDE DEF Member, keys
      <4> QED BY <3>3, <3>6, <3>7
    <3>9. T = U
      BY <2>1, <3>4, <3>8
    <3>10. Returned(T, LAMBDA g : g)
      BY <3>2, <3>5, <3>9, SetAnswers
    <3> QED BY <2>1, <3>10
  <2> QED BY <1>1, <2>2, <2>3, <2>4
<1> QED BY <1>5, Zenon DEF GroupsExact

(* Theorem: a query with GROUP BY or aggregates that is not correlated      *)
(* returns one row per value of the key, NULL among them, over exactly the  *)
(* rows with that key, whichever groups share buckets and whichever HAVING  *)
(* skips; without input, one row over nothing.                              *)
THEOREM ReturnsGroups == Spec => []GroupsExact
<1>1. GroupInv /\ [Next]_vars => GroupInv'
  BY GroupNext
<1> QED BY <1>1, GroupInit, GroupAnswered, PTL DEF Spec
=============================================================================
