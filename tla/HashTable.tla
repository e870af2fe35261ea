----------------------------- MODULE HashTable -----------------------------
(***************************************************************************)
(* Rows of a query with two columns, and the hash table of the operators   *)
(* (common/hash_table.cpp).  Column k is what a query joins, groups and    *)
(* sorts by and may be NULL; column v is the rest of the row.  The hash    *)
(* functions are constants: different rows may share a bucket.             *)
(***************************************************************************)
EXTENDS Integers, Sequences, SequencesExt

CONSTANTS
  Row,      \* records with fields k and v
  Buckets,  \* number of buckets
  RowHash,  \* the bucket of a row, when all its columns are hashed
  KeyHash   \* the bucket of a row, when k is hashed

Null == 0

ASSUME HashAssumption ==
  /\ Buckets \in Nat \ {0}
  /\ Row \subseteq [k : Nat, v : Nat]
  /\ RowHash \in [Row -> 1 .. Buckets]
  /\ KeyHash \in [Row -> 1 .. Buckets]
  /\ \A r, s \in Row : r.k = s.k => KeyHash[r] = KeyHash[s]

Table == [1 .. Buckets -> Seq(Row)]
NewTable == [b \in 1 .. Buckets |-> <<>>]

\* What is NULL equals nothing
KeyEqual(l, r) == l.k # Null /\ r.k # Null /\ l.k = r.k
KeyLess(l, r) == l.k # Null /\ r.k # Null /\ l.k < r.k

\* do_anti_equal, the condition of NOT IN: NULL may be anything
AntiEqual(l, r) == l.k = Null \/ r.k = Null \/ l.k = r.k

\* HashTable::equal: column after column, and the first pair of NULLs
\* decides that the rows are equal
Equal(l, r) ==
  \/ l.k = Null /\ r.k = Null
  \/ KeyEqual(l, r) /\ l.v = r.v

\* The members of s at the positions in P
Only(s, P) ==
  LET taken[i \in 0 .. Len(s)] ==
        IF i = 0 THEN <<>> ELSE IF i \in P THEN Append(taken[i - 1], s[i]) ELSE taken[i - 1]
  IN  taken[Len(s)]

\* build: the table, and the table after each row of s
Build(t, hash, r) == [t EXCEPT ![hash[r]] = Append(@, r)]
Building(t, hash, s) ==
  LET built[i \in 0 .. Len(s)] == IF i = 0 THEN t ELSE Build(built[i - 1], hash, s[i])
  IN  built
BuildAll(t, hash, s) == Building(t, hash, s)[Len(s)]

\* probe for an equal row
Probe(t, r) == \E i \in DOMAIN t[RowHash[r]] : Equal(t[RowHash[r]][i], r)

\* The rows of s the table does not hold yet are added to it
AddNew(t, r) == IF Probe(t, r) THEN t ELSE Build(t, RowHash, r)
Adding(t, s) ==
  LET added[i \in 0 .. Len(s)] == IF i = 0 THEN t ELSE AddNew(added[i - 1], s[i])
  IN  added
BuildNew(t, s) == Adding(t, s)[Len(s)]

\* probe for the rows that join with r
MatchesIn(bucket, r) == {i \in DOMAIN bucket : KeyEqual(bucket[i], r)}
Matches(t, r) == Only(t[KeyHash[r]], MatchesIn(t[KeyHash[r]], r))

\* probe_and_drop: of a semi join, and of NOT IN
Drop(t, r) == [t EXCEPT ![KeyHash[r]] = Only(@, DOMAIN @ \ MatchesIn(@, r))]
DropAnti(t, r) == [t EXCEPT ![KeyHash[r]] = Only(@, {i \in DOMAIN @ : ~AntiEqual(@[i], r)})]
Dropping(t, s) ==
  LET left[i \in 0 .. Len(s)] == IF i = 0 THEN t ELSE DropAnti(left[i - 1], s[i])
  IN  left
DropAll(t, s) == Dropping(t, s)[Len(s)]

\* The rows bucket by bucket: begin_bucket, next_none_empty_bucket
Rows(t) == FlattenSeq(t)

\* clear: its only statement is commented out
Clear(t) == t

\* How often each row occurs in a sequence
Tally(s) == [r \in Row |-> Cardinality({i \in DOMAIN s : s[i] = r})]
Plus(t, s) == [r \in Row |-> t[r] + Tally(s)[r]]
NoRows == [r \in Row |-> 0]
CountRows(t) == FoldFunction(LAMBDA a, b : a + b, 0, t)

\* mutant: a bucket is taken for a group
GroupsOfBucket(bucket) ==
  IF bucket = <<>> THEN <<>> ELSE <<[k |-> bucket[1].k, tally |-> Tally(bucket)]>>

\* sort_bucket, and the groups of equal keys HashGroup finds in a bucket
GroupsOf(bucket) ==
  LET keys == CHOOSE s \in SetToSeqs({r.k : r \in ToSet(bucket)}) :
                \A i, j \in DOMAIN s : i < j => s[i] < s[j]
  IN [i \in DOMAIN keys |->
        [k |-> keys[i], tally |-> Tally(Only(bucket, {j \in DOMAIN bucket : bucket[j].k = keys[i]}))]]
Groups(t) == FlattenSeq([b \in 1 .. Buckets |-> GroupsOf(t[b])])
=============================================================================
