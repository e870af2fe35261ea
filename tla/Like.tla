-------------------------------- MODULE Like --------------------------------
(***************************************************************************)
(* LIKE as common/obj_varchar.cpp decides it.  A string is a sequence of   *)
(* characters, positions are those of the C code (from 0), and the         *)
(* terminator is the character 0.  kmp_next fills its table by the         *)
(* position in the pattern, kmp reads it by the number of characters       *)
(* matched, and the cells that were not filled hold what the stack held:   *)
(* junk.                                                                   *)
(***************************************************************************)
EXTENDS Integers, Sequences, SequencesExt, FiniteSetsExt

Percent == 37

At(s, i) == IF i < Len(s) THEN s[i + 1] ELSE 0

\* begin_with: the characters it passes, and what it answers.  It answers
\* true as soon as either string has ended.
Passed(s, p) ==
  Min({n \in 0 .. Min({Len(s), Len(p)}) :
         n = Len(s) \/ n = Len(p) \/ At(p, n) = Percent \/ At(s, n) # At(p, n)})
BeginWith(s, p) ==
  LET n == Passed(s, p) IN n = Len(s) \/ n = Len(p) \/ At(p, n) = Percent

\* end_width, on what begin_with has left from position n on
PassedBack(s, p, n) ==
  Min({m \in 0 .. Max({0, Min({Len(s), Len(p)}) - n}) :
         LET i == Len(s) - 1 - m
             j == Len(p) - 1 - m
         IN n > i \/ n > j \/ At(p, j) = Percent \/ At(s, i) # At(p, j)})
EndWith(s, p, n) ==
  LET m == PassedBack(s, p, n)
      i == Len(s) - 1 - m
      j == Len(p) - 1 - m
  IN n > i \/ n > j \/ At(p, j) = Percent

\* The loop both kmp_next and kmp fall back with
Fallback(next, p, beg, c, k) ==
  LET f[j \in Int] == IF j > -1 /\ At(p, j + 1 + beg) # c THEN f[next[j]] ELSE j
  IN f[k]

Advanced(p, beg, c, k) == IF At(p, k + 1 + beg) = c THEN k + 1 ELSE k

KmpNext(p, beg, end, junk) ==
  FoldLeft(LAMBDA a, i :
             LET k == Advanced(p, beg, At(p, i), Fallback(a.next, p, beg, At(p, i), a.k))
             IN [k |-> k, next |-> [a.next EXCEPT ![i] = k]],
           [k |-> -1, next |-> [i \in 0 .. Len(p) |-> IF i = 0 THEN -1 ELSE junk]],
           [i \in 1 .. end - beg |-> beg + i]).next

\* kmp: the position after the first match of p[beg .. end], or -1
Kmp(s, p, from, to, beg, end, junk) ==
  LET next == KmpNext(p, beg, end, junk)
      Reached(k, i) == [k |-> k, after |-> IF k + beg = end THEN i + 1 ELSE -1]
  IN FoldLeft(
       LAMBDA a, i :
         IF a.after # -1 THEN a
         ELSE Reached(Advanced(p, beg, At(s, i), Fallback(next, p, beg, At(s, i), a.k)), i),
       [k |-> -1, after |-> -1],
       [i \in 1 .. to - from + 1 |-> from + i - 1]).after

\* contain: the pieces between the per cent signs, one after the other
RECURSIVE Contain(_, _, _, _, _, _, _)
ContainRest(s, p, after, beg2, end1, end2, junk) ==
  after # -1 /\ Contain(s, p, after, beg2, end1, end2, junk)
Contain(s, p, beg1, beg2, end1, end2, junk) ==
  LET pos1 == Min({i \in beg2 .. Max({end2 + 1, beg2}) : i > end2 \/ At(p, i) # Percent})
      pos2 == Min({i \in pos1 .. Max({end2 + 1, pos1}) : i > end2 \/ At(p, i) = Percent})
  IN \/ pos1 = pos2
     \/ /\ beg1 <= end1
        /\ ContainRest(s, p, Kmp(s, p, beg1, end1, pos1, pos2 - 1, junk), pos2, end1, end2, junk)

\* mutant: the end of the string is not compared
StringLikePrefix(s, p, junk) ==
  LET n == Passed(s, p)
  IN BeginWith(s, p) /\ Contain(s, p, n, n, Len(s) - 1, Len(p) - 1, junk)

StringLike(s, p, junk) ==
  LET n == Passed(s, p)
      m == PassedBack(s, p, n)
  IN /\ BeginWith(s, p)
     /\ EndWith(s, p, n)
     /\ Contain(s, p, n, n, Len(s) - 1 - m, Len(p) - 1 - m, junk)

-----------------------------------------------------------------------------
\* What LIKE means: a per cent sign stands for any characters
RECURSIVE Matches(_, _)
Matches(s, p) ==
  IF p = <<>> THEN s = <<>>
  ELSE IF Head(p) = Percent
       THEN \E n \in 0 .. Len(s) : Matches(SubSeq(s, n + 1, Len(s)), Tail(p))
       ELSE s # <<>> /\ Head(s) = Head(p) /\ Matches(Tail(s), Tail(p))
=============================================================================
