-------------------------- MODULE ExtractionProofs --------------------------
(***************************************************************************)
(* Proofs about Extraction: two records with one number are flagged when a *)
(* run ends, whoever made them; a run nothing overlaps loses nothing and   *)
(* closes every boundary it can; and nothing is read twice, where no page  *)
(* is the middle of an act.                                                *)
(***************************************************************************)
EXTENDS Extraction, FiniteSetTheorems, TLAPS

-----------------------------------------------------------------------------
(***************************************************************************)
(* Sequences and numbers.                                                  *)
(***************************************************************************)

IsSequence(s) == \E S : s \in Seq(S)

\* A set of positions has a last one.
LEMMA LastOfSome ==
    ASSUME NEW n \in Nat, NEW S \in SUBSET (1..n), S # {}
    PROVE  \E k \in S : \A m \in S : m <= k
<1> DEFINE T == {n - k : k \in S}
<1>1. T \subseteq Nat /\ T # {}
  <2>1. \A k \in S : n - k \in Nat
    OBVIOUS
  <2> QED BY <2>1
<1>2. PICK x \in T : \A y \in T : <<y, x>> \notin OpToRel(<, Nat)
  BY <1>1, NatLessThanWellFounded, WFMin
<1>3. PICK k \in S : x = n - k
  OBVIOUS
<1>4. ASSUME NEW m \in S, ~(m <= k) PROVE FALSE
  <2>1. n - m \in T /\ n - m < n - k /\ n - m \in Nat /\ n - k \in Nat
    BY <1>4
  <2>2. <<n - m, n - k>> \in OpToRel(<, Nat)
    BY <2>1 DEF OpToRel
  <2> QED BY <1>2, <1>3, <2>1, <2>2
<1> QED BY <1>4

\* And a first one.
LEMMA FirstOfSome ==
    ASSUME NEW n \in Nat, NEW S \in SUBSET (1..n), S # {}
    PROVE  \E k \in S : \A m \in S : k <= m
<1>1. PICK k \in S : \A m \in S : <<m, k>> \notin OpToRel(<, Nat)
  <2>1. S \subseteq Nat
    OBVIOUS
  <2> QED BY <2>1, NatLessThanWellFounded, WFMin
<1>2. ASSUME NEW m \in S, ~(k <= m) PROVE FALSE
  <2>1. m \in Nat /\ k \in Nat /\ m < k
    BY <1>2
  <2>2. <<m, k>> \in OpToRel(<, Nat)
    BY <2>1 DEF OpToRel
  <2> QED BY <1>1, <2>2
<1> QED BY <1>2

\* X is B with every element of T after it, each once.
Appended(X, B, T) ==
    /\ IsSequence(X)
    /\ Len(B) <= Len(X)
    /\ \A i \in 1..Len(B) : X[i] = B[i]
    /\ \A i \in DOMAIN X : i > Len(B) => X[i] \in T
    /\ \A t \in T : \E i \in DOMAIN X : i > Len(B) /\ X[i] = t
    /\ \A i, k \in DOMAIN X : i > Len(B) /\ k > Len(B) /\ X[i] = X[k] => i = k

LEMMA AppendSet ==
    ASSUME NEW B, IsSequence(B), NEW T, IsFiniteSet(T)
    PROVE  Appended(B \o SetToSeq(T), B, T)
<1> DEFINE n == Cardinality(T)
           s == SetToSeq(T)
           X == B \o s
<1>1. n \in Nat /\ ExistsBijection(1..n, T)
  BY FS_CardinalityType
<1>2. PICK f : f \in Bijection(1..n, T)
  BY <1>1 DEF ExistsBijection
<1>3. f \in [1..n -> T] /\ IsInjective(f)
  BY <1>2 DEF Bijection, Injection, IsInjective
<1>4. s \in [1..n -> T] /\ IsInjective(s)
  BY <1>3 DEF SetToSeq
<1>5. s \in Injection(1..n, T)
  BY <1>4 DEF Injection, IsInjective
<1>6. s \in Surjection(1..n, T)
  <2>1. IsFiniteSet(1..n) /\ Cardinality(1..n) = n
    BY <1>1, FS_Interval
  <2> QED BY <1>5, <2>1, FS_Injection
<1>7. \A t \in T : \E i \in 1..n : s[i] = t
  BY <1>6 DEF Surjection
<1> HIDE DEF s, n
<1>8. s \in Seq(T) /\ Len(s) = n
  BY <1>1, <1>4
<1>9. PICK S : B \in Seq(S)
  BY DEF IsSequence
<1>10. B \in Seq(S \cup T) /\ s \in Seq(S \cup T)
  BY <1>8, <1>9
<1>11. X \in Seq(S \cup T) /\ Len(X) = Len(B) + n
  BY <1>8, <1>10
<1>12. \A i \in 1..Len(X) : X[i] = IF i <= Len(B) THEN B[i] ELSE s[i - Len(B)]
  BY <1>8, <1>10
<1>13. Len(B) \in Nat
  BY <1>9
<1> HIDE DEF X
<1>14. \A i \in 1..Len(B) : X[i] = B[i]
  BY <1>1, <1>11, <1>12, <1>13
<1>15. DOMAIN X = 1..Len(X)
  BY <1>11
<1>16. \A i \in DOMAIN X : i > Len(B) => i - Len(B) \in 1..n /\ X[i] = s[i - Len(B)]
  BY <1>1, <1>11, <1>12, <1>13, <1>15
<1>17. \A t \in T : \E i \in DOMAIN X : i > Len(B) /\ X[i] = t
  <2> SUFFICES ASSUME NEW t \in T PROVE \E i \in DOMAIN X : i > Len(B) /\ X[i] = t
    OBVIOUS
  <2>1. PICK m \in 1..n : s[m] = t
    BY <1>7
  <2>2. m + Len(B) \in DOMAIN X /\ m + Len(B) > Len(B) /\ (m + Len(B)) - Len(B) = m
    BY <1>1, <1>11, <1>13, <1>15
  <2> QED BY <1>16, <2>1, <2>2
<1>18. \A i, k \in DOMAIN X : i > Len(B) /\ k > Len(B) /\ X[i] = X[k] => i = k
  <2> SUFFICES ASSUME NEW i \in DOMAIN X, NEW k \in DOMAIN X, i > Len(B), k > Len(B), X[i] = X[k]
               PROVE  i = k
    OBVIOUS
  <2>1. i - Len(B) = k - Len(B)
    BY <1>4, <1>16 DEF IsInjective
  <2> QED BY <1>11, <1>13, <1>15, <2>1
<1>19. \A i \in DOMAIN X : i > Len(B) => X[i] \in T
  BY <1>4, <1>16
<1>20. IsSequence(X) /\ Len(B) <= Len(X)
  BY <1>1, <1>11, <1>13 DEF IsSequence
<1>21. Appended(X, B, T)
  BY <1>14, <1>17, <1>18, <1>19, <1>20, Zenon DEF Appended
<1> QED BY <1>21 DEF X, s

-----------------------------------------------------------------------------
(***************************************************************************)
(* Records.                                                                *)
(***************************************************************************)

IsRec(r) ==
    r = [page |-> r.page, tx |-> r.tx, page_end |-> r.page_end, tx_end |-> r.tx_end,
         continued |-> r.continued, holds |-> r.holds, seq |-> r.seq, pos |-> r.pos,
         incomplete |-> r.incomplete, continues |-> r.continues, manual |-> r.manual,
         status |-> r.status]

\* Where a record starts, and what its flags say of the act there.
OnBook(r) ==
    /\ r.page \in Pages
    /\ r.pos \in 1..Len(Book[r.page])
    /\ r.incomplete => /\ ~r.continued
                       /\ r.pos = Len(Book[r.page])
                       /\ Begins(r.page, Book[r.page][r.pos])
    /\ r.continues  => /\ ~r.continued
                       /\ r.pos = 1
                       /\ Ends(r.page, Book[r.page][r.pos])
                       /\ \A h \in r.holds : h[1] = r.page

RecOK(r) ==
    /\ IsRec(r)
    /\ r.seq \in Nat \cup {None}
    /\ r.status # "deleted" => OnBook(r)

RecordsOK(rs) == IsSequence(rs) /\ \A i \in DOMAIN rs : RecOK(rs[i])

\* Records some transaction has loaded.
LoadedOK(L) ==
    /\ \E n \in Nat : DOMAIN L \subseteq 1..n
    /\ \A i \in DOMAIN L : RecOK(L[i]) /\ L[i].status \in Active

LEMMA PagesAre == Pages = 1..Len(Book) /\ IsFiniteSet(Pages) /\ Pages \subseteq Nat
<1>1. Pages = 1..Len(Book) /\ Len(Book) \in Nat
  BY BookAssumption DEF Pages
<1> QED BY <1>1, FS_Interval

LEMMA PageIsSeq == ASSUME NEW p \in Pages PROVE Book[p] \in Seq(Nat) /\ Len(Book[p]) \in Nat
BY BookAssumption DEF Pages

\* The last and the first record of a page among those loaded.
LEMMA LastOn ==
    ASSUME NEW L, LoadedOK(L), NEW p, OnPage(L, p) # {}
    PROVE  /\ last_on(L, p) \in OnPage(L, p)
           /\ \A k \in OnPage(L, p) : Before(L, k, last_on(L, p))
<1>1. PICK n \in Nat : DOMAIN L \subseteq 1..n
  BY DEF LoadedOK
<1>2. \A i \in OnPage(L, p) : i \in 1..n /\ L[i].pos \in 1..Len(Book[p])
  BY <1>1 DEF LoadedOK, OnPage, RecOK, OnBook, Active
<1>3. p \in Pages /\ Len(Book[p]) \in Nat
  BY PageIsSeq DEF LoadedOK, OnPage, RecOK, OnBook, Active
<1> DEFINE S == {L[i].pos : i \in OnPage(L, p)}
<1>4. S \in SUBSET (1..Len(Book[p])) /\ S # {}
  BY <1>2
<1>5. PICK x \in S : \A y \in S : y <= x
  BY <1>3, <1>4, LastOfSome
<1> DEFINE T == {i \in OnPage(L, p) : L[i].pos = x}
<1>6. T \in SUBSET (1..n) /\ T # {}
  BY <1>2
<1>7. PICK i \in T : \A k \in T : k <= i
  BY <1>6, LastOfSome
<1>8. \A k \in OnPage(L, p) : Before(L, k, i)
  <2> SUFFICES ASSUME NEW k \in OnPage(L, p) PROVE Before(L, k, i)
    OBVIOUS
  <2>1. L[k].pos <= x /\ L[i].pos = x /\ L[k].pos \in Nat /\ x \in Nat
    BY <1>2, <1>5
  <2>2. L[k].pos = x => k <= i
    BY <1>7
  <2> QED BY <2>1, <2>2 DEF Before
<1> QED BY <1>8 DEF last_on

LEMMA FirstOn ==
    ASSUME NEW L, LoadedOK(L), NEW p, OnPage(L, p) # {}
    PROVE  /\ first_on(L, p) \in OnPage(L, p)
           /\ \A k \in OnPage(L, p) : Before(L, first_on(L, p), k)
<1>1. PICK n \in Nat : DOMAIN L \subseteq 1..n
  BY DEF LoadedOK
<1>2. \A i \in OnPage(L, p) : i \in 1..n /\ L[i].pos \in 1..Len(Book[p])
  BY <1>1 DEF LoadedOK, OnPage, RecOK, OnBook, Active
<1>3. p \in Pages /\ Len(Book[p]) \in Nat
  BY PageIsSeq DEF LoadedOK, OnPage, RecOK, OnBook, Active
<1> DEFINE S == {L[i].pos : i \in OnPage(L, p)}
<1>4. S \in SUBSET (1..Len(Book[p])) /\ S # {}
  BY <1>2
<1>5. PICK x \in S : \A y \in S : x <= y
  BY <1>3, <1>4, FirstOfSome
<1> DEFINE T == {i \in OnPage(L, p) : L[i].pos = x}
<1>6. T \in SUBSET (1..n) /\ T # {}
  BY <1>2
<1>7. PICK i \in T : \A k \in T : i <= k
  BY <1>6, FirstOfSome
<1>8. \A k \in OnPage(L, p) : Before(L, i, k)
  <2> SUFFICES ASSUME NEW k \in OnPage(L, p) PROVE Before(L, i, k)
    OBVIOUS
  <2>1. x <= L[k].pos /\ L[i].pos = x /\ L[k].pos \in Nat /\ x \in Nat
    BY <1>2, <1>5
  <2>2. L[k].pos = x => i <= k
    BY <1>7
  <2> QED BY <2>1, <2>2 DEF Before
<1> QED BY <1>8 DEF first_on

\* The boundaries a stitch pass closes are finitely many, between loaded records.
LEMMA BoundaryFacts ==
    ASSUME NEW L, LoadedOK(L), NEW q \in boundaries(L)
    PROVE  \E p \in Pages : /\ q = <<last_on(L, p), first_on(L, p + 1)>>
                            /\ last_on(L, p) \in OnPage(L, p)
                            /\ first_on(L, p + 1) \in OnPage(L, p + 1)
                            /\ Joins(L[last_on(L, p)], L[first_on(L, p + 1)])
<1>1. PICK p \in Pages : /\ OnPage(L, p) # {} /\ OnPage(L, p + 1) # {}
                         /\ Joins(L[last_on(L, p)], L[first_on(L, p + 1)])
                         /\ q = <<last_on(L, p), first_on(L, p + 1)>>
  BY DEF boundaries
<1> QED BY <1>1, LastOn, FirstOn

LEMMA BoundariesFinite == ASSUME NEW L PROVE IsFiniteSet(boundaries(L))
<1> DEFINE P == {p \in Pages : /\ OnPage(L, p) # {} /\ OnPage(L, p + 1) # {}
                               /\ Joins(L[last_on(L, p)], L[first_on(L, p + 1)])}
           f == [p \in P |-> <<last_on(L, p), first_on(L, p + 1)>>]
           B == {<<last_on(L, p), first_on(L, p + 1)>> : p \in P}
<1>1. IsFiniteSet(P)
  BY PagesAre, FS_Subset
<1>2. f \in Surjection(P, B)
  BY DEF Surjection
<1>3. IsFiniteSet(B)
  BY <1>1, <1>2, FS_Surjection
<1> QED BY <1>3 DEF boundaries

\* The record of an act of a page.
LEMMA PageRecord ==
    ASSUME NEW r, r[1] \in Pages, NEW k \in DOMAIN Book[r[1]], NEW noted
    PROVE  /\ RecOK(page_record(r, k, noted))
           /\ page_record(r, k, noted).page = r[1]
           /\ page_record(r, k, noted).tx = r
           /\ page_record(r, k, noted).tx_end = None
           /\ page_record(r, k, noted).continued = FALSE
           /\ page_record(r, k, noted).holds = {<<r[1], k>>}
           /\ page_record(r, k, noted).pos = k
           /\ page_record(r, k, noted).manual = FALSE
           /\ page_record(r, k, noted).status = "extracted"
<1> DEFINE x == page_record(r, k, noted)
<1>1. Book[r[1]] \in Seq(Nat)
  BY PageIsSeq
<1>2. k \in 1..Len(Book[r[1]]) /\ Book[r[1]][k] \in Nat
  BY <1>1
<1>3. /\ IsRec(x) /\ x.seq \in {None, Book[r[1]][k]}
      /\ x.page = r[1] /\ x.tx = r /\ x.tx_end = None /\ x.continued = FALSE
      /\ x.holds = {<<r[1], k>>} /\ x.pos = k /\ x.manual = FALSE /\ x.status = "extracted"
      /\ x.incomplete => k = Len(Book[r[1]]) /\ Begins(r[1], Book[r[1]][k])
      /\ x.continues => k = 1 /\ Ends(r[1], Book[r[1]][k])
  BY DEF page_record, IsRec
<1> HIDE DEF x
<1>4. OnBook(x)
  BY <1>2, <1>3 DEF OnBook
<1>5. RecOK(x)
  BY <1>2, <1>3, <1>4 DEF RecOK
<1> QED BY <1>3, <1>5 DEF x

\* The record of a merge.
LEMMA BoundaryRecord ==
    ASSUME NEW a, NEW b, RecOK(a), RecOK(b), a.status \in Active, b.status \in Active, NEW answered
    PROVE  /\ RecOK(boundary_record(a, b, answered))
           /\ boundary_record(a, b, answered).page = a.page
           /\ boundary_record(a, b, answered).pos = a.pos
           /\ boundary_record(a, b, answered).tx = a.tx
           /\ boundary_record(a, b, answered).page_end = b.page
           /\ boundary_record(a, b, answered).tx_end = b.tx
           /\ boundary_record(a, b, answered).continued = TRUE
           /\ boundary_record(a, b, answered).incomplete = FALSE
           /\ boundary_record(a, b, answered).continues = FALSE
           /\ boundary_record(a, b, answered).manual = FALSE
           /\ boundary_record(a, b, answered).status = "extracted"
           /\ boundary_record(a, b, answered).holds = a.holds \cup {h \in b.holds : answered => h[1] = b.page}
<1> DEFINE x == boundary_record(a, b, answered)
<1>1. IsRec(x) /\ x.seq \in {a.seq, b.seq}
  BY DEF boundary_record, IsRec
<1>2. /\ x.page = a.page /\ x.pos = a.pos /\ x.tx = a.tx
      /\ x.page_end = b.page /\ x.tx_end = b.tx /\ x.continued = TRUE
      /\ x.incomplete = FALSE /\ x.continues = FALSE /\ x.manual = FALSE /\ x.status = "extracted"
      /\ x.holds = a.holds \cup {h \in b.holds : answered => h[1] = b.page}
  BY DEF boundary_record
<1> HIDE DEF x
<1>3. OnBook(x)
  BY <1>2 DEF RecOK, OnBook, Active
<1>4. RecOK(x)
  BY <1>1, <1>3 DEF RecOK
<1> QED BY <1>2, <1>4 DEF x

LEMMA DeletedRecord == RecOK(Deleted) /\ Deleted.status = "deleted"
BY DEF Deleted, RecOK, IsRec

\* Records some of which have another status now.
SameBut(V, X) ==
    /\ IsSequence(V) /\ DOMAIN V = DOMAIN X
    /\ \A i \in DOMAIN X : V[i] = [X[i] EXCEPT !.status = V[i].status]

LEMMA SameFields ==
    ASSUME NEW V, NEW X, RecordsOK(X), SameBut(V, X), NEW i \in DOMAIN X,
           V[i].status = "deleted" <=> X[i].status = "deleted"
    PROVE  /\ V[i].page = X[i].page /\ V[i].tx = X[i].tx /\ V[i].page_end = X[i].page_end
           /\ V[i].tx_end = X[i].tx_end /\ V[i].continued = X[i].continued
           /\ V[i].holds = X[i].holds /\ V[i].seq = X[i].seq /\ V[i].pos = X[i].pos
           /\ V[i].incomplete = X[i].incomplete /\ V[i].continues = X[i].continues
           /\ V[i].manual = X[i].manual
           /\ RecOK(V[i])
<1>1. IsRec(X[i])
  BY DEF RecordsOK, RecOK
<1>2. PICK s : s = V[i].status
  OBVIOUS
<1>3. V[i] = [X[i] EXCEPT !.status = s]
  BY <1>2 DEF SameBut
<1>4. /\ V[i].page = X[i].page /\ V[i].tx = X[i].tx /\ V[i].page_end = X[i].page_end
      /\ V[i].tx_end = X[i].tx_end /\ V[i].continued = X[i].continued
      /\ V[i].holds = X[i].holds /\ V[i].seq = X[i].seq /\ V[i].pos = X[i].pos
      /\ V[i].incomplete = X[i].incomplete /\ V[i].continues = X[i].continues
      /\ V[i].manual = X[i].manual /\ IsRec(V[i])
  BY <1>1, <1>3 DEF IsRec
<1>5. RecOK(X[i])
  BY DEF RecordsOK
<1>6. OnBook(X[i]) => OnBook(V[i])
  BY <1>4 DEF OnBook
<1>7. RecOK(V[i])
  BY <1>4, <1>5, <1>6 DEF RecOK
<1> QED BY <1>4, <1>7

\* The numbering pass only flags records.
LEMMA Validated ==
    ASSUME NEW X, RecordsOK(X)
    PROVE  /\ SameBut(validate_sequence(X), X)
           /\ \A i \in DOMAIN X : validate_sequence(X)[i].status =
                 IF i \in Warned(X) THEN "needs_review" ELSE X[i].status
           /\ \A i \in DOMAIN X : validate_sequence(X)[i].status = "deleted" <=> X[i].status = "deleted"
           /\ Live(validate_sequence(X)) = Live(X)
           /\ RecordsOK(validate_sequence(X))
<1> DEFINE V == validate_sequence(X)
<1>1. DOMAIN V = DOMAIN X
  BY DEF validate_sequence
<1>2. PICK S : X \in Seq(S)
  BY DEF RecordsOK, IsSequence
<1>3. IsSequence(V)
  <2> DEFINE T == {V[i] : i \in DOMAIN X}
  <2>1. V \in [1..Len(X) -> T] /\ Len(X) \in Nat
    BY <1>2 DEF validate_sequence
  <2>2. V \in Seq(T)
    BY <2>1
  <2> QED BY <2>2 DEF IsSequence
<1>4. \A i \in DOMAIN X : V[i] = IF i \in Warned(X) THEN [X[i] EXCEPT !.status = "needs_review"] ELSE X[i]
  BY DEF validate_sequence
<1>5. \A i \in DOMAIN X : IsRec(X[i])
  BY DEF RecordsOK, RecOK
<1>6. Warned(X) \subseteq Live(X)
  BY DEF Warned, Numbered
<1> HIDE DEF V
<1>7. \A i \in DOMAIN X : V[i].status = IF i \in Warned(X) THEN "needs_review" ELSE X[i].status
  BY <1>4, <1>5 DEF IsRec
<1>8. \A i \in DOMAIN X : V[i] = [X[i] EXCEPT !.status = V[i].status]
  BY <1>4, <1>5, <1>7 DEF IsRec
<1>9. SameBut(V, X)
  BY <1>1, <1>3, <1>8 DEF SameBut
<1>10. \A i \in DOMAIN X : V[i].status = "deleted" <=> X[i].status = "deleted"
  BY <1>6, <1>7 DEF Live, Active
<1>11. Live(V) = Live(X)
  BY <1>1, <1>6, <1>7 DEF Live, Active
<1>12. RecordsOK(V)
  BY <1>1, <1>3, <1>9, <1>10, SameFields DEF RecordsOK
<1> QED BY <1>7, <1>9, <1>10, <1>11, <1>12 DEF V

\* Of two live records with one number the pass flags the later one.
LEMMA DoublesFlagged ==
    ASSUME NEW X, RecordsOK(X), NEW i \in Numbered(X), NEW k \in Numbered(X),
           X[i].seq = X[k].seq, i < k
    PROVE  k \in Warned(X)
<1>1. PICK n \in Nat : DOMAIN X = 1..n
  BY DEF RecordsOK, IsSequence
<1> DEFINE E == {l \in Numbered(X) : X[l].seq = X[k].seq /\ l < k}
<1>2. E \in SUBSET (1..n) /\ E # {}
  BY <1>1 DEF Numbered, Live
<1>3. PICK m \in E : \A l \in E : l <= m
  BY <1>2, LastOfSome
<1>4. \A l \in Numbered(X) : X[l].seq \in Nat /\ l \in Nat
  BY <1>1 DEF RecordsOK, RecOK, Numbered, Live
<1>5. m \in Precede(X, k)
  BY DEF Precede
<1>6. ASSUME NEW l \in Precede(X, k), l # m PROVE l \in Precede(X, m)
  <2>1. l \in Numbered(X) /\ (X[l].seq < X[k].seq \/ (X[l].seq = X[k].seq /\ l < k))
    BY DEF Precede
  <2>2. CASE X[l].seq < X[k].seq
    BY <2>1, <2>2, <1>4 DEF Precede
  <2>3. CASE X[l].seq = X[k].seq /\ l < k
    <3>1. l \in E /\ l <= m
      BY <2>1, <2>3, <1>3
    <3>2. l < m
      BY <1>4, <1>6, <3>1
    <3> QED BY <2>1, <2>3, <3>2 DEF Precede
  <2> QED BY <2>1, <2>2, <2>3
<1>7. X[k].seq - X[m].seq = 0
  BY <1>4
<1> HIDE DEF E
<1>8. \A l \in Precede(X, k) : l \in Precede(X, m) \/ l = m
  BY <1>6
<1> QED BY <1>5, <1>7, <1>8 DEF Warned

\* What a merge makes of the records rs.
Used(pairs) == UNION {{q[1], q[2]} : q \in pairs}

MergeResult(X, rs, L, pairs, answered) ==
    /\ RecordsOK(X)
    /\ DOMAIN rs \subseteq DOMAIN X
    /\ \A i \in DOMAIN rs : X[i] = IF i \in Used(pairs) THEN Deleted ELSE rs[i]
    /\ \A i \in DOMAIN X \ DOMAIN rs :
          \E q \in pairs : X[i] = boundary_record(L[q[1]], L[q[2]], answered)
    /\ \A q \in pairs :
          \E i \in DOMAIN X \ DOMAIN rs : X[i] = boundary_record(L[q[1]], L[q[2]], answered)
    /\ \A i, k \in DOMAIN X \ DOMAIN rs : X[i] = X[k] => i = k

LEMMA MergedIs ==
    ASSUME NEW rs, RecordsOK(rs), NEW L, LoadedOK(L), NEW pairs, IsFiniteSet(pairs),
           \A q \in pairs : q[1] \in DOMAIN L /\ q[2] \in DOMAIN L, NEW answered
    PROVE  MergeResult(Merged(rs, L, pairs, answered), rs, L, pairs, answered)
<1> DEFINE T == {boundary_record(L[q[1]], L[q[2]], answered) : q \in pairs}
           f == [q \in pairs |-> boundary_record(L[q[1]], L[q[2]], answered)]
           B == Without(rs, Used(pairs))
           X == Merged(rs, L, pairs, answered)
<1>1. IsFiniteSet(T)
  <2>1. f \in Surjection(pairs, T)
    BY DEF Surjection
  <2> QED BY <2>1, FS_Surjection
<1>2. PICK S : rs \in Seq(S)
  BY DEF RecordsOK, IsSequence
<1>3. DOMAIN B = DOMAIN rs /\ DOMAIN rs = 1..Len(rs) /\ Len(rs) \in Nat
  BY <1>2 DEF Without
<1>4. \A i \in DOMAIN rs : B[i] = IF i \in Used(pairs) THEN Deleted ELSE rs[i]
  BY DEF Without
<1>5. IsSequence(B) /\ Len(B) = Len(rs)
  <2> DEFINE V == {B[i] : i \in DOMAIN rs}
  <2>1. B \in [1..Len(rs) -> V]
    BY <1>3 DEF Without
  <2>2. B \in Seq(V) /\ Len(B) = Len(rs)
    BY <1>3, <2>1
  <2> QED BY <2>2 DEF IsSequence
<1>6. X = B \o SetToSeq(T)
  BY DEF Merged, Used
<1> HIDE DEF B, X, T
<1>7. Appended(X, B, T)
  BY <1>1, <1>5, <1>6, AppendSet
<1>8. /\ IsSequence(X) /\ Len(B) <= Len(X)
      /\ \A i \in 1..Len(B) : X[i] = B[i]
      /\ \A i \in DOMAIN X : i > Len(B) => X[i] \in T
      /\ \A t \in T : \E i \in DOMAIN X : i > Len(B) /\ X[i] = t
      /\ \A i, k \in DOMAIN X : i > Len(B) /\ k > Len(B) /\ X[i] = X[k] => i = k
  BY <1>7 DEF Appended
<1>9. DOMAIN X = 1..Len(X) /\ Len(X) \in Nat
  BY <1>8 DEF IsSequence
<1>10. DOMAIN rs \subseteq DOMAIN X /\ \A i \in DOMAIN X : i \notin DOMAIN rs <=> i > Len(B)
  BY <1>3, <1>5, <1>8, <1>9
<1>11. \A t \in T : RecOK(t)
  <2> SUFFICES ASSUME NEW q \in pairs PROVE RecOK(boundary_record(L[q[1]], L[q[2]], answered))
    BY DEF T
  <2>1. RecOK(L[q[1]]) /\ RecOK(L[q[2]]) /\ L[q[1]].status \in Active /\ L[q[2]].status \in Active
    BY DEF LoadedOK
  <2> QED BY <2>1, BoundaryRecord
<1>12. \A i \in DOMAIN rs : X[i] = IF i \in Used(pairs) THEN Deleted ELSE rs[i]
  BY <1>3, <1>4, <1>5, <1>8
<1>13. RecordsOK(X)
  <2> SUFFICES ASSUME NEW i \in DOMAIN X PROVE RecOK(X[i])
    BY <1>8 DEF RecordsOK
  <2>1. CASE i \in DOMAIN rs
    BY <2>1, <1>12, DeletedRecord DEF RecordsOK
  <2>2. CASE i \notin DOMAIN rs
    BY <2>2, <1>8, <1>10, <1>11
  <2> QED BY <2>1, <2>2
<1>14. \A i \in DOMAIN X \ DOMAIN rs : \E q \in pairs : X[i] = boundary_record(L[q[1]], L[q[2]], answered)
  BY <1>8, <1>10 DEF T
<1>15. \A q \in pairs : \E i \in DOMAIN X \ DOMAIN rs : X[i] = boundary_record(L[q[1]], L[q[2]], answered)
  BY <1>8, <1>10 DEF T
<1>16. \A i, k \in DOMAIN X \ DOMAIN rs : X[i] = X[k] => i = k
  BY <1>8, <1>10
<1>17. MergeResult(X, rs, L, pairs, answered)
  BY <1>10, <1>12, <1>13, <1>14, <1>15, <1>16 DEF MergeResult
<1> QED BY <1>17 DEF X

\* A stitch pass.
LEMMA StitchIs ==
    ASSUME NEW rs, RecordsOK(rs), NEW L, LoadedOK(L), NEW answered
    PROVE  MergeResult(Merged(rs, L, boundaries(L), answered), rs, L, boundaries(L), answered)
<1>1. \A q \in boundaries(L) : q[1] \in DOMAIN L /\ q[2] \in DOMAIN L
  BY BoundaryFacts DEF OnPage
<1> QED BY <1>1, BoundariesFinite, MergedIs

\* A merge by hand.
LEMMA MergeIs ==
    ASSUME NEW rs, RecordsOK(rs), NEW L, LoadedOK(L), NEW i \in DOMAIN L, NEW k \in DOMAIN L, NEW answered
    PROVE  MergeResult(Merged(rs, L, {<<i, k>>}, answered), rs, L, {<<i, k>>}, answered)
<1>1. IsFiniteSet({<<i, k>>})
  BY FS_Singleton
<1> QED BY <1>1, MergedIs

\* Rows whose pages were read.
LEMMA ReadIs ==
    ASSUME NEW ok, IsFiniteSet(ok), \A r \in ok : r[1] \in Pages, NEW noted,
           NEW rs, RecordsOK(rs)
    PROVE  LET T == UNION {page_records(r, noted[r]) : r \in ok}
           IN  /\ Appended(rs \o SetToSeq(T), rs, T)
               /\ RecordsOK(rs \o SetToSeq(T))
<1> DEFINE T == UNION {page_records(r, noted[r]) : r \in ok}
           F == {page_records(r, noted[r]) : r \in ok}
           f == [r \in ok |-> page_records(r, noted[r])]
           X == rs \o SetToSeq(T)
<1>1. ASSUME NEW r \in ok PROVE IsFiniteSet(page_records(r, noted[r]))
  <2> DEFINE g == [k \in DOMAIN Book[r[1]] |-> page_record(r, k, noted[r])]
  <2>1. IsFiniteSet(DOMAIN Book[r[1]])
    <3>1. DOMAIN Book[r[1]] = 1..Len(Book[r[1]]) /\ Len(Book[r[1]]) \in Nat
      BY PageIsSeq
    <3> QED BY <3>1, FS_Interval
  <2>2. g \in Surjection(DOMAIN Book[r[1]], page_records(r, noted[r]))
    BY DEF Surjection, page_records
  <2> QED BY <2>1, <2>2, FS_Surjection
<1>2. IsFiniteSet(F)
  <2>1. f \in Surjection(ok, F)
    BY DEF Surjection
  <2> QED BY <2>1, FS_Surjection
<1>3. IsFiniteSet(T)
  BY <1>1, <1>2, FS_UNION
<1>4. \A t \in T : RecOK(t)
  <2> SUFFICES ASSUME NEW r \in ok, NEW k \in DOMAIN Book[r[1]]
               PROVE  RecOK(page_record(r, k, noted[r]))
    BY DEF page_records
  <2> QED BY PageRecord
<1> HIDE DEF T
<1>5. Appended(X, rs, T)
  BY <1>3, AppendSet DEF RecordsOK
<1> HIDE DEF X
<1>6. IsSequence(X) /\ IsSequence(rs)
  BY <1>5 DEF Appended, RecordsOK
<1>7. \A i \in DOMAIN X : i \in 1..Len(rs) \/ i > Len(rs)
  <2>1. DOMAIN X = 1..Len(X) /\ Len(X) \in Nat /\ Len(rs) \in Nat
    BY <1>6 DEF IsSequence
  <2> QED BY <2>1
<1>8. \A i \in DOMAIN X : RecOK(X[i])
  <2>1. DOMAIN rs = 1..Len(rs)
    BY <1>6 DEF IsSequence
  <2> QED BY <2>1, <1>4, <1>5, <1>7 DEF Appended, RecordsOK
<1>9. RecordsOK(X)
  BY <1>6, <1>8 DEF RecordsOK
<1> QED BY <1>5, <1>9 DEF X, T

\* A record cut in two, and one whose rows are gone.
LEMMA SplitRecord ==
    ASSUME NEW r, RecOK(r), NEW no, NEW yes, ~no
    PROVE  RecOK([r EXCEPT !.continued = no, !.page_end = None, !.tx_end = None, !.manual = yes])
<1> DEFINE a == [r EXCEPT !.continued = no]
           b == [a EXCEPT !.page_end = None]
           c == [b EXCEPT !.tx_end = None]
           d == [c EXCEPT !.manual = yes]
<1>1. IsRec(a) /\ \A f \in {"page", "holds", "seq", "pos", "incomplete", "continues", "status"} : a[f] = r[f]
  BY DEF RecOK, IsRec
<1>2. a.continued = no
  BY DEF RecOK, IsRec
<1> HIDE DEF a
<1>3. IsRec(b) /\ \A f \in {"page", "holds", "seq", "pos", "incomplete", "continues", "status", "continued"} : b[f] = a[f]
  BY <1>1 DEF IsRec
<1> HIDE DEF b
<1>4. IsRec(c) /\ \A f \in {"page", "holds", "seq", "pos", "incomplete", "continues", "status", "continued"} : c[f] = b[f]
  BY <1>3 DEF IsRec
<1> HIDE DEF c
<1>5. IsRec(d) /\ \A f \in {"page", "holds", "seq", "pos", "incomplete", "continues", "status", "continued"} : d[f] = c[f]
  BY <1>4 DEF IsRec
<1>6. [r EXCEPT !.continued = no, !.page_end = None, !.tx_end = None, !.manual = yes] = d
  BY DEF a, b, c, d
<1> HIDE DEF d
<1>7. /\ d.page = r.page /\ d.holds = r.holds /\ d.seq = r.seq /\ d.pos = r.pos
      /\ d.incomplete = r.incomplete /\ d.continues = r.continues /\ d.status = r.status
      /\ d.continued = no
  BY <1>1, <1>2, <1>3, <1>4, <1>5
<1>8. RecOK(d)
  BY <1>5, <1>7 DEF RecOK, OnBook
<1> QED BY <1>6, <1>8

LEMMA UnlinkedRecord ==
    ASSUME NEW r, RecOK(r), NEW s, NEW t
    PROVE  RecOK([r EXCEPT !.tx = s, !.tx_end = t])
<1> DEFINE a == [r EXCEPT !.tx = s]
           d == [a EXCEPT !.tx_end = t]
<1>1. IsRec(a) /\ \A f \in {"page", "holds", "seq", "pos", "incomplete", "continues", "status", "continued"} : a[f] = r[f]
  BY DEF RecOK, IsRec
<1> HIDE DEF a
<1>2. IsRec(d) /\ \A f \in {"page", "holds", "seq", "pos", "incomplete", "continues", "status", "continued"} : d[f] = a[f]
  BY <1>1 DEF IsRec
<1>3. [r EXCEPT !.tx = s, !.tx_end = t] = d
  BY DEF a, d
<1> HIDE DEF d
<1>4. /\ d.page = r.page /\ d.holds = r.holds /\ d.seq = r.seq /\ d.pos = r.pos
      /\ d.incomplete = r.incomplete /\ d.continues = r.continues /\ d.status = r.status
      /\ d.continued = r.continued
  BY <1>1, <1>2
<1>5. RecOK(d)
  BY <1>2, <1>4 DEF RecOK, OnBook
<1> QED BY <1>3, <1>5

-----------------------------------------------------------------------------
(***************************************************************************)
(* What is always so: records are of the book, what was loaded is records, *)
(* a run reads pages of the book.                                          *)
(***************************************************************************)
RunsOK ==
    /\ DOMAIN seen = Jobs /\ DOMAIN targets = Jobs /\ DOMAIN tried = Jobs
    /\ DOMAIN reading = Jobs /\ DOMAIN pc = Jobs
    /\ \A j \in Jobs : /\ IsFiniteSet(targets[j])
                       /\ \A r \in targets[j] : r[1] \in Pages
                       /\ reading[j] \subseteq Left(j)
                       /\ pc[j] # "waiting" => reading[j] = {}

AllLoaded == (\A j \in Jobs : LoadedOK(seen[j])) /\ LoadedOK(merging)

RecInv ==
    /\ RecordsOK(records)
    /\ RunsOK
    /\ AllLoaded

LEMMA NothingLoaded == LoadedOK(<<>>)
<1>1. DOMAIN <<>> = {} /\ 0 \in Nat
  OBVIOUS
<1> QED BY <1>1 DEF LoadedOK

LEMMA RecInit == Init => RecInv
<1> SUFFICES ASSUME Init PROVE RecInv
  OBVIOUS
<1>1. RecordsOK(<<>>)
  <2>1. <<>> \in Seq({})
    OBVIOUS
  <2>2. IsSequence(<<>>)
    BY <2>1 DEF IsSequence
  <2> QED BY <2>2 DEF RecordsOK
<1>2. RunsOK
  BY FS_EmptySet DEF Init, RunsOK
<1> QED BY <1>1, <1>2, NothingLoaded DEF Init, RecInv, AllLoaded

\* The rows a run may select.
LEMMA Selected ==
    /\ IsFiniteSet(select_targets)
    /\ \A r \in select_targets : r[1] \in Pages
    /\ \A r \in select_targets : r = Row(r[1])
    /\ select_targets \subseteq Unread(records)
<1> DEFINE S == {Row(p) : p \in Pages}
           f == [p \in Pages |-> Row(p)]
<1>1. IsFiniteSet(S)
  <2>1. f \in Surjection(Pages, S)
    BY DEF Surjection
  <2> QED BY <2>1, PagesAre, FS_Surjection
<1>2. select_targets \in SUBSET S /\ select_targets \subseteq Unread(records)
  BY DEF select_targets, Unread
<1>3. \A r \in S : r[1] \in Pages /\ r = Row(r[1])
  BY DEF Row
<1> QED BY <1>1, <1>2, <1>3, FS_Subset

LEMMA SameRecords ==
    ASSUME NEW V, NEW X, RecordsOK(X), SameBut(V, X),
           \A i \in DOMAIN X : V[i].status = "deleted" <=> X[i].status = "deleted"
    PROVE  RecordsOK(V)
<1>1. \A i \in DOMAIN X : RecOK(V[i])
  BY SameFields
<1> QED BY <1>1 DEF RecordsOK, SameBut

\* A function on the positions of a sequence is a sequence.
LEMMA MappedSeq ==
    ASSUME NEW X, IsSequence(X), NEW V, V = [i \in DOMAIN X |-> V[i]]
    PROVE  IsSequence(V)
<1>1. PICK S : X \in Seq(S)
  BY DEF IsSequence
<1> DEFINE T == {V[i] : i \in DOMAIN X}
<1>2. V \in [1..Len(X) -> T] /\ Len(X) \in Nat
  BY <1>1
<1>3. V \in Seq(T)
  BY <1>2
<1> QED BY <1>3 DEF IsSequence

LEMMA Superseded ==
    ASSUME NEW X, RecordsOK(X), NEW row
    PROVE  /\ SameBut(superseded(X, row), X)
           /\ \A i \in DOMAIN X : superseded(X, row)[i].status \in {X[i].status, "superseded"}
           /\ \A i \in DOMAIN X : superseded(X, row)[i].status = "deleted" <=> X[i].status = "deleted"
           /\ RecordsOK(superseded(X, row))
<1> DEFINE V == superseded(X, row)
<1>1. DOMAIN V = DOMAIN X /\ V = [i \in DOMAIN X |-> V[i]]
  BY DEF superseded
<1>2. \A i \in DOMAIN X : IsRec(X[i])
  BY DEF RecordsOK, RecOK
<1>3. \A i \in DOMAIN X : /\ V[i] = [X[i] EXCEPT !.status = V[i].status]
                          /\ V[i].status \in {X[i].status, "superseded"}
                          /\ V[i].status = "deleted" <=> X[i].status = "deleted"
  <2> SUFFICES ASSUME NEW i \in DOMAIN X
               PROVE  /\ V[i] = [X[i] EXCEPT !.status = V[i].status]
                      /\ V[i].status \in {X[i].status, "superseded"}
                      /\ V[i].status = "deleted" <=> X[i].status = "deleted"
    OBVIOUS
  <2>1. \/ V[i] = X[i]
        \/ V[i] = [X[i] EXCEPT !.status = "superseded"] /\ X[i].status # "deleted"
    BY DEF superseded
  <2> HIDE DEF V
  <2>2. IsRec(X[i])
    BY <1>2
  <2> QED BY <2>1, <2>2 DEF IsRec
<1> HIDE DEF V
<1>4. IsSequence(V)
  BY <1>1, MappedSeq DEF RecordsOK
<1>5. SameBut(V, X)
  BY <1>1, <1>3, <1>4 DEF SameBut
<1> QED BY <1>3, <1>5, SameRecords DEF V

LEMMA RunsStep == RunsOK /\ [Next]_vars => RunsOK'
<1> SUFFICES ASSUME RunsOK, [Next]_vars PROVE RunsOK'
  OBVIOUS
<1> USE DEF RunsOK, run, Left
<1>1. CASE UNCHANGED vars
  BY <1>1 DEF vars
<1>2. ASSUME NEW j \in Jobs, NEW m, insert_job(j, m) PROVE RunsOK'
  BY <1>2 DEF insert_job
<1>3. ASSUME NEW j \in Jobs, create_job(j) PROVE RunsOK'
  BY <1>2, <1>3 DEF create_job
<1>4. ASSUME NEW j \in Jobs, reextract_transcription(j) PROVE RunsOK'
  BY <1>2, <1>4 DEF reextract_transcription
<1>5. ASSUME NEW j \in Jobs, cancel_job(j) PROVE RunsOK'
  BY <1>5 DEF cancel_job
<1>6. ASSUME NEW j \in Jobs, leave(j) PROVE RunsOK'
  BY <1>6, FS_EmptySet DEF leave
<1>7. ASSUME NEW j \in Jobs, no_provider(j) \/ batch_failed(j) \/ leave_cancelled(j) \/ dies(j) \/ finish(j)
      PROVE  RunsOK'
  BY <1>6, <1>7 DEF no_provider, batch_failed, leave_cancelled, dies, finish
<1>8. ASSUME NEW j \in Jobs, begin(j) PROVE RunsOK'
  <2>1. targets' = [targets EXCEPT ![j] = select_targets] /\ pc' = [pc EXCEPT ![j] = "pages"]
        /\ UNCHANGED <<seen, tried, reading>>
    BY <1>8 DEF begin
  <2>2. PICK S : S = select_targets
    OBVIOUS
  <2>3. reading[j] = {} /\ pc[j] = "queued"
    BY <1>8 DEF begin
  <2> QED BY <2>1, <2>2, <2>3, Selected
<1>9. ASSUME NEW j \in Jobs, NEW rows \in SUBSET Left(j), wait_for(j, rows) PROVE RunsOK'
  BY <1>9 DEF wait_for
<1>10. ASSUME NEW j \in Jobs, next_chunk(j) PROVE RunsOK'
  BY <1>9, <1>10 DEF next_chunk
<1>11. ASSUME NEW j \in Jobs, poll_batch(j) PROVE RunsOK'
  <2>1. batch'[j] \cap targets[j] \in SUBSET Left(j)
    BY <1>11 DEF poll_batch
  <2> QED BY <1>9, <1>11, <2>1 DEF poll_batch
<1>12. ASSUME NEW j \in Jobs, persist(j) PROVE RunsOK'
  <2>1. PICK t, q : /\ tried' = [tried EXCEPT ![j] = t] /\ reading' = [reading EXCEPT ![j] = {}]
                    /\ pc' = [pc EXCEPT ![j] = q] /\ UNCHANGED <<targets, seen>>
    BY <1>12 DEF persist
  <2> QED BY <2>1
<1>13. ASSUME NEW j \in Jobs, load_records(j) PROVE RunsOK'
  <2>1. pc[j] # "waiting" /\ reading[j] = {}
    BY <1>13 DEF load_records
  <2>2. PICK l : seen' = [seen EXCEPT ![j] = l] /\ pc' = [pc EXCEPT ![j] = "stitching"]
                 /\ UNCHANGED <<targets, tried, reading>>
    BY <1>13 DEF load_records
  <2> QED BY <2>1, <2>2
<1>14. ASSUME NEW j \in Jobs, stitch_spans(j) PROVE RunsOK'
  <2>1. pc[j] # "waiting" /\ reading[j] = {}
    BY <1>14 DEF stitch_spans
  <2> QED BY <1>14, <2>1 DEF stitch_spans
<1>15. ASSUME NEW j \in Jobs, crash(j) PROVE RunsOK'
  BY <1>15, FS_EmptySet DEF crash
<1>16. CASE merge_load \/ merge_with_next \/ split_record \/ recognise \/ reconcile_versions
  BY <1>16 DEF merge_load, merge_with_next, split_record, recognise, reconcile_versions
<1> QED BY <1>1, <1>3, <1>4, <1>5, <1>7, <1>8, <1>10, <1>11, <1>12, <1>13, <1>14, <1>15, <1>16 DEF Next, Step

\* The records a commit leaves are records of the book.
LEMMA RecordsStep == RecInv /\ [Next]_vars => RecordsOK(records')
<1> SUFFICES ASSUME RecInv, [Next]_vars PROVE RecordsOK(records')
  OBVIOUS
<1>1. RecordsOK(records) /\ (\A j \in Jobs : LoadedOK(seen[j])) /\ LoadedOK(merging) /\ RunsOK
  BY DEF RecInv, AllLoaded
<1>2. ASSUME UNCHANGED records PROVE RecordsOK(records')
  BY <1>1, <1>2
<1>3. ASSUME NEW j \in Jobs, create_job(j) \/ cancel_job(j) PROVE UNCHANGED records
  BY <1>3 DEF create_job, cancel_job
<1>4. ASSUME NEW j \in Jobs, reextract_transcription(j) PROVE RecordsOK(records')
  BY <1>1, <1>4, Superseded DEF reextract_transcription
<1>5. ASSUME NEW j \in Jobs, no_provider(j) \/ batch_failed(j) \/ leave_cancelled(j) \/ dies(j) \/ finish(j)
      PROVE  UNCHANGED records
  BY <1>5 DEF no_provider, batch_failed, leave_cancelled, dies, finish
<1>6. ASSUME NEW j \in Jobs, begin(j) \/ next_chunk(j) \/ poll_batch(j) \/ load_records(j) \/ crash(j)
      PROVE  UNCHANGED records
  BY <1>6 DEF begin, next_chunk, poll_batch, load_records, crash, wait_for
<1>7. ASSUME NEW j \in Jobs, persist(j) PROVE RecordsOK(records')
  <2>1. PICK ok \in SUBSET reading[j] : \E noted \in [ok -> BOOLEAN] :
           records' = records \o SetToSeq(UNION {page_records(r, noted[r]) : r \in ok})
    BY <1>7 DEF persist
  <2>0. PICK noted \in [ok -> BOOLEAN] :
           records' = records \o SetToSeq(UNION {page_records(r, noted[r]) : r \in ok})
    BY <2>1
  <2>2. IsFiniteSet(ok) /\ \A r \in ok : r[1] \in Pages
    <3>1. ok \in SUBSET targets[j] /\ IsFiniteSet(targets[j])
      BY <1>1 DEF RunsOK, Left
    <3> QED BY <1>1, <3>1, FS_Subset DEF RunsOK
  <2> QED BY <1>1, <2>0, <2>2, ReadIs
<1>8. ASSUME NEW j \in Jobs, stitch_spans(j) PROVE RecordsOK(records')
  <2>1. PICK answered \in BOOLEAN :
           records' = validate_sequence(Merged(records, seen[j], boundaries(seen[j]), answered))
    BY <1>8 DEF stitch_spans
  <2>2. RecordsOK(Merged(records, seen[j], boundaries(seen[j]), answered))
    BY <1>1, StitchIs DEF MergeResult
  <2> QED BY <2>1, <2>2, Validated
<1>9. CASE merge_load \/ recognise
  BY <1>2, <1>9 DEF merge_load, recognise
<1>10. CASE merge_with_next
  <2>1. PICK answered \in BOOLEAN, i \in DOMAIN merging, k \in DOMAIN merging :
           records' = IF Broken(merging, <<i, k>>) THEN records
                      ELSE Merged(records, merging, {<<i, k>>}, answered)
    BY <1>10 DEF merge_with_next
  <2> QED BY <1>1, <2>1, MergeIs DEF MergeResult
<1>11. CASE split_record
  <2>1. PICK i \in DOMAIN records :
           records' = [records EXCEPT ![i] = [@ EXCEPT !.continued = FALSE, !.page_end = None,
                                                       !.tx_end = None, !.manual = TRUE]]
    BY <1>11 DEF split_record
  <2>2. RecOK([records[i] EXCEPT !.continued = FALSE, !.page_end = None, !.tx_end = None, !.manual = TRUE])
    BY <1>1, SplitRecord DEF RecordsOK
  <2>3. PICK r : r = [records[i] EXCEPT !.continued = FALSE, !.page_end = None, !.tx_end = None, !.manual = TRUE]
    OBVIOUS
  <2>4. records' = [records EXCEPT ![i] = r]
    BY <2>1, <2>3
  <2>5. PICK S : records \in Seq(S)
    BY <1>1 DEF RecordsOK, IsSequence
  <2>6. records' \in Seq(S \cup {r}) /\ DOMAIN records' = DOMAIN records
    BY <2>4, <2>5
  <2>7. \A k \in DOMAIN records : RecOK(records'[k])
    BY <1>1, <2>2, <2>3, <2>4 DEF RecordsOK
  <2> QED BY <2>6, <2>7 DEF RecordsOK, IsSequence
<1>12. CASE reconcile_versions
  <2>1. records' = [i \in DOMAIN records |-> [records[i] EXCEPT !.tx = Unlink(@), !.tx_end = Unlink(@)]]
    BY <1>12 DEF reconcile_versions
  <2>2. \A i \in DOMAIN records : RecOK(records'[i])
    BY <1>1, <2>1, UnlinkedRecord DEF RecordsOK
  <2>3. IsSequence(records') /\ DOMAIN records' = DOMAIN records
    BY <1>1, <2>1, MappedSeq DEF RecordsOK
  <2> QED BY <2>2, <2>3 DEF RecordsOK
<1>13. CASE UNCHANGED vars
  BY <1>2, <1>13 DEF vars
<1> QED BY <1>2, <1>3, <1>4, <1>5, <1>6, <1>7, <1>8, <1>9, <1>10, <1>11, <1>12, <1>13 DEF Next, Step

LEMMA LiveLoaded ==
    ASSUME RecordsOK(records), NEW S \in SUBSET Live(records)
    PROVE  LoadedOK([i \in S |-> records[i]])
<1>1. PICK n \in Nat : DOMAIN records = 1..n
  BY DEF RecordsOK, IsSequence
<1> DEFINE L == [i \in S |-> records[i]]
<1>2. DOMAIN L \subseteq 1..n
  BY <1>1 DEF Live
<1>3. \A i \in DOMAIN L : RecOK(L[i]) /\ L[i].status \in Active
  BY DEF Live, RecordsOK
<1> QED BY <1>2, <1>3 DEF LoadedOK

\* A merge by hand loads two live records.
LEMMA LoadsLive ==
    ASSUME RecInv, merge_load
    PROVE  \E S : merging' = [k \in S |-> records[k]] /\ S \subseteq Live(records) /\ UNCHANGED seen
<1>1. PICK i \in Live(records) :
        /\ {k \in Live(records) : records[k].page = records[i].page + 1} # {}
        /\ merging' = [k \in {i, first_on([l \in {k \in Live(records) : records[k].page = records[i].page + 1} |-> records[l]],
                                          records[i].page + 1)}
                         |-> records[k]]
        /\ UNCHANGED seen
  BY DEF merge_load, run
<1> DEFINE next == {k \in Live(records) : records[k].page = records[i].page + 1}
           L == [l \in next |-> records[l]]
<1>2. LoadedOK(L)
  BY LiveLoaded DEF RecInv
<1>3. OnPage(L, records[i].page + 1) = next
  BY DEF OnPage
<1>4. first_on(L, records[i].page + 1) \in next
  BY <1>1, <1>2, <1>3, FirstOn
<1> QED BY <1>1, <1>4

LEMMA LoadedStep ==
    RecInv /\ [Next]_vars => AllLoaded'
<1> SUFFICES ASSUME RecInv, [Next]_vars PROVE AllLoaded'
  OBVIOUS
<1> USE DEF run
<1>1. RecordsOK(records) /\ (\A j \in Jobs : LoadedOK(seen[j])) /\ LoadedOK(merging) /\ DOMAIN seen = Jobs
  BY DEF RecInv, RunsOK, AllLoaded
<1>2. ASSUME UNCHANGED <<seen, merging>> PROVE AllLoaded'
  BY <1>1, <1>2 DEF AllLoaded
<1>3. ASSUME NEW j \in Jobs, seen' = [seen EXCEPT ![j] = <<>>], UNCHANGED merging PROVE AllLoaded'
  BY <1>1, <1>3, NothingLoaded DEF AllLoaded
<1>4. ASSUME NEW j \in Jobs, create_job(j) \/ cancel_job(j) \/ reextract_transcription(j) PROVE AllLoaded'
  BY <1>2, <1>4 DEF create_job, cancel_job, reextract_transcription, insert_job
<1>5. ASSUME NEW j \in Jobs, no_provider(j) \/ batch_failed(j) \/ leave_cancelled(j) \/ dies(j) \/ finish(j)
      PROVE  AllLoaded'
  BY <1>3, <1>5 DEF no_provider, batch_failed, leave_cancelled, dies, finish, leave
<1>6. ASSUME NEW j \in Jobs, begin(j) \/ next_chunk(j) \/ poll_batch(j) \/ persist(j)
      PROVE  AllLoaded'
  BY <1>2, <1>6 DEF begin, next_chunk, poll_batch, wait_for, persist
<1>7. ASSUME NEW j \in Jobs, stitch_spans(j) \/ crash(j) PROVE AllLoaded'
  BY <1>3, <1>7 DEF stitch_spans, crash
<1>8. ASSUME NEW j \in Jobs, load_records(j) PROVE AllLoaded'
  <2>1. PICK l : l = [i \in Live(records) |-> records[i]]
    OBVIOUS
  <2>2. seen' = [seen EXCEPT ![j] = l] /\ merging' = merging
    BY <1>8, <2>1 DEF load_records
  <2>3. LoadedOK(l)
    BY <1>1, <2>1, LiveLoaded
  <2> QED BY <1>1, <2>2, <2>3 DEF AllLoaded
<1>9. CASE merge_load
  <2>1. PICK S : merging' = [k \in S |-> records[k]] /\ S \subseteq Live(records) /\ UNCHANGED seen
    BY <1>9, LoadsLive
  <2>2. LoadedOK([k \in S |-> records[k]])
    BY <1>1, <2>1, LiveLoaded
  <2> QED BY <1>1, <2>1, <2>2 DEF AllLoaded
<1>10. CASE merge_with_next
  BY <1>1, <1>10, NothingLoaded DEF merge_with_next, AllLoaded
<1>11. CASE split_record \/ recognise \/ reconcile_versions
  BY <1>2, <1>11 DEF split_record, recognise, reconcile_versions
<1>12. CASE UNCHANGED vars
  BY <1>2, <1>12 DEF vars
<1> QED BY <1>4, <1>5, <1>6, <1>7, <1>8, <1>9, <1>10, <1>11, <1>12 DEF Next, Step

LEMMA RecStep == RecInv /\ [Next]_vars => RecInv'
BY RecordsStep, LoadedStep, RunsStep DEF RecInv

-----------------------------------------------------------------------------
(***************************************************************************)
(* Doubles are flagged.                                                    *)
(***************************************************************************)

LEMMA OnlyStitching ==
    ASSUME RecInv, NEW j \in Jobs, [Next]_vars, Stitched(j)
    PROVE  stitch_spans(j)
<1> USE DEF Stitched, RecInv, RunsOK, run
<1>1. ASSUME UNCHANGED pc PROVE FALSE
  BY <1>1
<1>2. ASSUME NEW i \in Jobs, NEW s \in {"queued", "done", "pages", "waiting", "loading", "stitching"},
             pc' = [pc EXCEPT ![i] = s]
      PROVE  FALSE
  BY <1>2
<1>3. ASSUME NEW i \in Jobs, create_job(i) \/ cancel_job(i) \/ reextract_transcription(i) PROVE FALSE
  BY <1>1, <1>2, <1>3 DEF create_job, cancel_job, reextract_transcription, insert_job
<1>4. ASSUME NEW i \in Jobs, no_provider(i) \/ batch_failed(i) \/ leave_cancelled(i) \/ dies(i) \/ finish(i)
      PROVE  FALSE
  BY <1>2, <1>4 DEF no_provider, batch_failed, leave_cancelled, dies, finish, leave
<1>5. ASSUME NEW i \in Jobs, begin(i) \/ next_chunk(i) \/ poll_batch(i) \/ load_records(i) \/ crash(i)
      PROVE  FALSE
  BY <1>2, <1>5 DEF begin, next_chunk, poll_batch, wait_for, load_records, crash
<1>6. ASSUME NEW i \in Jobs, persist(i) PROVE FALSE
  <2>1. after_pages(i) \in {"pages", "loading"} /\ pc' = [pc EXCEPT ![i] = after_pages(i)]
    BY <1>6 DEF persist, after_pages
  <2> QED BY <1>2, <2>1
<1>7. ASSUME NEW i \in Jobs, stitch_spans(i) PROVE i = j
  BY <1>7 DEF stitch_spans
<1>8. CASE merge_load \/ merge_with_next \/ split_record \/ recognise \/ reconcile_versions
  BY <1>1, <1>8 DEF merge_load, merge_with_next, split_record, recognise, reconcile_versions
<1>9. CASE UNCHANGED vars
  BY <1>1, <1>9 DEF vars
<1> QED BY <1>3, <1>4, <1>5, <1>6, <1>7, <1>8, <1>9 DEF Next, Step

\* Of any two live records with one number, whoever made them and whatever else was under
\* way, at least one is flagged when a run ends (_validate_sequence,
\* extraction_tasks.py 285-323).
THEOREM NoDoubleUnseen == Spec => DoublesAreFlagged
<1>1. RecInv /\ [Next]_vars =>
        [\A j \in Jobs : Stitched(j) =>
            \A i, k \in Numbered(records)' : records'[i].seq = records'[k].seq /\ i # k
               => "needs_review" \in {records'[i].status, records'[k].status}]_vars
  <2> SUFFICES ASSUME RecInv, [Next]_vars, NEW j \in Jobs, Stitched(j),
                      NEW i \in Numbered(records'), NEW k \in Numbered(records'),
                      records'[i].seq = records'[k].seq, i # k
               PROVE  "needs_review" \in {records'[i].status, records'[k].status}
    OBVIOUS
  <2>1. PICK answered \in BOOLEAN :
          records' = validate_sequence(Merged(records, seen[j], boundaries(seen[j]), answered))
    BY OnlyStitching DEF stitch_spans
  <2>2. PICK X : X = Merged(records, seen[j], boundaries(seen[j]), answered)
    OBVIOUS
  <2>3. RecordsOK(X)
    BY <2>2, StitchIs DEF RecInv, AllLoaded, MergeResult
  <2>9. PICK V : V = records' /\ V = validate_sequence(X)
    BY <2>1, <2>2
  <2>10. /\ SameBut(V, X) /\ Live(V) = Live(X)
         /\ \A l \in DOMAIN X : V[l].status = IF l \in Warned(X) THEN "needs_review" ELSE X[l].status
         /\ \A l \in DOMAIN X : V[l].status = "deleted" <=> X[l].status = "deleted"
    BY <2>3, <2>9, Validated
  <2>11. \A l \in DOMAIN X : V[l].seq = X[l].seq
    BY <2>3, <2>10, SameFields
  <2>4. /\ Live(records') = Live(X) /\ DOMAIN records' = DOMAIN X
        /\ \A l \in DOMAIN X : records'[l].status = IF l \in Warned(X) THEN "needs_review" ELSE X[l].status
        /\ \A l \in DOMAIN X : records'[l].seq = X[l].seq
    BY <2>9, <2>10, <2>11 DEF SameBut
  <2>5. i \in Numbered(X) /\ k \in Numbered(X) /\ X[i].seq = X[k].seq /\ i \in DOMAIN X /\ k \in DOMAIN X
    BY <2>4 DEF Numbered, Live
  <2>6. i < k \/ k < i
    BY <2>3, <2>5 DEF RecordsOK, IsSequence
  <2>7. i \in Warned(X) \/ k \in Warned(X)
    BY <2>3, <2>5, <2>6, DoublesFlagged
  <2> QED BY <2>4, <2>5, <2>7
<1> QED BY <1>1, RecInit, RecStep, PTL DEF Spec, DoublesAreFlagged

-----------------------------------------------------------------------------
(***************************************************************************)
(* A run nothing overlaps: it is the only one, no merge is under way, and  *)
(* what it or a merge has loaded is what is there.                         *)
(***************************************************************************)
SoleInv ==
    ~overlapped =>
        /\ \A a, b \in Running : a = b
        /\ Running # {} => merging = <<>>
        /\ \A j \in Jobs : pc[j] = "stitching" => seen[j] = [i \in Live(records) |-> records[i]]
        /\ \A i \in DOMAIN merging : i \in Live(records) /\ merging[i] = records[i]

LEMMA SoleInit == Init => SoleInv
<1>1. DOMAIN <<>> = {}
  OBVIOUS
<1> QED BY <1>1 DEF Init, SoleInv, Running

LEMMA AloneIs == alone /\ ~overlapped' => ~overlapped /\ Running = {} /\ merging = <<>>
BY DEF alone

\* Steps that write no record, load none and start no run.
LEMMA SoleQuiet ==
    ASSUME SoleInv, UNCHANGED <<records, merging, overlapped>>, NEW j \in Jobs, NEW s, NEW l,
           DOMAIN pc = Jobs, DOMAIN seen = Jobs,
           \/ UNCHANGED <<pc, seen>>
           \/ /\ pc' = [pc EXCEPT ![j] = s] /\ (UNCHANGED seen \/ seen' = [seen EXCEPT ![j] = l])
              /\ s # "stitching" /\ (s \in {"queued", "done"} \/ j \in Running)
    PROVE  SoleInv'
<1>1. CASE UNCHANGED <<pc, seen>>
  BY <1>1 DEF SoleInv, Running
<1>2. CASE /\ pc' = [pc EXCEPT ![j] = s] /\ (UNCHANGED seen \/ seen' = [seen EXCEPT ![j] = l])
           /\ s # "stitching" /\ (s \in {"queued", "done"} \/ j \in Running)
  <2>1. Running' \subseteq Running
    BY <1>2 DEF Running
  <2>2. \A i \in Jobs : pc'[i] = "stitching" => pc[i] = "stitching" /\ seen'[i] = seen[i]
    BY <1>2
  <2>3. Live(records)' = Live(records)
    BY DEF Live
  <2> QED BY <2>1, <2>2, <2>3 DEF SoleInv
<1> QED BY <1>1, <1>2

\* Steps of the one run there is, which may write records.
LEMMA SoleRun ==
    ASSUME SoleInv, UNCHANGED <<merging, overlapped>>, NEW j \in Running, NEW s, NEW l,
           DOMAIN pc = Jobs, DOMAIN seen = Jobs,
           pc' = [pc EXCEPT ![j] = s], UNCHANGED seen \/ seen' = [seen EXCEPT ![j] = l],
           s = "stitching" => seen'[j] = [i \in Live(records') |-> records'[i]]
    PROVE  SoleInv'
<1> SUFFICES ASSUME ~overlapped' PROVE SoleInv'
  BY DEF SoleInv
<1>1. ~overlapped /\ (\A a, b \in Running : a = b) /\ merging = <<>> /\ merging' = <<>>
  BY DEF SoleInv
<1>2. \A i \in Jobs : i # j => i \notin Running
  BY <1>1
<1>3. Running' \subseteq {j}
  BY <1>2 DEF Running
<1>4. \A i \in Jobs : pc'[i] = "stitching" => i = j /\ s = "stitching"
  BY <1>2 DEF Running
<1>5. \A i \in Jobs : pc'[i] = "stitching" => seen'[i] = [k \in Live(records') |-> records'[k]]
  BY <1>4
<1>6. DOMAIN <<>> = {}
  OBVIOUS
<1> QED BY <1>1, <1>3, <1>5, <1>6 DEF SoleInv

\* Steps taken while nothing else is under way.
LEMMA SoleAlone ==
    ASSUME alone, ~overlapped' => Running' = {},
           ~overlapped' /\ merging' # <<>> => \A i \in DOMAIN merging' :
                i \in Live(records') /\ merging'[i] = records'[i]
    PROVE  SoleInv'
<1> SUFFICES ASSUME ~overlapped' PROVE SoleInv'
  BY DEF SoleInv
<1>1. Running' = {}
  OBVIOUS
<1>2. \A j \in Jobs : pc'[j] # "stitching"
  BY <1>1 DEF Running
<1>3. \A i \in DOMAIN merging' : i \in Live(records') /\ merging'[i] = records'[i]
  <2>1. DOMAIN <<>> = {}
    OBVIOUS
  <2> QED BY <2>1
<1> QED BY <1>1, <1>2, <1>3 DEF SoleInv

LEMMA SoleStep == RecInv /\ SoleInv /\ [Next]_vars => SoleInv'
<1> SUFFICES ASSUME RecInv, SoleInv, [Next]_vars PROVE SoleInv'
  OBVIOUS
<1> USE DEF run
<1>1. DOMAIN pc = Jobs /\ DOMAIN seen = Jobs
  BY DEF RecInv, RunsOK
<1>2. ASSUME NEW j \in Jobs, create_job(j) \/ cancel_job(j) PROVE SoleInv'
  BY <1>1, <1>2, SoleQuiet DEF create_job, insert_job, cancel_job
<1>3. ASSUME NEW j \in Jobs, reextract_transcription(j) PROVE SoleInv'
  <2>1. alone /\ merging' = merging /\ pc' = [pc EXCEPT ![j] = "queued"]
    BY <1>3 DEF reextract_transcription, insert_job
  <2>2. ~overlapped' => Running' = {} /\ merging' = <<>>
    BY <1>1, <2>1, AloneIs DEF Running
  <2> QED BY <2>1, <2>2, SoleAlone
<1>4. ASSUME NEW j \in Jobs, no_provider(j) \/ batch_failed(j) \/ leave_cancelled(j) \/ dies(j) \/ finish(j)
      PROVE  SoleInv'
  BY <1>1, <1>4, SoleQuiet DEF no_provider, batch_failed, leave_cancelled, dies, finish, leave
<1>5. ASSUME NEW j \in Jobs, begin(j) PROVE SoleInv'
  <2> SUFFICES ASSUME ~overlapped' PROVE SoleInv'
    BY DEF SoleInv
  <2>1. alone /\ merging' = merging /\ pc' = [pc EXCEPT ![j] = "pages"]
    BY <1>5 DEF begin
  <2>2. Running = {} /\ merging' = <<>>
    BY <2>1, AloneIs
  <2>3. Running' \subseteq {j} /\ \A i \in Jobs : pc'[i] # "stitching"
    BY <1>1, <2>1, <2>2 DEF Running
  <2>4. DOMAIN <<>> = {}
    OBVIOUS
  <2> QED BY <2>2, <2>3, <2>4 DEF SoleInv
<1>6. ASSUME NEW j \in Jobs, next_chunk(j) \/ poll_batch(j) PROVE SoleInv'
  <2>1. j \in Running
    BY <1>6 DEF next_chunk, poll_batch, Running
  <2> QED BY <1>1, <1>6, <2>1, SoleQuiet DEF next_chunk, poll_batch, wait_for
<1>7. ASSUME NEW j \in Jobs, crash(j) PROVE SoleInv'
  BY <1>1, <1>7, SoleQuiet DEF crash
<1>8. ASSUME NEW j \in Jobs, persist(j) PROVE SoleInv'
  <2>1. j \in Running /\ after_pages(j) # "stitching"
    BY <1>8 DEF persist, Running, after_pages
  <2>2. pc' = [pc EXCEPT ![j] = after_pages(j)] /\ UNCHANGED <<seen, merging, overlapped>>
    BY <1>8 DEF persist
  <2> QED BY <1>1, <2>1, <2>2, SoleRun
<1>9. ASSUME NEW j \in Jobs, stitch_spans(j) PROVE SoleInv'
  <2>1. j \in Running
    BY <1>9 DEF stitch_spans, Running
  <2>2. pc' = [pc EXCEPT ![j] = "ending"] /\ seen' = [seen EXCEPT ![j] = <<>>]
        /\ UNCHANGED <<merging, overlapped>>
    BY <1>9 DEF stitch_spans
  <2> QED BY <1>1, <2>1, <2>2, SoleRun
<1>10. ASSUME NEW j \in Jobs, load_records(j) PROVE SoleInv'
  <2>1. j \in Running
    BY <1>10 DEF load_records, Running
  <2>2. PICK l : l = [i \in Live(records) |-> records[i]]
    OBVIOUS
  <2>3. pc' = [pc EXCEPT ![j] = "stitching"] /\ seen' = [seen EXCEPT ![j] = l]
        /\ UNCHANGED <<records, merging, overlapped>>
    BY <1>10, <2>2 DEF load_records
  <2>4. seen'[j] = [i \in Live(records') |-> records'[i]]
    BY <1>1, <2>2, <2>3
  <2> QED BY <1>1, <2>1, <2>3, <2>4, SoleRun
<1>11. CASE merge_load
  <2>1. alone /\ UNCHANGED <<pc, records>>
    BY <1>11 DEF merge_load
  <2>2. ~overlapped' => Running' = {}
    BY <2>1, AloneIs DEF Running
  <2>3. PICK S : merging' = [k \in S |-> records[k]] /\ S \subseteq Live(records)
    BY <1>11, LoadsLive
  <2> QED BY <2>1, <2>2, <2>3, SoleAlone
<1>12. CASE merge_with_next
  <2> SUFFICES ASSUME ~overlapped' PROVE SoleInv'
    BY DEF SoleInv
  <2>1. DOMAIN merging # {} /\ merging' = <<>> /\ UNCHANGED <<overlapped, pc>>
    BY <1>12 DEF merge_with_next
  <2>2. DOMAIN <<>> = {}
    OBVIOUS
  <2>3. Running = {}
    BY <2>1, <2>2 DEF SoleInv
  <2>4. Running' = {} /\ \A i \in Jobs : pc'[i] # "stitching"
    BY <2>1, <2>3 DEF Running
  <2> QED BY <2>1, <2>2, <2>4 DEF SoleInv
<1>13. CASE split_record \/ recognise \/ reconcile_versions
  <2>1. alone /\ UNCHANGED <<pc, merging>>
    BY <1>13 DEF split_record, recognise, reconcile_versions
  <2>2. ~overlapped' => Running' = {} /\ merging' = <<>>
    BY <2>1, AloneIs DEF Running
  <2> QED BY <2>1, <2>2, SoleAlone
<1>14. CASE UNCHANGED vars
  <2>1. UNCHANGED <<records, merging, overlapped, pc, seen>>
    BY <1>14 DEF vars
  <2> QED BY <2>1 DEF SoleInv, Running, Live
<1> QED BY <1>2, <1>3, <1>4, <1>5, <1>6, <1>7, <1>8, <1>9, <1>10, <1>11, <1>12, <1>13, <1>14 DEF Next, Step

-----------------------------------------------------------------------------
(***************************************************************************)
(* The active transcription of a page is one of its transcriptions.        *)
(***************************************************************************)
TxInv ==
    /\ DOMAIN tx = Pages /\ DOMAIN stored = Pages
    /\ \A p \in Pages : stored[p] \subseteq 1..MaxVersions /\ tx[p] \in stored[p]

LEMMA NewestIs ==
    ASSUME NEW S \in SUBSET (1..MaxVersions), S # {}
    PROVE  Newest(S) \in S
<1>1. \E v \in S : \A w \in S : w <= v
  BY LastOfSome, BoundsAssumption
<1> QED BY <1>1 DEF Newest

LEMMA TxInit == Init => TxInv
BY BoundsAssumption DEF Init, TxInv

LEMMA TxStep == TxInv /\ [Next]_vars => TxInv'
<1> SUFFICES ASSUME TxInv, [Next]_vars PROVE TxInv'
  OBVIOUS
<1>1. ASSUME UNCHANGED docs PROVE TxInv'
  BY <1>1 DEF docs, TxInv
<1>2. ASSUME NEW j \in Jobs, create_job(j) \/ cancel_job(j) \/ reextract_transcription(j) PROVE UNCHANGED docs
  BY <1>2 DEF create_job, cancel_job, reextract_transcription
<1>3. ASSUME NEW j \in Jobs, no_provider(j) \/ batch_failed(j) \/ leave_cancelled(j) \/ dies(j) \/ finish(j)
      PROVE  UNCHANGED docs
  BY <1>3 DEF no_provider, batch_failed, leave_cancelled, dies, finish
<1>4. ASSUME NEW j \in Jobs, begin(j) \/ next_chunk(j) \/ poll_batch(j) \/ load_records(j) \/ crash(j)
                             \/ persist(j) \/ stitch_spans(j)
      PROVE  UNCHANGED docs
  BY <1>4 DEF begin, next_chunk, poll_batch, load_records, crash, wait_for, persist, stitch_spans
<1>5. CASE merge_load \/ merge_with_next \/ split_record
  BY <1>1, <1>5 DEF merge_load, merge_with_next, split_record
<1>6. CASE recognise
  <2>1. PICK p \in Pages, active \in BOOLEAN :
          /\ Newest(stored[p]) + 1 <= MaxVersions
          /\ stored' = [stored EXCEPT ![p] = @ \cup {Newest(stored[p]) + 1}]
          /\ tx' = [tx EXCEPT ![p] = IF active THEN Newest(stored[p]) + 1 ELSE @]
    BY <1>6 DEF recognise
  <2>2. Newest(stored[p]) \in 1..MaxVersions
    BY NewestIs DEF TxInv
  <2>3. PICK v : v = Newest(stored[p]) + 1
    OBVIOUS
  <2>4. v \in 1..MaxVersions
    BY <2>1, <2>2, <2>3, BoundsAssumption
  <2> QED BY <2>1, <2>3, <2>4 DEF TxInv
<1>7. CASE reconcile_versions
  <2>1. PICK decided \in SUBSET {p \in Pages : Inactive(p) # {}} :
          /\ stored' = [p \in Pages |-> {v \in stored[p] : <<p, v>> \notin stale}]
          /\ tx' = [p \in Pages |-> IF p \in decided THEN Newest(Inactive(p)) ELSE tx[p]]
    BY <1>7 DEF reconcile_versions
  <2>2. ASSUME NEW p \in Pages PROVE tx'[p] \in stored'[p]
    <3>1. ASSUME p \in decided PROVE Newest(Inactive(p)) \in Inactive(p)
      BY <3>1, NewestIs DEF Inactive, TxInv
    <3>2. <<p, tx[p]>> \notin stale /\ <<p, Newest(Inactive(p))>> \notin stale
      BY DEF stale, Inactive
    <3> QED BY <2>1, <3>1, <3>2 DEF TxInv, Inactive
  <2> QED BY <2>1, <2>2 DEF TxInv
<1>8. CASE UNCHANGED vars
  BY <1>1, <1>8 DEF vars
<1> QED BY <1>1, <1>2, <1>3, <1>4, <1>5, <1>6, <1>7, <1>8 DEF Next, Step

-----------------------------------------------------------------------------
(***************************************************************************)
(* Nothing is lost.                                                        *)
(***************************************************************************)

LEMMA KeptIs ==
    ASSUME NEW rs, NEW vs, Held(rs) \subseteq Held(vs),
           \A h \in Parts : Row(h[1]) \in Unread(rs) => Row(h[1]) \in Unread(vs) \/ h \in Held(vs)
    PROVE  Kept(rs) \subseteq Kept(vs)
BY DEF Kept

LEMMA UnreadIs ==
    ASSUME NEW rs, NEW p \in Pages
    PROVE  Row(p) \in Unread(rs) <=> \A i \in Live(rs) : rs[i].tx # Row(p) /\ rs[i].tx_end # Row(p)
BY DEF Unread

\* A record of a page that was read, a record of a merge, records after the numbering pass.
ReadOf(x, r, k) ==
    /\ x.page = r[1] /\ x.pos = k /\ x.tx = r /\ x.tx_end = None /\ x.holds = {<<r[1], k>>}
    /\ ~x.continued /\ ~x.manual /\ x.status = "extracted"

LEMMA ReadOfIs ==
    ASSUME NEW r, r[1] \in Pages, NEW k \in DOMAIN Book[r[1]], NEW noted
    PROVE  ReadOf(page_record(r, k, noted), r, k)
BY DEF page_record, ReadOf

MergeOf(x, a, b) ==
    /\ x.page = a.page /\ x.pos = a.pos /\ x.tx = a.tx /\ x.page_end = b.page /\ x.tx_end = b.tx
    /\ x.continued /\ ~x.incomplete /\ ~x.continues /\ ~x.manual
    /\ x.holds \subseteq a.holds \cup b.holds
    /\ b.continues => x.holds = a.holds \cup b.holds

LEMMA MergeOfIs ==
    ASSUME NEW a, NEW b, RecOK(a), RecOK(b), a.status \in Active, b.status \in Active, NEW answered
    PROVE  /\ MergeOf(boundary_record(a, b, answered), a, b)
           /\ boundary_record(a, b, answered).status = "extracted"
<1> DEFINE x == boundary_record(a, b, answered)
<1>1. /\ x.page = a.page /\ x.pos = a.pos /\ x.tx = a.tx /\ x.page_end = b.page /\ x.tx_end = b.tx
      /\ x.continued /\ ~x.incomplete /\ ~x.continues /\ ~x.manual /\ x.status = "extracted"
      /\ x.holds = a.holds \cup {h \in b.holds : answered => h[1] = b.page}
  BY DEF boundary_record
<1>2. b.continues => \A h \in b.holds : h[1] = b.page
  BY DEF RecOK, OnBook, Active
<1>3. b.continues => {h \in b.holds : answered => h[1] = b.page} = b.holds
  BY <1>2
<1> HIDE DEF x
<1>4. MergeOf(x, a, b)
  BY <1>1, <1>3 DEF MergeOf
<1> QED BY <1>1, <1>4 DEF x

SameRec(x, y) ==
    /\ x.page = y.page /\ x.tx = y.tx /\ x.page_end = y.page_end /\ x.tx_end = y.tx_end
    /\ x.continued = y.continued /\ x.holds = y.holds /\ x.pos = y.pos
    /\ x.incomplete = y.incomplete /\ x.continues = y.continues /\ x.manual = y.manual

SameRecs(V, X) ==
    /\ RecordsOK(V) /\ DOMAIN V = DOMAIN X /\ Live(V) = Live(X)
    /\ \A i \in DOMAIN X : SameRec(V[i], X[i])

LEMMA ValidatedIs ==
    ASSUME NEW X, RecordsOK(X)
    PROVE  SameRecs(validate_sequence(X), X)
<1> DEFINE V == validate_sequence(X)
<1>1. /\ SameBut(V, X) /\ Live(V) = Live(X) /\ RecordsOK(V)
      /\ \A i \in DOMAIN X : V[i].status = "deleted" <=> X[i].status = "deleted"
  BY Validated
<1> HIDE DEF V
<1>2. ASSUME NEW i \in DOMAIN X PROVE SameRec(V[i], X[i])
  BY <1>1, SameFields DEF SameRec
<1>3. SameRecs(V, X)
  BY <1>1, <1>2 DEF SameRecs, SameBut
<1> QED BY <1>3 DEF V

\* What a merge of records loaded as they are leaves: every record but those it joined, and
\* one record for every two of them.
Leaves(V, rs, pairs) ==
    /\ RecordsOK(V) /\ DOMAIN rs \subseteq DOMAIN V
    /\ \A q \in pairs : /\ q = <<q[1], q[2]>> /\ q[1] \in Live(rs) /\ q[2] \in Live(rs)
                        /\ rs[q[2]].page = rs[q[1]].page + 1
    /\ \A i \in DOMAIN rs : i \in Live(V) <=> i \in Live(rs) /\ i \notin Used(pairs)
    /\ \A i \in DOMAIN rs \cap Live(V) : SameRec(V[i], rs[i])
    /\ \A n \in Live(V) \ DOMAIN rs : \E q \in pairs : MergeOf(V[n], rs[q[1]], rs[q[2]])
    /\ \A q \in pairs : \E n \in Live(V) \ DOMAIN rs : MergeOf(V[n], rs[q[1]], rs[q[2]])
    /\ \A n, m \in Live(V) \ DOMAIN rs : n # m =>
          \E q \in pairs : \E r \in pairs \ {q} :
              MergeOf(V[n], rs[q[1]], rs[q[2]]) /\ MergeOf(V[m], rs[r[1]], rs[r[2]])

LEMMA MergeOfSame ==
    ASSUME NEW x, NEW y, SameRec(x, y), NEW a, NEW b, MergeOf(y, a, b)
    PROVE  MergeOf(x, a, b)
BY DEF SameRec, MergeOf

LEMMA LeavesIs ==
    ASSUME NEW rs, RecordsOK(rs), NEW pairs, NEW L, NEW answered, NEW X,
           MergeResult(X, rs, L, pairs, answered), NEW V, SameRecs(V, X),
           \A q \in pairs : /\ q = <<q[1], q[2]>> /\ q[1] \in Live(rs) /\ q[2] \in Live(rs)
                            /\ L[q[1]] = rs[q[1]] /\ L[q[2]] = rs[q[2]]
                            /\ rs[q[2]].page = rs[q[1]].page + 1
    PROVE  Leaves(V, rs, pairs)
<1>4. MergeResult(X, rs, L, pairs, answered)
  OBVIOUS
<1>6. SameRecs(V, X)
  OBVIOUS
<1>7. ASSUME NEW q \in pairs
      PROVE  /\ q = <<q[1], q[2]>> /\ q[1] \in Live(rs) /\ q[2] \in Live(rs)
             /\ L[q[1]] = rs[q[1]] /\ L[q[2]] = rs[q[2]]
             /\ rs[q[2]].page = rs[q[1]].page + 1
  OBVIOUS
<1>8. ASSUME NEW q \in pairs
      PROVE  /\ MergeOf(boundary_record(L[q[1]], L[q[2]], answered), rs[q[1]], rs[q[2]])
             /\ boundary_record(L[q[1]], L[q[2]], answered).status = "extracted"
  <2>1. PICK a \in Live(rs) : a = q[1]
    BY <1>7
  <2>2. PICK b \in Live(rs) : b = q[2]
    BY <1>7
  <2>3. RecOK(rs[a]) /\ RecOK(rs[b]) /\ rs[a].status \in Active /\ rs[b].status \in Active
    BY DEF Live, RecordsOK
  <2>4. MergeOf(boundary_record(rs[a], rs[b], answered), rs[a], rs[b])
    BY <2>3, MergeOfIs
  <2>5. boundary_record(rs[a], rs[b], answered).status = "extracted"
    BY <2>3, MergeOfIs
  <2> QED BY <1>7, <2>1, <2>2, <2>4, <2>5
<1>9. /\ RecordsOK(V) /\ DOMAIN rs \subseteq DOMAIN V
      /\ DOMAIN V = DOMAIN X /\ Live(V) = Live(X) /\ \A i \in DOMAIN X : SameRec(V[i], X[i])
  BY <1>4, <1>6 DEF SameRecs, MergeResult
<1>10. /\ \A i \in DOMAIN rs : X[i] = IF i \in Used(pairs) THEN Deleted ELSE rs[i]
       /\ \A i \in DOMAIN X \ DOMAIN rs :
            \E q \in pairs : X[i] = boundary_record(L[q[1]], L[q[2]], answered)
       /\ \A q \in pairs :
            \E i \in DOMAIN X \ DOMAIN rs : X[i] = boundary_record(L[q[1]], L[q[2]], answered)
       /\ \A i, k \in DOMAIN X \ DOMAIN rs : X[i] = X[k] => i = k
  BY <1>4 DEF MergeResult
<1>11. \A i \in DOMAIN rs : i \in Live(V) <=> i \in Live(rs) /\ i \notin Used(pairs)
  <2> SUFFICES ASSUME NEW i \in DOMAIN rs PROVE i \in Live(X) <=> i \in Live(rs) /\ i \notin Used(pairs)
    BY <1>9
  <2>1. i \in DOMAIN X /\ X[i] = IF i \in Used(pairs) THEN Deleted ELSE rs[i]
    BY <1>9, <1>10
  <2>2. "deleted" \notin Active
    BY DEF Active
  <2> QED BY <2>1, <2>2, DeletedRecord DEF Live
<1>12. \A i \in DOMAIN rs \cap Live(V) : SameRec(V[i], rs[i])
  <2> SUFFICES ASSUME NEW i \in DOMAIN rs \cap Live(V) PROVE SameRec(V[i], rs[i])
    OBVIOUS
  <2>1. X[i] = rs[i] /\ i \in DOMAIN X
    BY <1>9, <1>10, <1>11
  <2> QED BY <1>9, <2>1
<1>13. ASSUME NEW n \in DOMAIN X \ DOMAIN rs, NEW q \in pairs,
              X[n] = boundary_record(L[q[1]], L[q[2]], answered)
       PROVE  n \in Live(V) \ DOMAIN rs /\ MergeOf(V[n], rs[q[1]], rs[q[2]])
  <2>1. MergeOf(X[n], rs[q[1]], rs[q[2]]) /\ X[n].status = "extracted"
    BY <1>8, <1>13
  <2>2. n \in Live(X)
    BY <2>1 DEF Live, Active
  <2>3. SameRec(V[n], X[n])
    BY <1>9
  <2> QED BY <1>9, <2>1, <2>2, <2>3, MergeOfSame
<1>14. Live(V) \ DOMAIN rs \subseteq DOMAIN X \ DOMAIN rs
  BY <1>9 DEF Live
<1>15. \A n \in Live(V) \ DOMAIN rs : \E q \in pairs : MergeOf(V[n], rs[q[1]], rs[q[2]])
  BY <1>10, <1>13, <1>14
<1>16. \A q \in pairs : \E n \in Live(V) \ DOMAIN rs : MergeOf(V[n], rs[q[1]], rs[q[2]])
  BY <1>10, <1>13
<1>17. \A n, m \in Live(V) \ DOMAIN rs : n # m =>
          \E q \in pairs : \E r \in pairs \ {q} :
              MergeOf(V[n], rs[q[1]], rs[q[2]]) /\ MergeOf(V[m], rs[r[1]], rs[r[2]])
  <2> SUFFICES ASSUME NEW n \in DOMAIN X \ DOMAIN rs, NEW m \in DOMAIN X \ DOMAIN rs, n # m
               PROVE  \E q \in pairs : \E r \in pairs \ {q} :
                         MergeOf(V[n], rs[q[1]], rs[q[2]]) /\ MergeOf(V[m], rs[r[1]], rs[r[2]])
    BY <1>14
  <2>1. PICK q \in pairs : X[n] = boundary_record(L[q[1]], L[q[2]], answered)
    BY <1>10
  <2>2. PICK r \in pairs : X[m] = boundary_record(L[r[1]], L[r[2]], answered)
    BY <1>10
  <2>3. q # r
    BY <1>10, <2>1, <2>2
  <2> QED BY <1>13, <2>1, <2>2, <2>3
<1> QED BY <1>7, <1>9, <1>11, <1>12, <1>15, <1>16, <1>17 DEF Leaves

\* A stitch pass that has loaded all there is joins the halves of acts split by a page break.
LEMMA BoundariesAre ==
    ASSUME NEW rs, RecordsOK(rs), NEW L, L = [i \in Live(rs) |-> rs[i]], LoadedOK(L), NEW q \in boundaries(L)
    PROVE  /\ q = <<q[1], q[2]>> /\ q[1] \in Live(rs) /\ q[2] \in Live(rs)
           /\ L[q[1]] = rs[q[1]] /\ L[q[2]] = rs[q[2]]
           /\ rs[q[2]].page = rs[q[1]].page + 1
           /\ Joins(rs[q[1]], rs[q[2]])
<1>1. PICK p \in Pages : /\ q = <<last_on(L, p), first_on(L, p + 1)>>
                         /\ last_on(L, p) \in OnPage(L, p)
                         /\ first_on(L, p + 1) \in OnPage(L, p + 1)
                         /\ Joins(L[last_on(L, p)], L[first_on(L, p + 1)])
  BY BoundaryFacts
<1>2. PICK a \in OnPage(L, p) : a = last_on(L, p)
  BY <1>1
<1>3. PICK b \in OnPage(L, p + 1) : b = first_on(L, p + 1)
  BY <1>1
<1>4. q = <<a, b>> /\ Joins(L[a], L[b])
  BY <1>1, <1>2, <1>3
<1>5. a \in Live(rs) /\ b \in Live(rs) /\ L[a] = rs[a] /\ L[b] = rs[b] /\ rs[a].page = p /\ rs[b].page = p + 1
  BY DEF OnPage
<1> QED BY <1>4, <1>5

LEMMA StitchLeavesIs ==
    ASSUME NEW rs, RecordsOK(rs), NEW L, L = [i \in Live(rs) |-> rs[i]], LoadedOK(L), NEW answered
    PROVE  Leaves(validate_sequence(Merged(rs, L, boundaries(L), answered)), rs, boundaries(L))
<1>1. PICK pairs : pairs = boundaries(L)
  OBVIOUS
<1>2. PICK X : X = Merged(rs, L, boundaries(L), answered)
  OBVIOUS
<1>3. PICK V : V = validate_sequence(X)
  OBVIOUS
<1>4. MergeResult(X, rs, L, pairs, answered)
  BY <1>1, <1>2, StitchIs
<1>5. RecordsOK(X)
  BY <1>4 DEF MergeResult
<1>6. SameRecs(V, X)
  BY <1>3, <1>5, ValidatedIs
<1>7. \A q \in pairs : /\ q = <<q[1], q[2]>> /\ q[1] \in Live(rs) /\ q[2] \in Live(rs)
                       /\ L[q[1]] = rs[q[1]] /\ L[q[2]] = rs[q[2]]
                       /\ rs[q[2]].page = rs[q[1]].page + 1
  BY <1>1, BoundariesAre
<1>8. Leaves(V, rs, pairs)
  BY <1>4, <1>6, <1>7, LeavesIs
<1> QED BY <1>1, <1>2, <1>3, <1>8

\* A merge by hand of two records as they are.
LEMMA HandLeavesIs ==
    ASSUME NEW rs, RecordsOK(rs), NEW L, LoadedOK(L), NEW i \in DOMAIN L, NEW k \in DOMAIN L,
           \A l \in DOMAIN L : l \in Live(rs) /\ L[l] = rs[l], L[k].page = L[i].page + 1, NEW answered
    PROVE  Leaves(Merged(rs, L, {<<i, k>>}, answered), rs, {<<i, k>>})
<1>1. PICK X : X = Merged(rs, L, {<<i, k>>}, answered)
  OBVIOUS
<1>2. MergeResult(X, rs, L, {<<i, k>>}, answered)
  BY <1>1, MergeIs
<1>3. SameRecs(X, X)
  BY <1>2 DEF MergeResult, SameRecs, SameRec
<1>4. Leaves(X, rs, {<<i, k>>})
  BY <1>2, <1>3, LeavesIs
<1> QED BY <1>1, <1>4

\* What storing the answers leaves: the records there were, and one for every act of a page
\* that was read.
ReadLeaves(V, rs, ok) ==
    /\ RecordsOK(V) /\ DOMAIN rs \subseteq DOMAIN V
    /\ \A i \in DOMAIN rs : V[i] = rs[i]
    /\ \A n \in DOMAIN V \ DOMAIN rs :
          \E r \in ok : \E k \in DOMAIN Book[r[1]] : ReadOf(V[n], r, k)
    /\ \A r \in ok : \A k \in DOMAIN Book[r[1]] :
          \E n \in DOMAIN V \ DOMAIN rs : ReadOf(V[n], r, k)
    /\ \A n, m \in DOMAIN V \ DOMAIN rs : V[n].tx = V[m].tx /\ V[n].pos = V[m].pos => n = m

LEMMA ReadLeavesIs ==
    ASSUME NEW rs, RecordsOK(rs), NEW ok, IsFiniteSet(ok), \A r \in ok : r[1] \in Pages, NEW noted
    PROVE  ReadLeaves(rs \o SetToSeq(UNION {page_records(r, noted[r]) : r \in ok}), rs, ok)
<1> DEFINE T == UNION {page_records(r, noted[r]) : r \in ok}
<1>1. PICK V : V = rs \o SetToSeq(T)
  OBVIOUS
<1>2. Appended(V, rs, T) /\ RecordsOK(V)
  BY <1>1, ReadIs
<1>3. /\ \A t \in T : \E r \in ok : \E k \in DOMAIN Book[r[1]] : t = page_record(r, k, noted[r])
      /\ \A r \in ok : \A k \in DOMAIN Book[r[1]] : page_record(r, k, noted[r]) \in T
  BY DEF page_records
<1> HIDE DEF T
<1>4. DOMAIN rs = 1..Len(rs) /\ DOMAIN V = 1..Len(V) /\ Len(rs) \in Nat /\ Len(V) \in Nat
  BY <1>2 DEF RecordsOK, IsSequence
<1>5. /\ Len(rs) <= Len(V) /\ \A i \in 1..Len(rs) : V[i] = rs[i]
      /\ \A i \in DOMAIN V : i > Len(rs) => V[i] \in T
      /\ \A t \in T : \E i \in DOMAIN V : i > Len(rs) /\ V[i] = t
      /\ \A i, k \in DOMAIN V : i > Len(rs) /\ k > Len(rs) /\ V[i] = V[k] => i = k
  BY <1>2 DEF Appended
<1>6. DOMAIN rs \subseteq DOMAIN V /\ \A i \in DOMAIN V : i \notin DOMAIN rs <=> i > Len(rs)
  BY <1>4, <1>5
<1>7. ASSUME NEW r \in ok, NEW k \in DOMAIN Book[r[1]]
      PROVE  ReadOf(page_record(r, k, noted[r]), r, k)
  BY <1>7, ReadOfIs
<1>8. \A n \in DOMAIN V \ DOMAIN rs :
          \E r \in ok : \E k \in DOMAIN Book[r[1]] : ReadOf(V[n], r, k) /\ V[n] = page_record(r, k, noted[r])
  <2> SUFFICES ASSUME NEW n \in DOMAIN V \ DOMAIN rs
               PROVE  \E r \in ok : \E k \in DOMAIN Book[r[1]] :
                         ReadOf(V[n], r, k) /\ V[n] = page_record(r, k, noted[r])
    OBVIOUS
  <2>1. V[n] \in T
    BY <1>5, <1>6
  <2>2. PICK r \in ok : \E k \in DOMAIN Book[r[1]] : V[n] = page_record(r, k, noted[r])
    BY <1>3, <2>1
  <2> QED BY <1>7, <2>2
<1>9. \A r \in ok : \A k \in DOMAIN Book[r[1]] :
          \E n \in DOMAIN V \ DOMAIN rs : ReadOf(V[n], r, k)
  <2> SUFFICES ASSUME NEW r \in ok, NEW k \in DOMAIN Book[r[1]]
               PROVE  \E n \in DOMAIN V \ DOMAIN rs : ReadOf(V[n], r, k)
    OBVIOUS
  <2>1. PICK n \in DOMAIN V : n > Len(rs) /\ V[n] = page_record(r, k, noted[r])
    BY <1>3, <1>5
  <2> QED BY <1>6, <1>7, <2>1
<1>10. \A n, m \in DOMAIN V \ DOMAIN rs : V[n].tx = V[m].tx /\ V[n].pos = V[m].pos => n = m
  <2> SUFFICES ASSUME NEW n \in DOMAIN V \ DOMAIN rs, NEW m \in DOMAIN V \ DOMAIN rs,
                      V[n].tx = V[m].tx, V[n].pos = V[m].pos
               PROVE  n = m
    OBVIOUS
  <2>1. PICK r \in ok : \E k \in DOMAIN Book[r[1]] : ReadOf(V[n], r, k) /\ V[n] = page_record(r, k, noted[r])
    BY <1>8
  <2>2. PICK k \in DOMAIN Book[r[1]] : ReadOf(V[n], r, k) /\ V[n] = page_record(r, k, noted[r])
    BY <2>1
  <2>3. PICK t \in ok : \E l \in DOMAIN Book[t[1]] : ReadOf(V[m], t, l) /\ V[m] = page_record(t, l, noted[t])
    BY <1>8
  <2>4. PICK l \in DOMAIN Book[t[1]] : ReadOf(V[m], t, l) /\ V[m] = page_record(t, l, noted[t])
    BY <2>3
  <2>5. r = t /\ k = l
    BY <2>2, <2>4 DEF ReadOf
  <2> QED BY <1>5, <1>6, <2>2, <2>4, <2>5
<1>11. \A i \in DOMAIN rs : V[i] = rs[i]
  BY <1>4, <1>5
<1>12. ReadLeaves(V, rs, ok)
  BY <1>2, <1>6, <1>8, <1>9, <1>10, <1>11 DEF ReadLeaves
<1> QED BY <1>1, <1>12 DEF T

\* A merge reads no page.
LEMMA MergeUnread ==
    ASSUME NEW rs, NEW pairs, NEW V, Leaves(V, rs, pairs)
    PROVE  Unread(rs) \subseteq Unread(V)
<1>1. /\ \A q \in pairs : q[1] \in Live(rs) /\ q[2] \in Live(rs)
      /\ \A i \in DOMAIN rs : i \in Live(V) <=> i \in Live(rs) /\ i \notin Used(pairs)
      /\ \A i \in DOMAIN rs \cap Live(V) : SameRec(V[i], rs[i])
      /\ \A n \in Live(V) \ DOMAIN rs : \E q \in pairs : MergeOf(V[n], rs[q[1]], rs[q[2]])
  BY DEF Leaves
<1>2. ASSUME NEW row, \A i \in Live(rs) : rs[i].tx # row /\ rs[i].tx_end # row, NEW n \in Live(V)
      PROVE  V[n].tx # row /\ V[n].tx_end # row
  <2>1. CASE n \in DOMAIN rs
    BY <1>1, <1>2, <2>1 DEF SameRec
  <2>2. CASE n \notin DOMAIN rs
    BY <1>1, <1>2, <2>2 DEF MergeOf
  <2> QED BY <2>1, <2>2
<1> SUFFICES ASSUME NEW p \in Pages, Row(p) \in Unread(rs) PROVE Row(p) \in Unread(V)
  BY DEF Unread
<1> QED BY <1>2, UnreadIs

LEMMA StitchKeeps ==
    ASSUME NEW rs, NEW pairs, NEW V, Leaves(V, rs, pairs), \A q \in pairs : rs[q[2]].continues
    PROVE  Kept(rs) \subseteq Kept(V)
<1>1. /\ \A q \in pairs : /\ q[1] \in Live(rs) /\ q[2] \in Live(rs)
                          /\ rs[q[2]].continues
      /\ \A i \in DOMAIN rs : i \in Live(V) <=> i \in Live(rs) /\ i \notin Used(pairs)
      /\ \A i \in DOMAIN rs \cap Live(V) : SameRec(V[i], rs[i])
      /\ \A n \in Live(V) \ DOMAIN rs : \E q \in pairs : MergeOf(V[n], rs[q[1]], rs[q[2]])
      /\ \A q \in pairs : \E n \in Live(V) \ DOMAIN rs : MergeOf(V[n], rs[q[1]], rs[q[2]])
  BY DEF Leaves
<1>2. \A q \in pairs : \E n \in Live(V) : V[n].holds = rs[q[1]].holds \cup rs[q[2]].holds
  BY <1>1 DEF MergeOf
<1>3. Held(rs) \subseteq Held(V)
  <2> SUFFICES ASSUME NEW i \in Live(rs), NEW h \in rs[i].holds PROVE h \in Held(V)
    BY DEF Held
  <2>1. CASE i \notin Used(pairs)
    BY <1>1, <2>1 DEF Held, SameRec, Live
  <2>2. CASE i \in Used(pairs)
    <3>1. PICK q \in pairs : i = q[1] \/ i = q[2]
      BY <2>2 DEF Used
    <3>2. PICK n \in Live(V) : V[n].holds = rs[q[1]].holds \cup rs[q[2]].holds
      BY <1>2
    <3> QED BY <3>1, <3>2 DEF Held
  <2> QED BY <2>1, <2>2
<1>4. \A h \in Parts : Row(h[1]) \in Unread(rs) => Row(h[1]) \in Unread(V)
  BY MergeUnread
<1> QED BY <1>3, <1>4, KeptIs

LEMMA RowIsNotNone == ASSUME TxInv, NEW p \in Pages PROVE Row(p) # None
<1>1. p \in Nat /\ tx[p] \in 1..MaxVersions
  BY PagesAre DEF TxInv
<1>2. <<p, tx[p]>> \in Nat \X Nat
  BY <1>1, BoundsAssumption
<1> QED BY <1>2, NoneAssumption DEF Row

LEMMA ReadKeeps ==
    ASSUME TxInv, NEW rs, NEW ok, NEW V, ReadLeaves(V, rs, ok)
    PROVE  Kept(rs) \subseteq Kept(V)
<1>1. /\ DOMAIN rs \subseteq DOMAIN V /\ \A i \in DOMAIN rs : V[i] = rs[i]
      /\ \A n \in DOMAIN V \ DOMAIN rs : \E r \in ok : \E k \in DOMAIN Book[r[1]] : ReadOf(V[n], r, k)
      /\ \A r \in ok : \A k \in DOMAIN Book[r[1]] : \E n \in DOMAIN V \ DOMAIN rs : ReadOf(V[n], r, k)
  BY DEF ReadLeaves
<1>2. \A i \in Live(rs) : i \in Live(V) /\ V[i] = rs[i]
  BY <1>1 DEF Live
<1>3. Held(rs) \subseteq Held(V)
  BY <1>2 DEF Held
<1>4. ASSUME NEW r \in ok, NEW k \in DOMAIN Book[r[1]] PROVE <<r[1], k>> \in Held(V)
  <2>1. PICK n \in DOMAIN V : ReadOf(V[n], r, k)
    BY <1>1
  <2>2. V[n].holds = {<<r[1], k>>} /\ n \in Live(V)
    BY <2>1 DEF ReadOf, Live, Active
  <2> QED BY <2>2 DEF Held
<1>5. ASSUME NEW p \in Pages, NEW k \in DOMAIN Book[p], Row(p) \in Unread(rs), Row(p) \notin Unread(V)
      PROVE  <<p, k>> \in Held(V)
  <2>1. PICK n \in Live(V) : V[n].tx = Row(p) \/ V[n].tx_end = Row(p)
    BY <1>5, UnreadIs
  <2>2. n \in DOMAIN V \ DOMAIN rs
    <3>1. n \notin Live(rs)
      BY <1>2, <1>5, <2>1, UnreadIs
    <3> QED BY <1>1, <3>1 DEF Live
  <2>3. PICK r \in ok : \E l \in DOMAIN Book[r[1]] : ReadOf(V[n], r, l)
    BY <1>1, <2>2
  <2>4. V[n].tx = r /\ V[n].tx_end = None
    BY <2>3 DEF ReadOf
  <2>5. r = Row(p)
    BY <2>1, <2>4, RowIsNotNone
  <2>6. r[1] = p
    BY <2>5 DEF Row
  <2> QED BY <1>4, <2>6
<1>6. \A h \in Parts : Row(h[1]) \in Unread(rs) => Row(h[1]) \in Unread(V) \/ h \in Held(V)
  <2> SUFFICES ASSUME NEW h \in Parts, Row(h[1]) \in Unread(rs), Row(h[1]) \notin Unread(V)
               PROVE  h \in Held(V)
    OBVIOUS
  <2>1. h[1] \in Pages /\ h[2] \in DOMAIN Book[h[1]] /\ h = <<h[1], h[2]>>
    BY DEF Parts
  <2> QED BY <1>5, <2>1
<1> QED BY <1>3, <1>6, KeptIs

LEMMA PersistLeaves ==
    ASSUME RecInv, NEW j \in Jobs, persist(j)
    PROVE  \E ok \in SUBSET reading[j] : ReadLeaves(records', records, ok)
<1>1. PICK ok \in SUBSET reading[j] : \E noted \in [ok -> BOOLEAN] :
         records' = records \o SetToSeq(UNION {page_records(r, noted[r]) : r \in ok})
  BY DEF persist
<1>2. PICK noted \in [ok -> BOOLEAN] :
         records' = records \o SetToSeq(UNION {page_records(r, noted[r]) : r \in ok})
  BY <1>1
<1>3. IsFiniteSet(ok) /\ \A r \in ok : r[1] \in Pages
  <2>1. ok \in SUBSET targets[j] /\ IsFiniteSet(targets[j]) /\ \A r \in targets[j] : r[1] \in Pages
    BY DEF RecInv, RunsOK, Left
  <2> QED BY <2>1, FS_Subset
<1>4. RecordsOK(records)
  BY DEF RecInv
<1>5. ReadLeaves(records \o SetToSeq(UNION {page_records(r, noted[r]) : r \in ok}), records, ok)
  BY <1>3, <1>4, ReadLeavesIs
<1> QED BY <1>2, <1>5

LEMMA StitchSpansLeaves ==
    ASSUME RecInv, SoleInv, ~overlapped, NEW j \in Jobs, stitch_spans(j)
    PROVE  /\ seen[j] = [k \in Live(records) |-> records[k]]
           /\ Leaves(records', records, boundaries(seen[j]))
           /\ \A q \in boundaries(seen[j]) : Joins(records[q[1]], records[q[2]])
<1>1. RecordsOK(records) /\ LoadedOK(seen[j])
  BY DEF RecInv, AllLoaded
<1>2. seen[j] = [k \in Live(records) |-> records[k]]
  BY DEF SoleInv, stitch_spans
<1>3. PICK answered \in BOOLEAN :
         records' = validate_sequence(Merged(records, seen[j], boundaries(seen[j]), answered))
  BY DEF stitch_spans
<1>4. Leaves(records', records, boundaries(seen[j]))
  BY <1>1, <1>2, <1>3, StitchLeavesIs
<1> QED BY <1>1, <1>2, <1>4, BoundariesAre

LEMMA KeptStep ==
    ASSUME RecInv, SoleInv, TxInv, [Next]_vars, ~overlapped', NEW j \in Jobs, pc[j] # "none", pc'[j] # pc[j]
    PROVE  Kept(records) \subseteq Kept(records)'
<1> USE DEF run
<1>1. DOMAIN pc = Jobs /\ RecordsOK(records)
  BY DEF RecInv, RunsOK
<1>2. ASSUME UNCHANGED <<docs, records>> PROVE Kept(records)' = Kept(records)
  BY <1>2 DEF docs, Kept, Held, Live, Unread, Row
<1>3. ASSUME UNCHANGED docs, NEW V, V = records', Kept(records) \subseteq Kept(V)
      PROVE  Kept(records) \subseteq Kept(records)'
  <2>1. Kept(records)' = Kept(V)
    BY <1>3 DEF docs, Kept, Held, Live, Unread, Row
  <2> QED BY <1>3, <2>1
<1>4. ASSUME NEW i \in Jobs, create_job(i) \/ reextract_transcription(i) PROVE FALSE
  <2>1. PICK m : insert_job(i, m)
    BY <1>4 DEF create_job, reextract_transcription
  <2>2. pc[i] = "none" /\ pc' = [pc EXCEPT ![i] = "queued"]
    BY <2>1 DEF insert_job
  <2> QED BY <1>1, <2>2
<1>5. ASSUME NEW i \in Jobs, \/ cancel_job(i) \/ no_provider(i) \/ batch_failed(i) \/ leave_cancelled(i)
                             \/ dies(i) \/ finish(i)
      PROVE  Kept(records) \subseteq Kept(records)'
  BY <1>2, <1>5 DEF cancel_job, no_provider, batch_failed, leave_cancelled, dies, finish
<1>6. ASSUME NEW i \in Jobs, begin(i) \/ next_chunk(i) \/ poll_batch(i) \/ load_records(i) \/ crash(i)
      PROVE  Kept(records) \subseteq Kept(records)'
  BY <1>2, <1>6 DEF begin, next_chunk, poll_batch, wait_for, load_records, crash
<1>7. ASSUME NEW i \in Jobs, persist(i) PROVE Kept(records) \subseteq Kept(records)'
  <2>1. \E ok : ReadLeaves(records', records, ok)
    BY <1>7, PersistLeaves
  <2>2. PICK V : V = records'
    OBVIOUS
  <2>3. Kept(records) \subseteq Kept(V)
    BY <2>1, <2>2, ReadKeeps
  <2>4. UNCHANGED docs
    BY <1>7 DEF persist
  <2> QED BY <1>3, <2>2, <2>3, <2>4
<1>8. ASSUME NEW i \in Jobs, stitch_spans(i) PROVE Kept(records) \subseteq Kept(records)'
  <2>1. UNCHANGED docs /\ ~overlapped
    BY <1>8 DEF stitch_spans
  <2>2. /\ Leaves(records', records, boundaries(seen[i]))
        /\ \A q \in boundaries(seen[i]) : records[q[2]].continues
    BY <1>8, <2>1, StitchSpansLeaves DEF Joins
  <2>3. PICK V : V = records'
    OBVIOUS
  <2>4. Kept(records) \subseteq Kept(V)
    BY <2>2, <2>3, StitchKeeps
  <2> QED BY <1>3, <2>1, <2>3, <2>4
<1>9. CASE merge_load \/ merge_with_next \/ split_record \/ recognise \/ reconcile_versions
  BY <1>9 DEF merge_load, merge_with_next, split_record, recognise, reconcile_versions
<1>10. CASE UNCHANGED vars
  BY <1>10 DEF vars
<1> QED BY <1>4, <1>5, <1>6, <1>7, <1>8, <1>9, <1>10 DEF Next, Step

\* A run that nothing overlaps never loses a part of any book: what was in a live record or
\* waiting to be read still is, through failed pages, crashes, redeliveries and edits
\* (extract_records, merge_boundary_records, extraction_tasks.py 198-282, 431-623).
THEOREM NothingIsLost == Spec => RunsLoseNothing
<1>1. RecInv /\ SoleInv /\ TxInv /\ [Next]_vars => (RecInv /\ SoleInv /\ TxInv)'
  BY RecStep, SoleStep, TxStep
<1>2. RecInv /\ SoleInv /\ TxInv /\ [Next]_vars =>
        [~overlapped' /\ (\E j \in Jobs : pc[j] # "none" /\ pc'[j] # pc[j])
            => Kept(records) \subseteq Kept(records)']_vars
  BY KeptStep
<1>3. Init => RecInv /\ SoleInv /\ TxInv
  BY RecInit, SoleInit, TxInit
<1> QED BY <1>1, <1>2, <1>3, PTL DEF Spec, RunsLoseNothing

-----------------------------------------------------------------------------
(***************************************************************************)
(* Where records are: while nothing is edited and nothing overlaps, a live *)
(* record names the active transcription of the page it starts on, and of  *)
(* the next one if it was joined; no two are in one place; and what a run  *)
(* has left to read is unread.                                             *)
(***************************************************************************)
LinkedRec(x) ==
    /\ x.tx = Row(x.page) /\ ~x.manual
    /\ x.continued => x.page_end = x.page + 1 /\ x.page_end \in Pages /\ x.tx_end = Row(x.page_end)
    /\ ~x.continued => x.tx_end = None

Linked(rs) == \A i \in Live(rs) : LinkedRec(rs[i])

OnePlace(rs) ==
    \A i, k \in Live(rs) : rs[i].page = rs[k].page /\ rs[i].pos = rs[k].pos => i = k

PlaceInv ==
    ~overlapped /\ ~edited =>
        /\ Linked(records) /\ OnePlace(records)
        /\ \A j \in Running : Left(j) \subseteq Unread(records)

LEMMA PlaceInit == Init => PlaceInv
<1> SUFFICES ASSUME Init PROVE PlaceInv
  OBVIOUS
<1>1. DOMAIN <<>> = {} /\ records = <<>>
  BY DEF Init
<1>2. Live(records) = {} /\ Running = {}
  BY <1>1 DEF Init, Live, Running
<1> QED BY <1>2 DEF PlaceInv, Linked, OnePlace

LEMMA LinkedSame ==
    ASSUME NEW x, NEW y, SameRec(x, y), LinkedRec(y)
    PROVE  LinkedRec(x)
BY DEF SameRec, LinkedRec

LEMMA LinkedMerge ==
    ASSUME NEW x, NEW a, NEW b, MergeOf(x, a, b), LinkedRec(a), LinkedRec(b),
           b.page = a.page + 1, b.page \in Pages
    PROVE  LinkedRec(x)
BY DEF MergeOf, LinkedRec

\* What a merge leaves is where it was, if no two second halves are in one place.
LEMMA MergePlaces ==
    ASSUME NEW rs, RecordsOK(rs), NEW pairs, NEW V, Leaves(V, rs, pairs), Linked(rs), OnePlace(rs),
           \A q, r \in pairs : q[1] = r[1] => q = r
    PROVE  Linked(V) /\ OnePlace(V)
<1>1. /\ \A q \in pairs : /\ q[1] \in Live(rs) /\ q[2] \in Live(rs)
                          /\ rs[q[2]].page = rs[q[1]].page + 1
      /\ \A i \in DOMAIN rs : i \in Live(V) <=> i \in Live(rs) /\ i \notin Used(pairs)
      /\ \A i \in DOMAIN rs \cap Live(V) : SameRec(V[i], rs[i])
      /\ \A n \in Live(V) \ DOMAIN rs : \E q \in pairs : MergeOf(V[n], rs[q[1]], rs[q[2]])
      /\ \A n, m \in Live(V) \ DOMAIN rs : n # m =>
            \E q \in pairs : \E r \in pairs \ {q} :
                MergeOf(V[n], rs[q[1]], rs[q[2]]) /\ MergeOf(V[m], rs[r[1]], rs[r[2]])
  BY DEF Leaves
<1>2. \A q \in pairs : rs[q[2]].page \in Pages
  BY <1>1 DEF RecordsOK, RecOK, OnBook, Live, Active
<1>3. ASSUME NEW n \in Live(V) PROVE LinkedRec(V[n])
  <2>1. CASE n \in DOMAIN rs
    BY <1>1, <2>1, LinkedSame DEF Linked
  <2>2. CASE n \notin DOMAIN rs
    <3>1. PICK q \in pairs : MergeOf(V[n], rs[q[1]], rs[q[2]])
      BY <1>1, <2>2
    <3>2. LinkedRec(rs[q[1]]) /\ LinkedRec(rs[q[2]])
      BY <1>1 DEF Linked
    <3> QED BY <1>1, <1>2, <3>1, <3>2, LinkedMerge
  <2> QED BY <2>1, <2>2
<1>4. ASSUME NEW n \in Live(V) \ DOMAIN rs, NEW m \in Live(V) \cap DOMAIN rs,
             V[n].page = V[m].page, V[n].pos = V[m].pos
      PROVE  FALSE
  <2>1. PICK q \in pairs : MergeOf(V[n], rs[q[1]], rs[q[2]])
    BY <1>1
  <2>2. SameRec(V[m], rs[m]) /\ m \in Live(rs) /\ m \notin Used(pairs)
    BY <1>1
  <2>3. rs[q[1]].page = rs[m].page /\ rs[q[1]].pos = rs[m].pos
    BY <1>4, <2>1, <2>2 DEF MergeOf, SameRec
  <2>4. q[1] = m
    BY <1>1, <2>2, <2>3 DEF OnePlace
  <2> QED BY <2>2, <2>4 DEF Used
<1>5. ASSUME NEW n \in Live(V) \ DOMAIN rs, NEW m \in Live(V) \ DOMAIN rs,
             V[n].page = V[m].page, V[n].pos = V[m].pos, n # m
      PROVE  FALSE
  <2>1. PICK q \in pairs : \E r \in pairs \ {q} :
                MergeOf(V[n], rs[q[1]], rs[q[2]]) /\ MergeOf(V[m], rs[r[1]], rs[r[2]])
    BY <1>1, <1>5
  <2>2. PICK r \in pairs \ {q} :
                MergeOf(V[n], rs[q[1]], rs[q[2]]) /\ MergeOf(V[m], rs[r[1]], rs[r[2]])
    BY <2>1
  <2>3. rs[q[1]].page = rs[r[1]].page /\ rs[q[1]].pos = rs[r[1]].pos
    BY <1>5, <2>2 DEF MergeOf
  <2>4. q[1] = r[1]
    BY <1>1, <2>3 DEF OnePlace
  <2> QED BY <2>4
<1>6. ASSUME NEW n \in Live(V) \cap DOMAIN rs, NEW m \in Live(V) \cap DOMAIN rs,
             V[n].page = V[m].page, V[n].pos = V[m].pos
      PROVE  n = m
  <2>1. SameRec(V[m], rs[m]) /\ m \in Live(rs) /\ SameRec(V[n], rs[n]) /\ n \in Live(rs)
    BY <1>1
  <2> QED BY <1>6, <2>1 DEF OnePlace, SameRec
<1> QED BY <1>3, <1>4, <1>5, <1>6 DEF Linked, OnePlace

\* A stitch pass joins a record to one other.
LEMMA BoundariesAreOnes ==
    ASSUME NEW rs, RecordsOK(rs), OnePlace(rs), NEW pairs,
           \A q \in pairs : /\ q = <<q[1], q[2]>> /\ q[1] \in Live(rs) /\ q[2] \in Live(rs)
                            /\ rs[q[2]].page = rs[q[1]].page + 1 /\ rs[q[2]].continues
    PROVE  \A q, r \in pairs : q[1] = r[1] => q = r
<1> SUFFICES ASSUME NEW q \in pairs, NEW r \in pairs, q[1] = r[1] PROVE q[2] = r[2]
  OBVIOUS
<1>1. \A i \in Live(rs) : OnBook(rs[i])
  BY DEF RecordsOK, RecOK, Live, Active
<1>2. rs[q[2]].pos = 1 /\ rs[r[2]].pos = 1
  BY <1>1 DEF OnBook
<1>3. rs[q[2]].page = rs[r[2]].page
  OBVIOUS
<1> QED BY <1>2, <1>3 DEF OnePlace

\* Pages read for the first time.
LEMMA ReadPlaces ==
    ASSUME TxInv, NEW rs, RecordsOK(rs), NEW ok, ok \subseteq Unread(rs), NEW V, ReadLeaves(V, rs, ok),
           Linked(rs), OnePlace(rs)
    PROVE  Linked(V) /\ OnePlace(V) /\ Unread(rs) \ ok \subseteq Unread(V)
<1>1. /\ DOMAIN rs \subseteq DOMAIN V /\ \A i \in DOMAIN rs : V[i] = rs[i]
      /\ \A n \in DOMAIN V \ DOMAIN rs : \E r \in ok : \E k \in DOMAIN Book[r[1]] : ReadOf(V[n], r, k)
      /\ \A n, m \in DOMAIN V \ DOMAIN rs : V[n].tx = V[m].tx /\ V[n].pos = V[m].pos => n = m
  BY DEF ReadLeaves
<1>2. \A n \in Live(V) : n \in DOMAIN V \ DOMAIN rs \/ (n \in Live(rs) /\ V[n] = rs[n])
  BY <1>1 DEF Live
<1>3. \A r \in ok : r[1] \in Pages /\ r = Row(r[1])
  BY DEF Unread, Row
<1>4. ASSUME NEW n \in DOMAIN V \ DOMAIN rs
      PROVE  /\ V[n].tx \in ok /\ V[n].page \in Pages /\ V[n].tx = Row(V[n].page)
             /\ V[n].tx_end = None /\ ~V[n].continued /\ ~V[n].manual
  <2>1. PICK r \in ok : \E k \in DOMAIN Book[r[1]] : ReadOf(V[n], r, k)
    BY <1>1
  <2> QED BY <1>3, <2>1 DEF ReadOf
<1>5. Linked(V)
  BY <1>2, <1>4 DEF Linked, LinkedRec
<1>6. ASSUME NEW n \in DOMAIN V \ DOMAIN rs, NEW i \in Live(rs), V[n].page = rs[i].page PROVE FALSE
  <2>1. rs[i].tx = V[n].tx /\ V[n].tx \in Unread(rs)
    BY <1>4, <1>6 DEF Linked, LinkedRec
  <2> QED BY <2>1 DEF Unread
<1>7. OnePlace(V)
  BY <1>1, <1>2, <1>4, <1>6 DEF OnePlace
<1>8. ASSUME NEW p \in Pages, Row(p) \in Unread(rs), Row(p) \notin ok PROVE Row(p) \in Unread(V)
  <2>1. \A i \in Live(rs) : rs[i].tx # Row(p) /\ rs[i].tx_end # Row(p)
    BY <1>8, UnreadIs
  <2>2. \A n \in DOMAIN V \ DOMAIN rs : V[n].tx # Row(p) /\ V[n].tx_end # Row(p)
    BY <1>4, <1>8, RowIsNotNone
  <2> QED BY <1>2, <2>1, <2>2, UnreadIs
<1>9. Unread(rs) \ ok \subseteq Unread(V)
  BY <1>8 DEF Unread
<1> QED BY <1>5, <1>7, <1>9

\* Fewer live records.
LEMMA FewerPlaces ==
    ASSUME NEW rs, NEW V, Live(V) \subseteq Live(rs), \A i \in Live(V) : SameRec(V[i], rs[i]),
           Linked(rs), OnePlace(rs)
    PROVE  Linked(V) /\ OnePlace(V) /\ Unread(rs) \subseteq Unread(V)
<1>1. Linked(V)
  BY LinkedSame DEF Linked
<1>2. OnePlace(V)
  BY DEF OnePlace, SameRec
<1>3. Unread(rs) \subseteq Unread(V)
  BY DEF Unread, SameRec
<1> QED BY <1>1, <1>2, <1>3

\* Steps that recognise nothing and start no run.
LEMMA PlaceBy ==
    ASSUME UNCHANGED docs, NEW V, V = records', Linked(V), OnePlace(V),
           \A i \in Running' : Left(i)' \subseteq Unread(V)
    PROVE  PlaceInv'
<1>1. Unread(records)' = Unread(V)
  BY DEF docs, Unread, Row, Live
<1>2. Linked(records)'
  BY DEF docs, Linked, LinkedRec, Row, Live
<1>3. OnePlace(records)'
  BY DEF OnePlace, Live
<1> QED BY <1>1, <1>2, <1>3 DEF PlaceInv

LEMMA PlaceQuiet ==
    ASSUME PlaceInv, UNCHANGED <<docs, records, edited>>, overlapped => overlapped',
           \A i \in Running' : i \in Running /\ Left(i)' \subseteq Left(i)
    PROVE  PlaceInv'
<1> SUFFICES ASSUME ~overlapped', ~edited' PROVE PlaceInv'
  BY DEF PlaceInv
<1>1. Linked(records) /\ OnePlace(records) /\ \A j \in Running : Left(j) \subseteq Unread(records)
  BY DEF PlaceInv
<1>2. PICK V : V = records /\ V = records'
  OBVIOUS
<1> QED BY <1>1, <1>2, PlaceBy

LEMMA PlaceStep == RecInv /\ SoleInv /\ TxInv /\ PlaceInv /\ [Next]_vars => PlaceInv'
<1> SUFFICES ASSUME RecInv, SoleInv, TxInv, PlaceInv, [Next]_vars, ~overlapped', ~edited' PROVE PlaceInv'
  BY DEF PlaceInv
<1> USE DEF run
<1>1. /\ DOMAIN pc = Jobs /\ DOMAIN targets = Jobs /\ DOMAIN tried = Jobs /\ DOMAIN reading = Jobs
      /\ RecordsOK(records)
  BY DEF RecInv, RunsOK
<1>2. ~overlapped /\ ~edited =>
         Linked(records) /\ OnePlace(records) /\ \A j \in Running : Left(j) \subseteq Unread(records)
  BY DEF PlaceInv
<1>3. ASSUME NEW j \in Jobs, create_job(j) \/ cancel_job(j) PROVE PlaceInv'
  <2>1. \A i \in Running' : i \in Running
    BY <1>1, <1>3 DEF create_job, insert_job, cancel_job, Running
  <2>2. UNCHANGED <<docs, records, edited, overlapped, targets, tried>>
    BY <1>3 DEF create_job, insert_job, cancel_job
  <2> QED BY <2>1, <2>2, PlaceQuiet DEF Left
<1>4. ASSUME NEW j \in Jobs, reextract_transcription(j) PROVE PlaceInv'
  <2>1. PICK p \in Pages : records' = superseded(records, Row(p))
    BY <1>4 DEF reextract_transcription
  <2>2. /\ SameBut(superseded(records, Row(p)), records)
        /\ \A i \in DOMAIN records : superseded(records, Row(p))[i].status \in {records[i].status, "superseded"}
        /\ \A i \in DOMAIN records : superseded(records, Row(p))[i].status = "deleted" <=> records[i].status = "deleted"
    BY <1>1, Superseded
  <2>3. PICK V : V = superseded(records, Row(p))
    OBVIOUS
  <2>4. /\ SameBut(V, records)
        /\ \A i \in DOMAIN records : V[i].status \in {records[i].status, "superseded"}
        /\ \A i \in DOMAIN records : V[i].status = "deleted" <=> records[i].status = "deleted"
    BY <2>2, <2>3
  <2>5. \A i \in DOMAIN records : SameRec(V[i], records[i])
    BY <1>1, <2>4, SameFields DEF SameRec
  <2>6. Live(V) \subseteq Live(records)
    BY <2>4 DEF Live, Active, SameBut
  <2>7. alone /\ UNCHANGED <<docs, edited, targets, tried>> /\ pc' = [pc EXCEPT ![j] = "queued"]
    BY <1>4 DEF reextract_transcription, insert_job
  <2>8. ~overlapped /\ ~edited /\ Running = {}
    BY <2>7, AloneIs
  <2>9. Running' = {}
    BY <1>1, <2>7, <2>8 DEF Running
  <2>10. \A i \in Live(V) : SameRec(V[i], records[i])
    BY <2>5, <2>6 DEF Live
  <2>11. Linked(V) /\ OnePlace(V)
    BY <1>2, <2>6, <2>8, <2>10, FewerPlaces
  <2> QED BY <2>1, <2>3, <2>7, <2>9, <2>11, PlaceBy
<1>5. ASSUME NEW j \in Jobs, no_provider(j) \/ batch_failed(j) \/ leave_cancelled(j) \/ dies(j) \/ finish(j)
      PROVE  PlaceInv'
  <2>1. leave(j) /\ UNCHANGED <<docs, records, edited, overlapped>>
    BY <1>5 DEF no_provider, batch_failed, leave_cancelled, dies, finish
  <2>2. \A i \in Running' : i \in Running /\ Left(i)' \subseteq Left(i)
    BY <1>1, <2>1 DEF leave, Running, Left
  <2> QED BY <2>1, <2>2, PlaceQuiet
<1>6. ASSUME NEW j \in Jobs, crash(j) PROVE PlaceInv'
  <2>1. \A i \in Running' : i \in Running /\ Left(i)' \subseteq Left(i)
    BY <1>1, <1>6 DEF crash, Running, Left
  <2> QED BY <1>6, <2>1, PlaceQuiet DEF crash
<1>7. ASSUME NEW j \in Jobs, begin(j) PROVE PlaceInv'
  <2>1. /\ alone /\ UNCHANGED <<docs, records, edited, tried>> /\ pc' = [pc EXCEPT ![j] = "pages"]
        /\ targets' = [targets EXCEPT ![j] = select_targets]
    BY <1>7 DEF begin
  <2>2. ~overlapped /\ ~edited /\ Running = {}
    BY <2>1, AloneIs
  <2>3. PICK S : S = select_targets /\ S \subseteq Unread(records)
    BY Selected
  <2>4. \A i \in Running' : Left(i)' \subseteq Unread(records)
    BY <1>1, <2>1, <2>2, <2>3 DEF Running, Left
  <2>5. PICK V : V = records /\ V = records'
    BY <2>1
  <2> QED BY <1>2, <2>1, <2>2, <2>4, <2>5, PlaceBy
<1>8. ASSUME NEW j \in Jobs, next_chunk(j) \/ poll_batch(j) \/ load_records(j) PROVE PlaceInv'
  <2>1. UNCHANGED <<docs, records, edited, overlapped, targets, tried>>
    BY <1>8 DEF next_chunk, poll_batch, load_records, wait_for
  <2>2. Running' \subseteq Running
    BY <1>1, <1>8 DEF next_chunk, poll_batch, load_records, wait_for, Running
  <2> QED BY <2>1, <2>2, PlaceQuiet DEF Left
<1>9. ASSUME NEW j \in Jobs, persist(j) PROVE PlaceInv'
  <2>1. PICK ok \in SUBSET reading[j] : ReadLeaves(records', records, ok)
    BY <1>9, PersistLeaves
  <2>2. /\ UNCHANGED <<docs, edited, overlapped, targets>> /\ j \in Running
        /\ tried' = [tried EXCEPT ![j] = @ \cup reading[j]]
    BY <1>9 DEF persist, Running
  <2>3. ~overlapped /\ ~edited /\ Left(j) \subseteq Unread(records)
    BY <1>2, <2>2
  <2>4. ok \subseteq Unread(records)
    BY <2>3 DEF RecInv, RunsOK
  <2>5. PICK V : V = records'
    OBVIOUS
  <2>6. Linked(V) /\ OnePlace(V) /\ Unread(records) \ ok \subseteq Unread(V)
    BY <1>1, <1>2, <2>1, <2>3, <2>4, <2>5, ReadPlaces
  <2>7. Running' \subseteq {j}
    <3>1. \A i \in Jobs : i # j => i \notin Running
      BY <2>2, <2>3 DEF SoleInv
    <3>2. pc' = [pc EXCEPT ![j] = after_pages(j)]
      BY <1>9 DEF persist
    <3> QED BY <1>1, <3>1, <3>2 DEF Running
  <2>8. Left(j)' \subseteq Left(j) \ ok
    BY <1>1, <2>2 DEF Left
  <2> QED BY <2>2, <2>3, <2>5, <2>6, <2>7, <2>8, PlaceBy
<1>10. ASSUME NEW j \in Jobs, stitch_spans(j) PROVE PlaceInv'
  <2>1. UNCHANGED <<docs, edited, overlapped, targets, tried>> /\ pc' = [pc EXCEPT ![j] = "ending"] /\ j \in Running
    BY <1>10 DEF stitch_spans, Running
  <2>2. PICK pairs : pairs = boundaries(seen[j])
    OBVIOUS
  <2>3. PICK V : V = records'
    OBVIOUS
  <2>4. Leaves(V, records, pairs) /\ \A q \in pairs : Joins(records[q[1]], records[q[2]])
    BY <1>10, <2>1, <2>2, <2>3, StitchSpansLeaves
  <2>5. \A q, r \in pairs : q[1] = r[1] => q = r
    <3>1. \A q \in pairs : /\ q = <<q[1], q[2]>> /\ q[1] \in Live(records) /\ q[2] \in Live(records)
                           /\ records[q[2]].page = records[q[1]].page + 1 /\ records[q[2]].continues
      BY <2>4 DEF Leaves, Joins
    <3> QED BY <1>1, <1>2, <2>1, <3>1, BoundariesAreOnes
  <2>6. Linked(V) /\ OnePlace(V)
    BY <1>1, <1>2, <2>1, <2>4, <2>5, MergePlaces
  <2>7. Unread(records) \subseteq Unread(V)
    BY <2>4, MergeUnread
  <2>8. Running' \subseteq Running
    BY <1>1, <2>1 DEF Running
  <2> QED BY <1>2, <2>1, <2>3, <2>6, <2>7, <2>8, PlaceBy DEF Left
<1>11. CASE merge_load
  <2>1. UNCHANGED <<docs, records, edited, pc, targets, tried>> /\ alone
    BY <1>11 DEF merge_load
  <2> QED BY <2>1, PlaceQuiet DEF alone, Running, Left
<1>12. CASE merge_with_next
  <2>1. PICK answered \in BOOLEAN, i \in DOMAIN merging, k \in DOMAIN merging :
           /\ merging[k].page = merging[i].page + 1
           /\ records' = IF Broken(merging, <<i, k>>) THEN records
                         ELSE Merged(records, merging, {<<i, k>>}, answered)
           /\ edited' = (edited \/ merging[k].continued)
           /\ UNCHANGED <<docs, overlapped, pc, targets, tried>>
    BY <1>12 DEF merge_with_next
  <2>2. ~overlapped /\ ~edited
    BY <2>1
  <2>3. Running = {}
    <3>1. DOMAIN <<>> = {}
      OBVIOUS
    <3> QED BY <2>2, <3>1 DEF SoleInv
  <2>4. Running' = {}
    BY <2>1, <2>3 DEF Running
  <2>5. PICK V : V = records'
    OBVIOUS
  <2>6. CASE V = records
    BY <1>2, <2>1, <2>2, <2>4, <2>5, <2>6, PlaceBy
  <2>7. CASE V = Merged(records, merging, {<<i, k>>}, answered)
    <3>1. \A l \in DOMAIN merging : l \in Live(records) /\ merging[l] = records[l]
      BY <2>2 DEF SoleInv
    <3>2. LoadedOK(merging)
      BY DEF RecInv, AllLoaded
    <3>3. Leaves(V, records, {<<i, k>>})
      BY <1>1, <2>1, <2>7, <3>1, <3>2, HandLeavesIs
    <3>4. Linked(V) /\ OnePlace(V)
      BY <1>1, <1>2, <2>2, <3>3, MergePlaces
    <3> QED BY <2>1, <2>4, <2>5, <3>4, PlaceBy
  <2> QED BY <2>1, <2>5, <2>6, <2>7
<1>13. CASE split_record \/ recognise \/ reconcile_versions
  BY <1>13 DEF split_record, recognise, reconcile_versions
<1>14. CASE UNCHANGED vars
  <2>1. UNCHANGED <<docs, records, edited, overlapped, pc, targets, tried>>
    BY <1>14 DEF vars
  <2> QED BY <2>1, PlaceQuiet DEF Running, Left
<1> QED BY <1>3, <1>4, <1>5, <1>6, <1>7, <1>8, <1>9, <1>10, <1>11, <1>12, <1>13, <1>14 DEF Next, Step

-----------------------------------------------------------------------------
(***************************************************************************)
(* Every boundary a run could close is closed.                             *)
(***************************************************************************)

\* A split act whose halves both records are of is a boundary of what was loaded.
LEMMA IsBoundary ==
    ASSUME NEW rs, RecordsOK(rs), Linked(rs), OnePlace(rs),
           NEW L, L = [i \in Live(rs) |-> rs[i]], LoadedOK(L),
           NEW i \in Live(rs), NEW k \in Live(rs),
           rs[i].incomplete, rs[k].continues, rs[k].page = rs[i].page + 1
    PROVE  <<i, k>> \in boundaries(L)
<1>1. PICK p \in Pages : p = rs[i].page
  BY DEF RecordsOK, RecOK, OnBook, Live, Active
<1>2. i \in OnPage(L, p) /\ k \in OnPage(L, p + 1)
  BY <1>1 DEF OnPage
<1>3. \A l \in Live(rs) : OnBook(rs[l])
  BY DEF RecordsOK, RecOK, Live, Active
<1>4. \A l \in OnPage(L, p) : l \in Live(rs) /\ rs[l].page = p /\ rs[l].pos \in 1..Len(Book[p])
  BY <1>3 DEF OnPage, OnBook
<1>5. \A l \in OnPage(L, p + 1) : l \in Live(rs) /\ rs[l].page = p + 1 /\ rs[l].pos \in 1..Len(Book[p + 1])
  BY <1>3 DEF OnPage, OnBook
<1>6. rs[i].pos = Len(Book[p]) /\ ~rs[i].continued /\ rs[k].pos = 1
  BY <1>1, <1>3 DEF OnBook
<1>7. last_on(L, p) = i
  <2>1. PICK a \in OnPage(L, p) : a = last_on(L, p) /\ Before(L, i, a)
    BY <1>2, LastOn
  <2>2. Len(Book[p]) \in Nat /\ rs[i].pos <= rs[a].pos
    BY <1>2, <1>4, <2>1, PageIsSeq DEF Before
  <2>3. rs[a].pos = rs[i].pos
    BY <1>4, <1>6, <2>2
  <2> QED BY <1>1, <1>4, <2>1, <2>3 DEF OnePlace
<1>8. first_on(L, p + 1) = k
  <2>1. PICK b \in OnPage(L, p + 1) : b = first_on(L, p + 1) /\ Before(L, b, k)
    BY <1>2, FirstOn
  <2>2. p + 1 \in Pages
    BY <1>1, <1>3 DEF OnBook
  <2>3. Len(Book[p + 1]) \in Nat /\ rs[b].pos <= rs[k].pos
    BY <1>2, <1>5, <2>1, <2>2, PageIsSeq DEF Before
  <2>4. rs[b].pos = rs[k].pos
    BY <1>5, <1>6, <2>3
  <2> QED BY <1>1, <1>5, <2>1, <2>4 DEF OnePlace
<1>9. Joins(L[last_on(L, p)], L[first_on(L, p + 1)])
  BY <1>6, <1>7, <1>8 DEF Joins, Linked, LinkedRec
<1> QED BY <1>1, <1>2, <1>7, <1>8, <1>9 DEF boundaries

\* A run that nothing overlaps, of a document nobody has edited, leaves no act of which
\* both halves are live records and say that they are halves (_stitch_spans,
\* extraction_tasks.py 431-520).
THEOREM BoundariesAreClosed == Spec => BoundariesClosed
<1>1. RecInv /\ SoleInv /\ TxInv /\ PlaceInv /\ [Next]_vars => (RecInv /\ SoleInv /\ TxInv /\ PlaceInv)'
  BY RecStep, SoleStep, TxStep, PlaceStep
<1>2. RecInv /\ SoleInv /\ TxInv /\ PlaceInv /\ [Next]_vars =>
        [\A j \in Jobs : ~overlapped /\ ~edited /\ Stitched(j) =>
            ~\E i, k \in Live(records)' : /\ records'[i].incomplete /\ records'[k].continues
                                          /\ records'[k].page = records'[i].page + 1]_vars
  <2> SUFFICES ASSUME RecInv, SoleInv, TxInv, PlaceInv, [Next]_vars,
                      NEW j \in Jobs, ~overlapped, ~edited, Stitched(j),
                      NEW i \in Live(records'), NEW k \in Live(records'),
                      records'[i].incomplete, records'[k].continues,
                      records'[k].page = records'[i].page + 1
               PROVE  FALSE
    BY DEF Live
  <2>1. stitch_spans(j)
    BY OnlyStitching
  <2>2. PICK L : L = seen[j]
    OBVIOUS
  <2>3. PICK V : V = records'
    OBVIOUS
  <2>4. L = [l \in Live(records) |-> records[l]] /\ Leaves(V, records, boundaries(L))
    BY <2>1, <2>2, <2>3, StitchSpansLeaves
  <2>5. /\ \A l \in DOMAIN records : l \in Live(V) <=> l \in Live(records) /\ l \notin Used(boundaries(L))
        /\ \A l \in DOMAIN records \cap Live(V) : SameRec(V[l], records[l])
        /\ \A l \in Live(V) \ DOMAIN records :
              \E q \in boundaries(L) : MergeOf(V[l], records[q[1]], records[q[2]])
    BY <2>4 DEF Leaves
  <2>6. i \in DOMAIN records /\ k \in DOMAIN records
    BY <2>3, <2>5 DEF MergeOf
  <2>7. /\ i \in Live(records) /\ k \in Live(records) /\ i \notin Used(boundaries(L))
        /\ SameRec(V[i], records[i]) /\ SameRec(V[k], records[k])
    BY <2>3, <2>5, <2>6
  <2>8. records[i].incomplete /\ records[k].continues /\ records[k].page = records[i].page + 1
    BY <2>3, <2>7 DEF SameRec
  <2>9. RecordsOK(records) /\ Linked(records) /\ OnePlace(records) /\ LoadedOK(L)
    BY <2>2 DEF RecInv, AllLoaded, PlaceInv
  <2>10. <<i, k>> \in boundaries(L)
    BY <2>4, <2>7, <2>8, <2>9, IsBoundary
  <2> QED BY <2>7, <2>10 DEF Used
<1>3. Init => RecInv /\ SoleInv /\ TxInv /\ PlaceInv
  BY RecInit, SoleInit, TxInit, PlaceInit
<1> QED BY <1>1, <1>2, <1>3, PTL DEF Spec, BoundariesClosed

-----------------------------------------------------------------------------
(***************************************************************************)
(* Nothing is read twice, unless an act fills a page and goes on both      *)
(* before and after it: then a stitch pass joins the record of that page   *)
(* to the one before it and again to the one after it.                     *)
(***************************************************************************)
NoMiddlePage ==
    \A p \in Pages : ~(Len(Book[p]) = 1 /\ Begins(p, Book[p][1]) /\ Ends(p, Book[p][1]))

\* A record holds parts of the pages it names.
Within(rs) ==
    \A i \in Live(rs) : \A h \in rs[i].holds :
        h[1] = rs[i].page \/ (rs[i].continued /\ h[1] = rs[i].page_end)

HeldOnce(rs) == \A i, k \in Live(rs) : rs[i].holds \cap rs[k].holds # {} => i = k

HoldInv == ~overlapped /\ ~edited => Within(records) /\ HeldOnce(records)

LEMMA HoldInit == Init => HoldInv
<1> SUFFICES ASSUME Init PROVE HoldInv
  OBVIOUS
<1>1. DOMAIN <<>> = {} /\ records = <<>>
  BY DEF Init
<1>2. Live(records) = {}
  BY <1>1 DEF Live
<1> QED BY <1>2 DEF HoldInv, Within, HeldOnce

\* Merges that join a record at most once keep what is held apart.
LEMMA MergeHolds ==
    ASSUME NEW rs, NEW pairs, NEW V, Leaves(V, rs, pairs), Linked(rs), Within(rs), HeldOnce(rs),
           \A q \in pairs : ~rs[q[2]].continued,
           \A q, r \in pairs : q # r => {q[1], q[2]} \cap {r[1], r[2]} = {}
    PROVE  Within(V) /\ HeldOnce(V)
<1>1. /\ \A q \in pairs : /\ q[1] \in Live(rs) /\ q[2] \in Live(rs)
                          /\ rs[q[2]].page = rs[q[1]].page + 1
      /\ \A i \in DOMAIN rs : i \in Live(V) <=> i \in Live(rs) /\ i \notin Used(pairs)
      /\ \A i \in DOMAIN rs \cap Live(V) : SameRec(V[i], rs[i])
      /\ \A n \in Live(V) \ DOMAIN rs : \E q \in pairs : MergeOf(V[n], rs[q[1]], rs[q[2]])
      /\ \A n, m \in Live(V) \ DOMAIN rs : n # m =>
            \E q \in pairs : \E r \in pairs \ {q} :
                MergeOf(V[n], rs[q[1]], rs[q[2]]) /\ MergeOf(V[m], rs[r[1]], rs[r[2]])
  BY DEF Leaves
<1>2. ASSUME NEW n \in Live(V), NEW h \in V[n].holds
      PROVE  h[1] = V[n].page \/ (V[n].continued /\ h[1] = V[n].page_end)
  <2>1. CASE n \in DOMAIN rs
    BY <1>1, <1>2, <2>1 DEF SameRec, Within
  <2>2. CASE n \notin DOMAIN rs
    <3>1. PICK q \in pairs : MergeOf(V[n], rs[q[1]], rs[q[2]])
      BY <1>1, <2>2
    <3>2. V[n].page = rs[q[1]].page /\ V[n].page_end = rs[q[2]].page /\ V[n].continued
          /\ V[n].holds \subseteq rs[q[1]].holds \cup rs[q[2]].holds
      BY <3>1 DEF MergeOf
    <3>3. CASE h \in rs[q[1]].holds
      <4>1. h[1] = rs[q[1]].page \/ (rs[q[1]].continued /\ h[1] = rs[q[1]].page_end)
        BY <1>1, <3>3 DEF Within
      <4>2. rs[q[1]].continued => rs[q[1]].page_end = rs[q[2]].page
        BY <1>1 DEF Linked, LinkedRec
      <4> QED BY <3>2, <4>1, <4>2
    <3>4. CASE h \in rs[q[2]].holds
      <4>1. h[1] = rs[q[2]].page
        BY <1>1, <3>4 DEF Within
      <4> QED BY <3>2, <4>1
    <3> QED BY <3>2, <3>3, <3>4
  <2> QED BY <2>1, <2>2
<1>3. ASSUME NEW n \in Live(V) \ DOMAIN rs, NEW m \in Live(V) \cap DOMAIN rs, NEW h,
             h \in V[n].holds, h \in V[m].holds
      PROVE  FALSE
  <2>1. PICK q \in pairs : MergeOf(V[n], rs[q[1]], rs[q[2]])
    BY <1>1
  <2>2. m \in Live(rs) /\ m # q[1] /\ m # q[2] /\ h \in rs[m].holds
    BY <1>1, <1>3 DEF SameRec, Used
  <2>3. h \in rs[q[1]].holds \/ h \in rs[q[2]].holds
    BY <1>3, <2>1 DEF MergeOf
  <2> QED BY <1>1, <2>2, <2>3 DEF HeldOnce
<1>4. ASSUME NEW n \in Live(V) \ DOMAIN rs, NEW m \in Live(V) \ DOMAIN rs, n # m, NEW h,
             h \in V[n].holds, h \in V[m].holds
      PROVE  FALSE
  <2>1. PICK q \in pairs : \E r \in pairs \ {q} :
                MergeOf(V[n], rs[q[1]], rs[q[2]]) /\ MergeOf(V[m], rs[r[1]], rs[r[2]])
    BY <1>1, <1>4
  <2>2. PICK r \in pairs \ {q} :
                MergeOf(V[n], rs[q[1]], rs[q[2]]) /\ MergeOf(V[m], rs[r[1]], rs[r[2]])
    BY <2>1
  <2>3. PICK i \in {q[1], q[2]} : h \in rs[i].holds
    BY <1>4, <2>2 DEF MergeOf
  <2>4. PICK k \in {r[1], r[2]} : h \in rs[k].holds
    BY <1>4, <2>2 DEF MergeOf
  <2>5. i \in Live(rs) /\ k \in Live(rs)
    BY <1>1, <2>3, <2>4
  <2>6. {q[1], q[2]} \cap {r[1], r[2]} = {}
    OBVIOUS
  <2>7. i # k
    BY <2>3, <2>4, <2>6
  <2> QED BY <2>3, <2>4, <2>5, <2>7 DEF HeldOnce
<1>5. ASSUME NEW n \in Live(V) \cap DOMAIN rs, NEW m \in Live(V) \cap DOMAIN rs, NEW h,
             h \in V[n].holds, h \in V[m].holds
      PROVE  n = m
  <2>1. SameRec(V[m], rs[m]) /\ m \in Live(rs) /\ SameRec(V[n], rs[n]) /\ n \in Live(rs)
    BY <1>1
  <2> QED BY <1>5, <2>1 DEF HeldOnce, SameRec
<1>6. Within(V)
  BY <1>2 DEF Within
<1>7. HeldOnce(V)
  <2> SUFFICES ASSUME NEW n \in Live(V), NEW m \in Live(V), NEW h, h \in V[n].holds, h \in V[m].holds
               PROVE  n = m
    BY DEF HeldOnce
  <2> QED BY <1>3, <1>4, <1>5
<1> QED BY <1>6, <1>7

\* The boundaries of a pass are apart, where no page is the middle of an act.
LEMMA BoundariesApart ==
    ASSUME NoMiddlePage, NEW rs, RecordsOK(rs), OnePlace(rs), NEW pairs,
           \A q \in pairs : /\ q = <<q[1], q[2]>> /\ q[1] \in Live(rs) /\ q[2] \in Live(rs)
                            /\ rs[q[2]].page = rs[q[1]].page + 1
                            /\ rs[q[1]].incomplete /\ rs[q[2]].continues
    PROVE  \A q, r \in pairs : q # r => {q[1], q[2]} \cap {r[1], r[2]} = {}
<1>1. \A i \in Live(rs) : OnBook(rs[i])
  BY DEF RecordsOK, RecOK, Live, Active
<1>2. ASSUME NEW i \in Live(rs), rs[i].incomplete, rs[i].continues PROVE FALSE
  <2>1. PICK p \in Pages : p = rs[i].page
    BY <1>1 DEF OnBook
  <2>2. rs[i].pos = 1 /\ rs[i].pos = Len(Book[p]) /\ Begins(p, Book[p][rs[i].pos]) /\ Ends(p, Book[p][rs[i].pos])
    BY <1>1, <1>2, <2>1 DEF OnBook
  <2> QED BY <2>2 DEF NoMiddlePage
<1>3. ASSUME NEW q \in pairs, NEW r \in pairs, q[1] = r[1] PROVE q = r
  BY <1>3, BoundariesAreOnes
<1>4. ASSUME NEW q \in pairs, NEW r \in pairs, q[2] = r[2] PROVE q = r
  <2>1. PICK p \in Pages : p = rs[q[1]].page
    BY <1>1 DEF OnBook
  <2>2. PICK t \in Pages : t = rs[r[1]].page
    BY <1>1 DEF OnBook
  <2>3. p = t
    <3>1. p + 1 = t + 1
      BY <1>4, <2>1, <2>2
    <3>2. p \in Nat /\ t \in Nat
      BY PagesAre
    <3> QED BY <3>1, <3>2
  <2>4. rs[q[1]].pos = Len(Book[p]) /\ rs[r[1]].pos = Len(Book[t])
    BY <1>1, <2>1, <2>2 DEF OnBook
  <2>5. q[1] \in Live(rs) /\ r[1] \in Live(rs)
    OBVIOUS
  <2>6. rs[q[1]].page = rs[r[1]].page /\ rs[q[1]].pos = rs[r[1]].pos
    BY <2>1, <2>2, <2>3, <2>4
  <2>7. q[1] = r[1]
    BY <2>5, <2>6 DEF OnePlace
  <2> QED BY <1>3, <2>7
<1>5. ASSUME NEW q \in pairs, NEW r \in pairs PROVE q[1] # r[2]
  BY <1>2
<1> QED BY <1>3, <1>4, <1>5

\* Unread pages are held by no record.
LEMMA ReadHolds ==
    ASSUME NEW rs, RecordsOK(rs), NEW ok, ok \subseteq Unread(rs), NEW V, ReadLeaves(V, rs, ok),
           Linked(rs), Within(rs), HeldOnce(rs)
    PROVE  Within(V) /\ HeldOnce(V)
<1>1. /\ DOMAIN rs \subseteq DOMAIN V /\ \A i \in DOMAIN rs : V[i] = rs[i]
      /\ \A n \in DOMAIN V \ DOMAIN rs : \E r \in ok : \E k \in DOMAIN Book[r[1]] : ReadOf(V[n], r, k)
      /\ \A n, m \in DOMAIN V \ DOMAIN rs : V[n].tx = V[m].tx /\ V[n].pos = V[m].pos => n = m
  BY DEF ReadLeaves
<1>2. \A n \in Live(V) : n \in DOMAIN V \ DOMAIN rs \/ (n \in Live(rs) /\ V[n] = rs[n])
  BY <1>1 DEF Live
<1>3. \A r \in ok : r[1] \in Pages /\ r = Row(r[1])
  BY DEF Unread, Row
<1>4. ASSUME NEW n \in DOMAIN V \ DOMAIN rs
      PROVE  /\ V[n].tx \in ok /\ V[n].page \in Pages /\ V[n].tx = Row(V[n].page)
             /\ V[n].holds = {<<V[n].page, V[n].pos>>}
  <2>1. PICK r \in ok : \E k \in DOMAIN Book[r[1]] : ReadOf(V[n], r, k)
    BY <1>1
  <2>2. PICK k \in DOMAIN Book[r[1]] : ReadOf(V[n], r, k)
    BY <2>1
  <2> QED BY <1>3, <2>2 DEF ReadOf
<1>5. Within(V)
  <2> SUFFICES ASSUME NEW n \in Live(V), NEW h \in V[n].holds
               PROVE  h[1] = V[n].page \/ (V[n].continued /\ h[1] = V[n].page_end)
    BY DEF Within
  <2>1. CASE n \in DOMAIN V \ DOMAIN rs
    BY <1>4, <2>1
  <2>2. CASE n \in Live(rs) /\ V[n] = rs[n]
    BY <2>2 DEF Within
  <2> QED BY <1>2, <2>1, <2>2
<1>6. ASSUME NEW n \in DOMAIN V \ DOMAIN rs, NEW i \in Live(rs), NEW h,
             h \in V[n].holds, h \in rs[i].holds
      PROVE  FALSE
  <2>1. PICK p \in Pages : p = V[n].page /\ Row(p) \in ok
    BY <1>4
  <2>2. h[1] = p
    BY <1>4, <1>6, <2>1
  <2>3. rs[i].tx # Row(p) /\ rs[i].tx_end # Row(p)
    BY <2>1 DEF Unread
  <2>4. rs[i].page = p \/ (rs[i].continued /\ rs[i].page_end = p)
    BY <1>6, <2>2 DEF Within
  <2> QED BY <2>3, <2>4 DEF Linked, LinkedRec
<1>7. ASSUME NEW n \in DOMAIN V \ DOMAIN rs, NEW m \in DOMAIN V \ DOMAIN rs, NEW h,
             h \in V[n].holds, h \in V[m].holds
      PROVE  n = m
  <2>1. <<V[n].page, V[n].pos>> = <<V[m].page, V[m].pos>>
    BY <1>4, <1>7
  <2>2. V[n].tx = V[m].tx /\ V[n].pos = V[m].pos
    BY <1>4, <2>1
  <2> QED BY <1>1, <2>2
<1>8. HeldOnce(V)
  <2> SUFFICES ASSUME NEW n \in Live(V), NEW m \in Live(V), NEW h, h \in V[n].holds, h \in V[m].holds
               PROVE  n = m
    BY DEF HeldOnce
  <2> QED BY <1>2, <1>6, <1>7 DEF HeldOnce
<1> QED BY <1>5, <1>8

LEMMA HoldStep ==
    ASSUME NoMiddlePage
    PROVE  RecInv /\ SoleInv /\ PlaceInv /\ HoldInv /\ [Next]_vars => HoldInv'
<1> SUFFICES ASSUME RecInv, SoleInv, PlaceInv, HoldInv, [Next]_vars, ~overlapped', ~edited' PROVE HoldInv'
  BY DEF HoldInv
<1>1. ASSUME NEW V, V = records', Within(V), HeldOnce(V) PROVE HoldInv'
  BY <1>1 DEF HoldInv, Within, HeldOnce, Live
<1>2. RecordsOK(records)
  BY DEF RecInv
<1>3. ~overlapped /\ ~edited => /\ Within(records) /\ HeldOnce(records)
                                /\ Linked(records) /\ OnePlace(records)
                                /\ \A j \in Running : Left(j) \subseteq Unread(records)
  BY DEF HoldInv, PlaceInv
<1>4. ASSUME UNCHANGED <<records, edited>>, overlapped => overlapped' PROVE HoldInv'
  <2>1. PICK V : V = records /\ V = records'
    BY <1>4
  <2> QED BY <1>1, <1>3, <1>4, <2>1
<1>5. ASSUME NEW j \in Jobs, create_job(j) \/ cancel_job(j) PROVE HoldInv'
  BY <1>4, <1>5 DEF create_job, cancel_job
<1>6. ASSUME NEW j \in Jobs, reextract_transcription(j) PROVE HoldInv'
  <2>1. PICK p \in Pages : records' = superseded(records, Row(p))
    BY <1>6 DEF reextract_transcription
  <2>2. /\ SameBut(superseded(records, Row(p)), records)
        /\ \A i \in DOMAIN records : superseded(records, Row(p))[i].status \in {records[i].status, "superseded"}
        /\ \A i \in DOMAIN records : superseded(records, Row(p))[i].status = "deleted" <=> records[i].status = "deleted"
    BY <1>2, Superseded
  <2>3. PICK V : V = superseded(records, Row(p))
    OBVIOUS
  <2>4. /\ SameBut(V, records)
        /\ \A i \in DOMAIN records : V[i].status \in {records[i].status, "superseded"}
        /\ \A i \in DOMAIN records : V[i].status = "deleted" <=> records[i].status = "deleted"
    BY <2>2, <2>3
  <2>5. \A i \in DOMAIN records : SameRec(V[i], records[i])
    BY <1>2, <2>4, SameFields DEF SameRec
  <2>6. Live(V) \subseteq Live(records)
    BY <2>4 DEF Live, Active, SameBut
  <2>7. \A i \in Live(V) : i \in Live(records) /\ SameRec(V[i], records[i])
    BY <2>5, <2>6 DEF Live
  <2>8. ~overlapped /\ ~edited
    <3>1. alone /\ UNCHANGED edited
      BY <1>6 DEF reextract_transcription
    <3> QED BY <3>1, AloneIs
  <2>9. Within(V)
    BY <1>3, <2>7, <2>8 DEF Within, SameRec
  <2>10. HeldOnce(V)
    BY <1>3, <2>7, <2>8 DEF HeldOnce, SameRec
  <2> QED BY <1>1, <2>1, <2>3, <2>9, <2>10
<1>7. ASSUME NEW j \in Jobs, no_provider(j) \/ batch_failed(j) \/ leave_cancelled(j) \/ dies(j) \/ finish(j)
      PROVE  HoldInv'
  BY <1>4, <1>7 DEF no_provider, batch_failed, leave_cancelled, dies, finish
<1>8. ASSUME NEW j \in Jobs, begin(j) \/ next_chunk(j) \/ poll_batch(j) \/ load_records(j) \/ crash(j)
      PROVE  HoldInv'
  BY <1>4, <1>8 DEF begin, next_chunk, poll_batch, wait_for, load_records, crash, alone
<1>9. ASSUME NEW j \in Jobs, persist(j) PROVE HoldInv'
  <2>1. PICK ok \in SUBSET reading[j] : ReadLeaves(records', records, ok)
    BY <1>9, PersistLeaves
  <2>2. UNCHANGED <<edited, overlapped>> /\ j \in Running
    BY <1>9 DEF persist, Running
  <2>3. ok \subseteq Unread(records)
    BY <1>3, <2>2 DEF RecInv, RunsOK
  <2>4. PICK V : V = records'
    OBVIOUS
  <2>5. Within(V) /\ HeldOnce(V)
    BY <1>2, <1>3, <2>1, <2>2, <2>3, <2>4, ReadHolds
  <2> QED BY <1>1, <2>4, <2>5
<1>10. ASSUME NEW j \in Jobs, stitch_spans(j) PROVE HoldInv'
  <2>1. ~overlapped /\ ~edited
    BY <1>10 DEF stitch_spans
  <2>2. PICK pairs : pairs = boundaries(seen[j])
    OBVIOUS
  <2>3. PICK V : V = records'
    OBVIOUS
  <2>4. Leaves(V, records, pairs) /\ \A q \in pairs : Joins(records[q[1]], records[q[2]])
    BY <1>10, <2>1, <2>2, <2>3, StitchSpansLeaves
  <2>5. \A q \in pairs : /\ q = <<q[1], q[2]>> /\ q[1] \in Live(records) /\ q[2] \in Live(records)
                         /\ records[q[2]].page = records[q[1]].page + 1
                         /\ records[q[1]].incomplete /\ records[q[2]].continues
    BY <2>4 DEF Leaves, Joins
  <2>6. \A q, r \in pairs : q # r => {q[1], q[2]} \cap {r[1], r[2]} = {}
    BY <1>2, <1>3, <2>1, <2>5, BoundariesApart
  <2>7. \A q \in pairs : ~records[q[2]].continued
    BY <1>2, <2>5 DEF RecordsOK, RecOK, OnBook, Live, Active
  <2>8. Within(V) /\ HeldOnce(V)
    BY <1>3, <2>1, <2>4, <2>6, <2>7, MergeHolds
  <2> QED BY <1>1, <2>3, <2>8
<1>11. CASE merge_load
  BY <1>4, <1>11 DEF merge_load, alone
<1>12. CASE merge_with_next
  <2>1. PICK answered \in BOOLEAN, i \in DOMAIN merging, k \in DOMAIN merging :
           /\ merging[k].page = merging[i].page + 1
           /\ records' = IF Broken(merging, <<i, k>>) THEN records
                         ELSE Merged(records, merging, {<<i, k>>}, answered)
           /\ edited' = (edited \/ merging[k].continued)
           /\ UNCHANGED overlapped
    BY <1>12 DEF merge_with_next
  <2>2. ~overlapped /\ ~edited /\ ~merging[k].continued
    BY <2>1
  <2>3. PICK V : V = records'
    OBVIOUS
  <2>4. CASE V = records
    BY <1>1, <1>3, <2>2, <2>3, <2>4
  <2>5. CASE V = Merged(records, merging, {<<i, k>>}, answered)
    <3>1. \A l \in DOMAIN merging : l \in Live(records) /\ merging[l] = records[l]
      BY <2>2 DEF SoleInv
    <3>2. LoadedOK(merging)
      BY DEF RecInv, AllLoaded
    <3>3. Leaves(V, records, {<<i, k>>})
      BY <1>2, <2>1, <2>5, <3>1, <3>2, HandLeavesIs
    <3>4. Within(V) /\ HeldOnce(V)
      BY <1>3, <2>2, <3>1, <3>3, MergeHolds
    <3> QED BY <1>1, <2>3, <3>4
  <2> QED BY <2>1, <2>3, <2>4, <2>5
<1>13. CASE split_record \/ recognise \/ reconcile_versions
  BY <1>13 DEF split_record, recognise, reconcile_versions
<1>14. CASE UNCHANGED vars
  BY <1>4, <1>14 DEF vars
<1> QED BY <1>5, <1>6, <1>7, <1>8, <1>9, <1>10, <1>11, <1>12, <1>13, <1>14 DEF Next, Step

\* Where no page is the middle of an act, no part of the book is in two live records, through
\* crashes, redeliveries, cancels, failed pages, re-extractions and merges by hand, while
\* nothing overlaps and nothing is edited (_select_targets, _persist_record, _stitch_spans,
\* extraction_tasks.py 77-282, 431-520).
THEOREM NothingIsReadTwice == ASSUME NoMiddlePage PROVE Spec => []ReadOnce
<1>1. RecInv /\ SoleInv /\ TxInv /\ PlaceInv /\ HoldInv /\ [Next]_vars
         => (RecInv /\ SoleInv /\ TxInv /\ PlaceInv /\ HoldInv)'
  BY RecStep, SoleStep, TxStep, PlaceStep, HoldStep
<1>2. Init => RecInv /\ SoleInv /\ TxInv /\ PlaceInv /\ HoldInv
  BY RecInit, SoleInit, TxInit, PlaceInit, HoldInit
<1>3. HoldInv => ReadOnce
  BY DEF HoldInv, HeldOnce, ReadOnce
<1> QED BY <1>1, <1>2, <1>3, PTL DEF Spec
=============================================================================
