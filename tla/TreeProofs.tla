----------------------------- MODULE TreeProofs -----------------------------
(***************************************************************************)
(* Proofs about Tree, for any number of requests at a time: every          *)
(* reachable tree satisfies its keys, a revert is the inverse of its       *)
(* change, reverting the last change restores the tree before it, a merge  *)
(* loses nothing and a link takes over a slot only when it was filled      *)
(* behind its back.  Whatever tree is left, what Kinship answers about it  *)
(* is true: circles are reported, the nearest relation is the one shown,   *)
(* and it is the same from both sides.                                     *)
(***************************************************************************)
EXTENDS Tree, Kinship, FiniteSetTheorems, WellFoundedInduction, TLAPS

\* None stands for "no row" and is no row itself.
NoRowIsNone == ~ IsRow(None)

-----------------------------------------------------------------------------
(***************************************************************************)
(* Rows.                                                                   *)
(***************************************************************************)

\* Two rows with the same columns are the same row.
LEMMA RowsEqual ==
    ASSUME NEW a, NEW b, IsRow(a), IsRow(b), a.t = b.t, a.id = b.id,
           \A c \in Columns : a.ref[c] = b.ref[c], a.data = b.data, a.primary = b.primary
    PROVE  a = b
<1>1. [c \in Columns |-> a.ref[c]] = [c \in Columns |-> b.ref[c]]
  OBVIOUS
<1> QED BY <1>1, Zenon DEF IsRow

\* A row with other references keeps everything else.
LEMMA OtherRefs ==
    ASSUME NEW r, IsRow(r), NEW g, g = [c \in Columns |-> g[c]], NEW q, q = [r EXCEPT !.ref = g]
    PROVE  /\ IsRow(q) /\ q.t = r.t /\ q.id = r.id /\ q.data = r.data /\ q.primary = r.primary
           /\ q.ref = g
<1>1. r = Row(r.t, r.id, [c \in Columns |-> r.ref[c]], r.data, r.primary)
  BY DEF IsRow
<1>2. q = Row(r.t, r.id, g, r.data, r.primary)
  BY <1>1 DEF Row
<1>3. IsRow(Row(r.t, r.id, g, r.data, r.primary))
  BY DEF Row, IsRow
<1> QED BY <1>2, <1>3 DEF Row

\* A row that lost references keeps everything else.
LEMMA Forgot ==
    ASSUME NEW r, NEW ids, IsRow(r)
    PROVE  /\ IsRow(Forgetting(r, ids))
           /\ Forgetting(r, ids).t = r.t
           /\ Forgetting(r, ids).id = r.id
           /\ Forgetting(r, ids).data = r.data
           /\ Forgetting(r, ids).primary = r.primary
           /\ \A c \in Columns : Forgetting(r, ids).ref[c] =
                 IF Keyed(r, c) /\ r.ref[c] \in ids THEN None ELSE r.ref[c]
<1> DEFINE g == [c \in Columns |-> IF Keyed(r, c) /\ r.ref[c] \in ids THEN None ELSE r.ref[c]]
<1>1. Forgetting(r, ids) = [r EXCEPT !.ref = g]
  BY DEF Forgetting
<1>2. \A c \in Columns : g[c] = IF Keyed(r, c) /\ r.ref[c] \in ids THEN None ELSE r.ref[c]
  OBVIOUS
<1>3. g = [c \in Columns |-> g[c]]
  OBVIOUS
<1> HIDE DEF g
<1> QED BY <1>1, <1>2, <1>3, OtherRefs

\* A row none of whose references goes stays as it is.
LEMMA NothingForgotten ==
    ASSUME NEW r, NEW ids, IsRow(r),
           \A c \in Columns : Keyed(r, c) /\ r.ref[c] # None => r.ref[c] \notin ids
    PROVE  Forgetting(r, ids) = r
<1>1. \A c \in Columns : Forgetting(r, ids).ref[c] = r.ref[c]
  BY Forgot
<1> QED BY <1>1, Forgot, RowsEqual

\* What a citation cites and is no more it loses.
LEMMA Lives ==
    ASSUME NEW r, NEW s, IsRow(r)
    PROVE  /\ IsRow(Living(r, s))
           /\ Living(r, s).t = r.t
           /\ Living(r, s).id = r.id
           /\ Living(r, s).data = r.data
           /\ Living(r, s).primary = r.primary
           /\ \A c \in Columns : Living(r, s).ref[c] =
                 IF r.t = "citations" /\ Keyed(r, c) /\ r.ref[c] \notin Ids(Of(s, Refers[c]))
                 THEN None ELSE r.ref[c]
           /\ r.t # "citations" => Living(r, s) = r
<1>1. CASE r.t # "citations"
  BY <1>1 DEF Living
<1>2. CASE r.t = "citations"
  <2> DEFINE g == [c \in Columns |->
                     IF Keyed(r, c) /\ r.ref[c] \notin Ids(Of(s, Refers[c])) THEN None ELSE r.ref[c]]
  <2>1. Living(r, s) = [r EXCEPT !.ref = g]
    BY <1>2 DEF Living
  <2>2. \A c \in Columns : g[c] = IF Keyed(r, c) /\ r.ref[c] \notin Ids(Of(s, Refers[c])) THEN None ELSE r.ref[c]
    OBVIOUS
  <2>3. g = [c \in Columns |-> g[c]]
    OBVIOUS
  <2> HIDE DEF g
  <2> QED BY <1>2, <2>1, <2>2, <2>3, OtherRefs
<1> QED BY <1>1, <1>2

\* A citation that cites only what there is loses nothing.
LEMMA AllLive ==
    ASSUME NEW r, NEW s, IsRow(r),
           \A c \in Columns : r.t = "citations" /\ Keyed(r, c) /\ r.ref[c] # None
                                => r.ref[c] \in Ids(Of(s, Refers[c]))
    PROVE  Living(r, s) = r
<1>1. \A c \in Columns : Living(r, s).ref[c] = r.ref[c]
  BY Lives
<1> QED BY <1>1, Lives, RowsEqual

\* An UPDATE of a row that nobody else touched leaves the new row.
LEMMA Overlaid ==
    ASSUME NEW w, NEW cur, IsRow(w.new)
    PROVE  /\ IsRow(Overlay(w, cur))
           /\ Overlay(w, cur).t = w.new.t
           /\ Overlay(w, cur).id = w.new.id
           /\ \A c \in Columns : Overlay(w, cur).ref[c] =
                 IF w.new.ref[c] = w.old.ref[c] THEN cur.ref[c] ELSE w.new.ref[c]
<1> DEFINE g == [c \in Columns |-> IF w.new.ref[c] = w.old.ref[c] THEN cur.ref[c] ELSE w.new.ref[c]]
           d == IF w.new.data = w.old.data THEN cur.data ELSE w.new.data
           p == IF w.new.primary = w.old.primary THEN cur.primary ELSE w.new.primary
<1>1. Overlay(w, cur) = [w.new EXCEPT !.ref = g, !.data = d, !.primary = p]
  BY DEF Overlay
<1>2. g = [c \in Columns |-> g[c]]
      /\ \A c \in Columns : g[c] = IF w.new.ref[c] = w.old.ref[c] THEN cur.ref[c] ELSE w.new.ref[c]
  OBVIOUS
<1>3. w.new = Row(w.new.t, w.new.id, [c \in Columns |-> w.new.ref[c]], w.new.data, w.new.primary)
  BY DEF IsRow
<1> HIDE DEF g, d, p
<1>4. Overlay(w, cur) = Row(w.new.t, w.new.id, g, d, p)
  BY <1>1, <1>3 DEF Row
<1> QED BY <1>2, <1>4 DEF Row, IsRow

LEMMA OverlaidOwn ==
    ASSUME NEW w, IsRow(w.new)
    PROVE  Overlay(w, w.old) = w.new
<1> DEFINE g == [c \in Columns |-> IF w.new.ref[c] = w.old.ref[c] THEN w.old.ref[c] ELSE w.new.ref[c]]
           d == IF w.new.data = w.old.data THEN w.old.data ELSE w.new.data
           p == IF w.new.primary = w.old.primary THEN w.old.primary ELSE w.new.primary
<1>1. Overlay(w, w.old) = [w.new EXCEPT !.ref = g, !.data = d, !.primary = p]
  BY DEF Overlay
<1>2. g = [c \in Columns |-> w.new.ref[c]] /\ d = w.new.data /\ p = w.new.primary
  OBVIOUS
<1>3. w.new = Row(w.new.t, w.new.id, [c \in Columns |-> w.new.ref[c]], w.new.data, w.new.primary)
  BY DEF IsRow
<1> HIDE DEF g, d, p
<1>4. Overlay(w, w.old) = Row(w.new.t, w.new.id, g, d, p)
  BY <1>1, <1>3 DEF Row
<1> QED BY <1>2, <1>3, <1>4

-----------------------------------------------------------------------------
(***************************************************************************)
(* Ids tell the tables apart.                                              *)
(***************************************************************************)
LEMMA Pools ==
    /\ Pool["persons"] = People /\ Pool["names"] = Names /\ Pool["events"] = Events
    /\ Pool["families"] = Families /\ Pool["family_children"] = Families \X People
    /\ Pool["citations"] = Citations /\ Pool["person_mentions"] = Mentions
    /\ Pool["match_candidates"] = Candidates
    /\ DOMAIN Pool = DOMAIN Has
BY DEF Pool, Has

LEMMA OwnTable ==
    ASSUME NEW a, NEW b, WellFormed(a), WellFormed(b), a.id = b.id
    PROVE  a.t = b.t
<1>1. a.t \in DOMAIN Pool /\ b.t \in DOMAIN Pool /\ a.id \in Pool[a.t] /\ b.id \in Pool[b.t]
  BY Pools DEF WellFormed
<1> QED BY <1>1, IdsAssumption

LEMMA IdIs ==
    ASSUME NEW r, WellFormed(r)
    PROVE  r.id # None /\ IsRow(r)
<1>1. r.t \in DOMAIN Pool /\ r.id \in Pool[r.t]
  BY Pools DEF WellFormed
<1> QED BY <1>1, IdsAssumption DEF WellFormed

\* The row of a child has its family and its person, which are no ids of
\* other rows.
LEMMA ChildIs ==
    ASSUME NEW r, WellFormed(r), r.t = "family_children"
    PROVE  /\ r.id = <<r.ref["family"], r.ref["person"]>>
           /\ r.ref["family"] \in Families /\ r.ref["person"] \in People
           /\ r.ref["family"] # None /\ r.ref["person"] # None
<1>1. r.id \in Families \X People /\ r.id = <<r.ref["family"], r.ref["person"]>>
  BY Pools DEF WellFormed
<1>2. "families" \in DOMAIN Pool /\ "persons" \in DOMAIN Pool
  BY DEF Pool
<1>3. None \notin Families /\ None \notin People
  BY <1>2, Pools, IdsAssumption
<1> QED BY <1>1, <1>3

-----------------------------------------------------------------------------
(***************************************************************************)
(* What a transaction does to the rows.                                    *)
(***************************************************************************)
Olds(W) == {x.old : x \in W} \ {None}
News(W) == {x.new : x \in W} \ {None}
Gone(W) == {x.old.id : x \in Deletes(W)}

\* The same row, before and after: only that of a child changes its key.
SameRow(a, b) == a.t = b.t /\ (a.t # "family_children" => a.id = b.id)

\* The writes are of rows, and each does something; mentions are neither
\* made nor deleted.
TypedWrite(x) ==
    /\ x.old # None => WellFormed(x.old)
    /\ x.new # None => /\ WellFormed(x.new) /\ WellFormed(x.logged)
                       /\ x.logged.id = x.new.id
    /\ x.new = None => x.logged = None /\ x.old.t # "person_mentions"
    /\ x.old = None => x.new # None /\ x.new.t # "person_mentions"
    /\ x.old # None /\ x.new # None => SameRow(x.old, x.new)
Typed(W) == \A x \in W : TypedWrite(x)

\* No row is written twice.
Once(W) == \A x, y \in W : x.old # None /\ x.old = y.old => x = y

\* What stays belongs to nothing that goes, so that no foreign key acts but
\* those of citations.
NoCascade(s, W) ==
    \A r \in (s \ Olds(W)) \cup News(W) : r.t # "citations" => Targets(r) \cap Gone(W) = {}

\* A transaction without cascades replaces the rows it read by the rows it
\* wrote and leaves all others alone, but for what citations cite.
Replaced(s, W) == (s \ Olds(W)) \cup News(W)

\* Of what a transaction leaves before it deletes: rows it wrote and rows it
\* did not touch.
Touched(W)    == {w.old.id : w \in Updates(W)}
Changed(s, W) == {Overlay(w, At(s, w.old.id)) : w \in Updates(W)}
Flushed(s, W) == {r \in s : r.id \notin Touched(W)} \cup Changed(s, W) \cup {w.new : w \in Inserts(W)}

LEMMA AppliedIs ==
    ASSUME NEW s, NEW W
    PROVE  Apply(s, W) = Remove(Flushed(s, W), Gone(W))
BY DEF Apply, Flushed, Touched, Changed, Gone

\* Rows that nothing in ids owns are all that goes.
LEMMA RemoveIs ==
    ASSUME NEW s, NEW ids, \A x \in Belonging(s, ids) : x.id \in ids
    PROVE  Remove(s, ids) = {Forgetting(r, ids) : r \in {x \in s : x.id \notin ids}}
<1> DEFINE owned == Belonging(s, ids)
           gone == ids \cup Ids(owned)
<1>1. Remove(s, ids) = {Forgetting(r, gone) : r \in {x \in s : x.id \notin ids /\ x \notin owned}}
  BY DEF Remove
<1>2. gone = ids
  BY DEF Ids
<1>3. {x \in s : x.id \notin ids /\ x \notin owned} = {x \in s : x.id \notin ids}
  OBVIOUS
<1> HIDE DEF owned, gone
<1> QED BY <1>1, <1>2, <1>3

LEMMA AppliedExactly ==
    ASSUME NEW s, NEW W, \A r \in s : IsRow(r), \A a, b \in s : a.id = b.id => a = b,
           Typed(W), Once(W), \A x \in W : x.old # None => x.old \in s,
           Applies(s, W), NoCascade(s, W)
    PROVE  /\ Apply(s, W) = {Forgetting(r, Gone(W)) : r \in Replaced(s, W)}
           /\ \A r \in Replaced(s, W) : r.id \notin Gone(W)
<1> DEFINE touched == Touched(W)
           changed == Changed(s, W)
           all == Flushed(s, W)
<1>1. Apply(s, W) = Remove(all, Gone(W))
  BY AppliedIs
<1>2. \A w \in Updates(W) : Overlay(w, At(s, w.old.id)) = w.new
  <2> SUFFICES ASSUME NEW w \in Updates(W) PROVE Overlay(w, At(s, w.old.id)) = w.new
    OBVIOUS
  <2>1. w \in W /\ w.old \in s /\ IsRow(w.new)
    BY DEF Updates, Typed, TypedWrite, WellFormed
  <2>2. At(s, w.old.id) = w.old
    BY <2>1 DEF At
  <2> QED BY <2>1, <2>2, OverlaidOwn
<1>3. changed = {w.new : w \in Updates(W)}
  BY <1>2 DEF Changed
<1>4. \A x \in W : x.new # None => x.new.id \notin Gone(W)
  <2> SUFFICES ASSUME NEW x \in W, NEW y \in W, x.new # None, y.new = None, x.new.id = y.old.id
               PROVE  FALSE
    BY DEF Gone, Deletes
  <2>1. y.old \in s
    BY DEF Typed, TypedWrite
  <2>2. x.old # None
    BY <2>1 DEF Applies, Inserts, Ids
  <2>3. x \in Updates(W)
    BY <2>2 DEF Updates
  <2>4. x.new.id = x.old.id
    BY <2>1, <2>3 DEF Applies, Ids
  <2>5. x.old = y.old
    BY <2>1, <2>2, <2>4
  <2> QED BY <2>2, <2>5 DEF Once
<1>5. {r \in s : r.id \notin touched} = {r \in s : \A w \in Updates(W) : r # w.old}
  BY DEF Updates, Touched
<1>6. \A r \in all : r \in News(W) \/ (r \in s /\ \A w \in Updates(W) : r # w.old)
  <2>1. \A w \in Updates(W) \cup Inserts(W) : w.new \in News(W)
    BY DEF Updates, Inserts, Typed, TypedWrite, News
  <2> QED BY <1>3, <1>5, <2>1 DEF Flushed
<1>7. News(W) \subseteq all
  <2> SUFFICES ASSUME NEW x \in W, x.new # None PROVE x.new \in all
    BY DEF News
  <2>1. x \in Updates(W) \/ x \in Inserts(W)
    BY DEF Updates, Inserts
  <2> QED BY <1>3, <2>1 DEF Flushed
<1>8. \A r \in s : r.id \in Gone(W) <=> \E w \in Deletes(W) : r = w.old
  BY DEF Gone, Deletes, Typed, TypedWrite
<1>9. \A r \in s : r \in Olds(W) <=> \E w \in Updates(W) \cup Deletes(W) : r = w.old
  <2>1. \A x \in W : x.old # None <=> x \in Updates(W) \cup Deletes(W)
    BY DEF Updates, Deletes, Typed, TypedWrite
  <2>2. \A w \in Updates(W) \cup Deletes(W) : w \in W
    BY DEF Updates, Deletes
  <2> QED BY <2>1, <2>2 DEF Olds
<1>10. \A r \in News(W) : r.id \notin Gone(W)
  BY <1>4 DEF News
<1>11. s \ Olds(W) \subseteq all
  <2> SUFFICES ASSUME NEW r \in s, r \notin Olds(W) PROVE r \in all
    OBVIOUS
  <2>1. \A w \in Updates(W) : r # w.old
    BY <1>9
  <2> QED BY <1>5, <2>1 DEF Flushed
<1>12. Replaced(s, W) = {x \in all : x.id \notin Gone(W)}
  <2>1. ASSUME NEW r \in all, r.id \notin Gone(W) PROVE r \in Replaced(s, W)
    <3>1. CASE r \in News(W)
      BY <3>1 DEF Replaced
    <3>2. CASE r \in s /\ \A w \in Updates(W) : r # w.old
      BY <2>1, <3>2, <1>8, <1>9 DEF Replaced
    <3> QED BY <1>6, <3>1, <3>2
  <2>2. ASSUME NEW r \in Replaced(s, W) PROVE r \in all /\ r.id \notin Gone(W)
    <3> HIDE DEF all
    <3>1. r \in all
      BY <1>7, <1>11 DEF Replaced
    <3>2. r.id \notin Gone(W)
      BY <1>8, <1>9, <1>10 DEF Replaced
    <3> QED BY <3>1, <3>2
  <2> HIDE DEF all
  <2> QED BY <2>1, <2>2
<1> HIDE DEF all
<1>13. \A x \in Belonging(all, Gone(W)) : x.id \in Gone(W)
  <2> SUFFICES ASSUME NEW x \in Belonging(all, Gone(W)), x.id \notin Gone(W) PROVE FALSE
    OBVIOUS
  <2>1. x \in all /\ x.t # "citations" /\ Targets(x) \cap Gone(W) # {}
    BY DEF Belonging, Owned
  <2>2. x \in (s \ Olds(W)) \cup News(W)
    BY <1>12, <2>1 DEF Replaced
  <2> QED BY <2>1, <2>2 DEF NoCascade
<1>14. Remove(all, Gone(W)) = {Forgetting(r, Gone(W)) : r \in {x \in all : x.id \notin Gone(W)}}
  BY <1>13, RemoveIs
<1> QED BY <1>1, <1>12, <1>14

-----------------------------------------------------------------------------
(***************************************************************************)
(* The rows that the operations write.                                     *)
(***************************************************************************)
LEMMA NewRows ==
    ASSUME NEW x, NEW y, NEW v, NEW z
    PROVE  /\ IsRow(Person(x, v)) /\ IsRow(Name(x, y, v, z))
           /\ IsRow(Event(x, y, v)) /\ IsRow(CoupleEvent(x, y, v))
           /\ IsRow(Citation(x, y, v, z)) /\ IsRow(Child(x, y)) /\ IsRow(Family(x, y, v))
BY DEF IsRow, Row, Person, Name, Event, CoupleEvent, Citation, Child, Family, Bare, Columns

\* A row with other data, or without its mark, is a row.
LEMMA EditedRow ==
    ASSUME NEW r, IsRow(r), NEW d
    PROVE  /\ IsRow([r EXCEPT !.data = d])
           /\ IsRow([r EXCEPT !.primary = d])
<1> DEFINE g == [c \in Columns |-> r.ref[c]]
<1>1. r = Row(r.t, r.id, g, r.data, r.primary)
  BY DEF IsRow
<1>2. g = [c \in Columns |-> g[c]]
  OBVIOUS
<1> HIDE DEF g
<1> QED BY <1>1, <1>2 DEF IsRow, Row

\* A row with other references is a row.
LEMMA RepointedRow ==
    ASSUME NEW r, IsRow(r), NEW g, g = [c \in Columns |-> g[c]]
    PROVE  IsRow([r EXCEPT !.ref = g])
BY DEF IsRow, Row

LEMMA FilledRow ==
    ASSUME NEW r, IsRow(r), NEW c, NEW v
    PROVE  IsRow([r EXCEPT !.ref = [r.ref EXCEPT ![c] = v]])
<1> DEFINE f == [k \in Columns |-> r.ref[k]]
           g == [f EXCEPT ![c] = v]
<1>1. r.ref = f
  BY DEF IsRow, Row
<1>2. g = [k \in Columns |-> g[k]]
  OBVIOUS
<1> HIDE DEF f, g
<1>3. IsRow([r EXCEPT !.ref = g])
  BY <1>2, RepointedRow
<1> QED BY <1>1, <1>3 DEF g

LEMMA InsTyped ==
    ASSUME NoRowIsNone, NEW r, WellFormed(r), r.t # "person_mentions"
    PROVE  TypedWrite(ins(r))
<1>1. r # None
  BY DEF WellFormed, NoRowIsNone
<1>2. ins(r).old = None /\ ins(r).new = r /\ ins(r).logged = r
  BY DEF ins
<1> QED BY <1>1, <1>2 DEF TypedWrite

LEMMA UpdTyped ==
    ASSUME NoRowIsNone, NEW r, NEW r2, WellFormed(r), WellFormed(r2), SameRow(r, r2)
    PROVE  TypedWrite(upd(r, r2))
<1>1. r # None /\ r2 # None
  BY DEF WellFormed, NoRowIsNone
<1>2. upd(r, r2).old = r /\ upd(r, r2).new = r2 /\ upd(r, r2).logged = r2
  BY DEF upd
<1> QED BY <1>1, <1>2 DEF TypedWrite

LEMMA DelTyped ==
    ASSUME NoRowIsNone, NEW r, WellFormed(r), r.t # "person_mentions"
    PROVE  TypedWrite(del(r))
<1>1. r # None
  BY DEF WellFormed, NoRowIsNone
<1>2. del(r).old = r /\ del(r).new = None /\ del(r).logged = None
  BY DEF del
<1> QED BY <1>1, <1>2 DEF TypedWrite

-----------------------------------------------------------------------------
(***************************************************************************)
(* A request reads the rows and decides what to write.  What it decides is *)
(* right for any rows: it replaces well-formed rows by such, each once.    *)
(* For the rows it read it is right, too: those it replaces are there,     *)
(* and unless it deletes a person nothing that stays belongs to what goes. *)
(***************************************************************************)
RowsOK == Valid(rows) /\ \A r \in rows : WellFormed(r)

Proper(W) ==
    /\ Typed(W)
    /\ Once(W)
    /\ \A x, y \in W : x.old # None /\ y.old # None /\ x.old.id = y.old.id => x.old = y.old
    /\ \A x, y \in W : x.logged # None /\ x.logged = y.logged => x = y
    /\ \A x, y \in W : x.old # None /\ y.old = None /\ x.old.t # "citations"
                          => y.logged.id \notin Targets(x.old)

Sound(W) == Proper(W) /\ \A x \in W : x.old # None => x.old \in rows

KeepsSlots(W) ==
    \A x \in W : x.old # None =>
        /\ x.new # None
        /\ x.new.id = x.old.id
        /\ \A c \in {"husband", "wife"} : x.old.ref[c] # None => x.new.ref[c] = x.old.ref[c]

MergeWrites(M, keep, dup) ==
    merge_names(M, keep, dup) \cup merge_anchored(keep, dup)
    \cup merge_children(keep, dup) \cup merge_slots(keep, dup)
    \cup merge_candidates(keep, dup) \cup merge_sex(keep, dup)
    \cup {del(At(rows, dup))}

IsMerge(W) ==
    \E keep, dup \in Ids(Of(rows, "persons")) :
        keep # dup /\ \E M \in MovedNames(keep, dup) : W = MergeWrites(M, keep, dup)

Planned(a, W) ==
    /\ a \in Actions
    /\ W # {}
    /\ Sound(W)
    /\ a # "person_delete" => NoCascade(rows, W)
    /\ a = "relative_add" => KeepsSlots(W)
    /\ a = "person_merge" => IsMerge(W)

LEMMA AtOnly ==
    ASSUME NEW s, \A a, b \in s : a.id = b.id => a = b, NEW r \in s
    PROVE  At(s, r.id) = r
BY DEF At

\* The well-formedness of the rows that the operations create.
LEMMA NewPerson ==
    ASSUME NEW p \in People, NEW v
    PROVE  WellFormed(Person(p, v))
<1>1. IsRow(Person(p, v))
  BY NewRows
<1> QED BY <1>1, Pools DEF WellFormed, Person, Row, Bare, Has, Columns

LEMMA NewName ==
    ASSUME NEW n \in Names, NEW p, NEW v, NEW z
    PROVE  WellFormed(Name(n, p, v, z))
<1>1. IsRow(Name(n, p, v, z))
  BY NewRows
<1> QED BY <1>1, Pools DEF WellFormed, Name, Row, Bare, Has, Columns

LEMMA NewEvent ==
    ASSUME NEW e \in Events, NEW p, NEW v
    PROVE  WellFormed(Event(e, p, v)) /\ WellFormed(CoupleEvent(e, p, v))
<1>1. IsRow(Event(e, p, v)) /\ IsRow(CoupleEvent(e, p, v))
  BY NewRows
<1> QED BY <1>1, Pools DEF WellFormed, Event, CoupleEvent, Row, Bare, Has, Columns

LEMMA NewCitation ==
    ASSUME NEW k \in Citations, NEW p
    PROVE  WellFormed(Citation(k, p, None, None))
<1> DEFINE r == Citation(k, p, None, None)
<1>1. IsRow(r)
  BY NewRows
<1>2. r.t = "citations" /\ r.id = k
      /\ \A c \in Columns : r.ref[c] = IF c = "person" THEN p ELSE None
  BY DEF Citation, Row, Bare, Columns
<1> HIDE DEF r
<1> QED BY <1>1, <1>2, Pools DEF WellFormed, Has, r

LEMMA NewFamily ==
    ASSUME NEW f \in Families, NEW h, NEW v
    PROVE  WellFormed(Family(f, h, v))
<1>1. IsRow(Family(f, h, v))
  BY NewRows
<1> QED BY <1>1, Pools DEF WellFormed, Family, Row, Bare, Has, Columns

LEMMA NewChild ==
    ASSUME NEW f \in Families, NEW p \in People
    PROVE  WellFormed(Child(f, p)) /\ Child(f, p).t = "family_children"
<1> DEFINE r == Child(f, p)
<1>1. IsRow(r)
  BY NewRows
<1>2. r.t = "family_children" /\ r.id = <<f, p>>
      /\ \A c \in Columns : r.ref[c] = IF c = "person" THEN p ELSE IF c = "family" THEN f ELSE None
  BY DEF Child, Row, Bare, Columns
<1>3. r.ref["family"] = f /\ r.ref["person"] = p
  BY <1>2 DEF Columns
<1> HIDE DEF r
<1> QED BY <1>1, <1>2, <1>3, Pools DEF WellFormed, Has, r

\* ... and of those they change.
LEMMA EditedOK ==
    ASSUME NEW r, WellFormed(r), NEW d
    PROVE  /\ WellFormed([r EXCEPT !.data = d]) /\ SameRow(r, [r EXCEPT !.data = d])
           /\ WellFormed([r EXCEPT !.primary = d]) /\ SameRow(r, [r EXCEPT !.primary = d])
<1> DEFINE g == [c \in Columns |-> r.ref[c]]
<1>1. r = Row(r.t, r.id, g, r.data, r.primary)
  BY DEF IsRow, WellFormed
<1>2. IsRow([r EXCEPT !.data = d]) /\ IsRow([r EXCEPT !.primary = d])
  BY EditedRow DEF WellFormed
<1> HIDE DEF g
<1>3. /\ [r EXCEPT !.data = d].t = r.t /\ [r EXCEPT !.data = d].id = r.id
      /\ [r EXCEPT !.data = d].ref = r.ref
      /\ [r EXCEPT !.primary = d].t = r.t /\ [r EXCEPT !.primary = d].id = r.id
      /\ [r EXCEPT !.primary = d].ref = r.ref
  BY <1>1 DEF Row
<1> QED BY <1>2, <1>3, Zenon DEF WellFormed, SameRow

\* Filling a column keeps the others.
LEMMA FilledIs ==
    ASSUME NEW r, IsRow(r), NEW c, NEW v
    PROVE  Filled(r, c, v) = Row(r.t, r.id, [[k \in Columns |-> r.ref[k]] EXCEPT ![c] = v], r.data, r.primary)
<1> DEFINE f == [k \in Columns |-> r.ref[k]]
<1>1. r.ref = f
  BY DEF IsRow, Row
<1>2. r = Row(r.t, r.id, f, r.data, r.primary)
  BY DEF IsRow
<1> HIDE DEF f
<1>3. Filled(r, c, v) = Row(r.t, r.id, [f EXCEPT ![c] = v], r.data, r.primary)
  BY <1>1, <1>2 DEF Filled, Row
<1> QED BY <1>3 DEF f

LEMMA FilledKey ==
    ASSUME NEW r, IsRow(r), NEW c, NEW v
    PROVE  Filled(r, c, v).t = r.t /\ Filled(r, c, v).id = r.id
BY FilledIs DEF Row

LEMMA FilledRef ==
    ASSUME NEW r, IsRow(r), NEW c, NEW v, NEW k \in Columns
    PROVE  Filled(r, c, v).ref[k] = IF k = c THEN v ELSE r.ref[k]
<1> DEFINE g == [[x \in Columns |-> r.ref[x]] EXCEPT ![c] = v]
<1>1. g[k] = IF k = c THEN v ELSE r.ref[k]
  OBVIOUS
<1>2. Filled(r, c, v) = Row(r.t, r.id, g, r.data, r.primary)
  BY FilledIs
<1> HIDE DEF g
<1> QED BY <1>1, <1>2 DEF Row

LEMMA FilledOK ==
    ASSUME NEW f, WellFormed(f), f.t = "families", NEW c \in {"husband", "wife"}, NEW v
    PROVE  WellFormed(Filled(f, c, v)) /\ SameRow(f, Filled(f, c, v))
<1>1. IsRow(f) /\ c \in Columns
  BY DEF WellFormed, Columns
<1>2. IsRow(Filled(f, c, v))
  BY <1>1, FilledRow DEF Filled
<1>3. Filled(f, c, v).t = "families" /\ Filled(f, c, v).id = f.id
  BY <1>1, FilledKey
<1>4. \A k \in Columns : k # c => Filled(f, c, v).ref[k] = f.ref[k]
  BY <1>1, FilledRef
<1>5. f.id \in Pool["families"] /\ \A k \in Columns : f.ref[k] # None => k \in Has["families"]
  BY DEF WellFormed
<1>6. c \in Has["families"]
  BY DEF Has
<1> QED BY <1>2, <1>3, <1>4, <1>5, <1>6, Zenon DEF WellFormed, SameRow

-----------------------------------------------------------------------------
(***************************************************************************)
(* Sound sets of writes.                                                   *)
(***************************************************************************)

\* One new row.
LEMMA InsertSound ==
    ASSUME NoRowIsNone, NEW r, WellFormed(r), r.t # "person_mentions"
    PROVE  Sound({ins(r)})
<1>1. Typed({ins(r)})
  BY InsTyped DEF Typed
<1> QED BY <1>1 DEF Sound, Proper, Once, ins

\* Two new rows of two tables.
LEMMA InsertsSound ==
    ASSUME NoRowIsNone, NEW r, WellFormed(r), NEW q, WellFormed(q), r.t # q.t,
           r.t # "person_mentions", q.t # "person_mentions"
    PROVE  Sound({ins(r), ins(q)})
<1>1. Typed({ins(r), ins(q)})
  BY InsTyped DEF Typed
<1> QED BY <1>1 DEF Sound, Proper, Once, ins

\* Rows of the tree that are changed or deleted, each in one way.
LEMMA ChangesSound ==
    ASSUME NoRowIsNone, RowsOK, NEW W,
           \A x \in W : /\ x.old \in rows
                        /\ x.new # None => WellFormed(x.new) /\ SameRow(x.old, x.new)
                        /\ x.new = None => x.old.t # "person_mentions"
                        /\ x.logged = x.new,
           Once(W),
           \A x, y \in W : x.new # None /\ x.new = y.new => x = y
    PROVE  Sound(W)
<1>1. \A x \in W : WellFormed(x.old) /\ x.old # None
  BY DEF RowsOK, WellFormed, NoRowIsNone
<1>2. Typed(W)
  BY <1>1 DEF Typed, TypedWrite
<1>3. \A x, y \in W : x.old.id = y.old.id => x.old = y.old
  BY DEF RowsOK, Valid
<1> QED BY <1>1, <1>2, <1>3 DEF Sound, Proper

\* One changed row.
LEMMA UpdateSound ==
    ASSUME NoRowIsNone, RowsOK, NEW r \in rows, NEW q, WellFormed(q), SameRow(r, q)
    PROVE  Sound({upd(r, q)})
<1>1. q # None
  BY DEF WellFormed, NoRowIsNone
<1> QED BY <1>1, ChangesSound DEF Once, upd

\* One deleted row.
LEMMA DeleteSound ==
    ASSUME NoRowIsNone, RowsOK, NEW r \in rows, r.t # "person_mentions"
    PROVE  Sound({del(r)})
BY ChangesSound DEF Once, del

\* Without deletions nothing cascades.
LEMMA NoDeletions ==
    ASSUME NEW W, \A x \in W : x.new # None
    PROVE  NoCascade(rows, W)
BY DEF NoCascade, Gone, Deletes

\* Only citations refer to a name, an event, a child row, a citation or a
\* candidate.
LEMMA Leaves ==
    ASSUME RowsOK, NEW r \in rows, r.t \notin {"persons", "families", "person_mentions"},
           NEW q \in rows, q.t # "citations"
    PROVE  r.id \notin Targets(q)
<1> SUFFICES ASSUME NEW c \in Columns, q.ref[c] = r.id, q.ref[c] # None PROVE FALSE
  BY DEF Targets
<1>1. c \in Has[q.t] /\ q.t \in DOMAIN Has
  BY DEF RowsOK, WellFormed
<1>2. Refers[c] \in {"persons", "families", "person_mentions"}
  BY <1>1 DEF Has, Refers, Columns
<1>3. q.ref[c] \in Ids(Of(rows, Refers[c]))
  BY DEF RowsOK, Valid, Keyed
<1>4. PICK x \in rows : x.t = Refers[c] /\ x.id = r.id
  BY <1>3 DEF Ids, Of
<1>5. x = r
  BY <1>4 DEF RowsOK, Valid
<1> QED BY <1>2, <1>4, <1>5

LEMMA DeleteLeaf ==
    ASSUME RowsOK, NEW r \in rows, r.t \notin {"persons", "families", "person_mentions"}
    PROVE  NoCascade(rows, {del(r)})
<1>1. News({del(r)}) = {} /\ Gone({del(r)}) \subseteq {r.id}
  BY DEF News, Gone, Deletes, del
<1> QED BY <1>1, Leaves DEF NoCascade

-----------------------------------------------------------------------------
(***************************************************************************)
(* The requests, one by one.                                               *)
(***************************************************************************)
Asked(w) == \E a, W : audited(w, a, W) /\ Planned(a, W)

LEMMA FreshFrom ==
    ASSUME NEW pool, NEW x \in Fresh(pool)
    PROVE  x \in pool
BY DEF Fresh

\* A request that is neither a merge nor a new link.
LEMMA PlannedPlainly ==
    ASSUME NEW w, NEW a \in Actions \ {"relative_add", "person_merge"}, NEW W,
           audited(w, a, W), Sound(W), NoCascade(rows, W)
    PROVE  Asked(w)
BY DEF Asked, Planned, audited

LEMMA CreatePerson ==
    ASSUME NoRowIsNone, RowsOK, NEW w, create_person(w)
    PROVE  Asked(w)
<1>1. PICK p \in Fresh(People), n \in Fresh(Names), sex \in Sexes, sig \in Signatures :
        audited(w, "person_create", {ins(Person(p, sex)), ins(Name(n, p, sig, TRUE))})
  BY DEF create_person
<1> DEFINE r == Person(p, sex)
           q == Name(n, p, sig, TRUE)
<1>2. WellFormed(r) /\ WellFormed(q) /\ r.t = "persons" /\ q.t = "names"
  <2>1. WellFormed(r)
    BY FreshFrom, NewPerson
  <2>2. WellFormed(q)
    BY FreshFrom, NewName
  <2>3. r.t = "persons" /\ q.t = "names"
    BY DEF Person, Name, Row
  <2> QED BY <2>1, <2>2, <2>3
<1> HIDE DEF r, q
<1>3. Sound({ins(r), ins(q)})
  BY <1>2, InsertsSound
<1>4. NoCascade(rows, {ins(r), ins(q)})
  <2>1. r # None /\ q # None
    BY <1>2 DEF WellFormed, NoRowIsNone
  <2> QED BY <2>1, NoDeletions DEF ins
<1>5. audited(w, "person_create", {ins(r), ins(q)})
  BY <1>1 DEF r, q
<1>6. "person_create" \in Actions \ {"relative_add", "person_merge"}
  BY DEF Actions
<1> QED BY <1>3, <1>4, <1>5, <1>6, PlannedPlainly

\* A request of one insertion, update or deletion.
LEMMA PlannedInsert ==
    ASSUME NoRowIsNone, NEW w, NEW a \in Actions \ {"relative_add", "person_merge"}, NEW r,
           WellFormed(r), r.t # "person_mentions", audited(w, a, {ins(r)})
    PROVE  Asked(w)
<1>1. r # None
  BY DEF WellFormed, NoRowIsNone
<1>2. NoCascade(rows, {ins(r)})
  BY <1>1, NoDeletions DEF ins
<1> QED BY <1>2, InsertSound, PlannedPlainly

LEMMA PlannedUpdate ==
    ASSUME NoRowIsNone, RowsOK, NEW w, NEW a \in Actions \ {"relative_add", "person_merge"},
           NEW r \in rows, NEW q, WellFormed(q), SameRow(r, q), audited(w, a, {upd(r, q)})
    PROVE  Asked(w)
<1>1. q # None
  BY DEF WellFormed, NoRowIsNone
<1>2. NoCascade(rows, {upd(r, q)})
  BY <1>1, NoDeletions DEF upd
<1> QED BY <1>2, UpdateSound, PlannedPlainly

LEMMA PlannedDelete ==
    ASSUME NoRowIsNone, RowsOK, NEW w, NEW a \in Actions \ {"relative_add", "person_merge"},
           NEW r \in rows, r.t \notin {"persons", "families", "person_mentions"}, audited(w, a, {del(r)})
    PROVE  Asked(w)
BY DeleteLeaf, DeleteSound, PlannedPlainly

LEMMA EditRow ==
    ASSUME NoRowIsNone, RowsOK, NEW w, NEW r \in rows, NEW d,
           NEW a \in {"person_update", "event_edit"}, audited(w, a, {upd(r, [r EXCEPT !.data = d])})
    PROVE  Asked(w)
<1>1. WellFormed([r EXCEPT !.data = d]) /\ SameRow(r, [r EXCEPT !.data = d])
  BY EditedOK DEF RowsOK
<1>2. a \in Actions \ {"relative_add", "person_merge"}
  BY DEF Actions
<1> QED BY <1>1, <1>2, PlannedUpdate

LEMMA SimpleEdits ==
    ASSUME NoRowIsNone, RowsOK, NEW w,
           update_person(w) \/ add_event(w) \/ edit_event(w) \/ delete_event(w)
           \/ create_citation(w) \/ delete_citation(w)
    PROVE  Asked(w)
<1> USE DEF Of
<1>1. CASE update_person(w)
  <2>1. PICK p \in Of(rows, "persons") :
          \/ \E sex \in Sexes \ {p.data} :
                audited(w, "person_update", {upd(p, [p EXCEPT !.data = sex])})
          \/ \E n \in EditedName(p.id) : \E sig \in Signatures \ {n.data} :
                audited(w, "person_update", {upd(n, [n EXCEPT !.data = sig])})
    BY <1>1 DEF update_person
  <2>2. EditedName(p.id) \subseteq rows
    BY DEF EditedName, About
  <2>3. PICK r \in rows : \E d : audited(w, "person_update", {upd(r, [r EXCEPT !.data = d])})
    BY <2>1, <2>2
  <2> QED BY <2>3, EditRow
<1>2. CASE add_event(w)
  <2>1. PICK e \in Fresh(Events) : \E x : \/ audited(w, "event_add", {ins(Event(e, x, "raw"))})
                                          \/ audited(w, "event_add", {ins(CoupleEvent(e, x, "raw"))})
    BY <1>2 DEF add_event
  <2>2. e \in Events
    BY FreshFrom
  <2>3. PICK r : WellFormed(r) /\ r.t = "events" /\ audited(w, "event_add", {ins(r)})
    <3>1. \A x : Event(e, x, "raw").t = "events" /\ CoupleEvent(e, x, "raw").t = "events"
      BY DEF Event, CoupleEvent, Row
    <3> QED BY <2>1, <2>2, <3>1, NewEvent
  <2>4. "event_add" \in Actions \ {"relative_add", "person_merge"}
    BY DEF Actions
  <2> QED BY <2>3, <2>4, PlannedInsert
<1>3. CASE edit_event(w)
  <2>1. PICK r \in rows : \E d : audited(w, "event_edit", {upd(r, [r EXCEPT !.data = d])})
    BY <1>3 DEF edit_event
  <2> QED BY <2>1, EditRow
<1>4. CASE delete_event(w)
  <2>1. PICK r \in rows : r.t = "events" /\ audited(w, "event_delete", {del(r)})
    BY <1>4 DEF delete_event
  <2>2. "event_delete" \in Actions \ {"relative_add", "person_merge"}
    BY DEF Actions
  <2> QED BY <2>1, <2>2, PlannedDelete
<1>5. CASE create_citation(w)
  <2>1. PICK k \in Fresh(Citations) : \E x : audited(w, "citation_add", {ins(Citation(k, x, None, None))})
    BY <1>5 DEF create_citation
  <2>2. k \in Citations
    BY FreshFrom
  <2>3. PICK r : WellFormed(r) /\ r.t = "citations" /\ audited(w, "citation_add", {ins(r)})
    <3>1. \A x : Citation(k, x, None, None).t = "citations"
      BY DEF Citation, Row
    <3> QED BY <2>1, <2>2, <3>1, NewCitation
  <2>4. "citation_add" \in Actions \ {"relative_add", "person_merge"}
    BY DEF Actions
  <2> QED BY <2>3, <2>4, PlannedInsert
<1>6. CASE delete_citation(w)
  <2>1. PICK r \in rows : r.t = "citations" /\ audited(w, "citation_delete", {del(r)})
    BY <1>6 DEF delete_citation
  <2>2. "citation_delete" \in Actions \ {"relative_add", "person_merge"}
    BY DEF Actions
  <2> QED BY <2>1, <2>2, PlannedDelete
<1> QED BY <1>1, <1>2, <1>3, <1>4, <1>5, <1>6

-----------------------------------------------------------------------------
(***************************************************************************)
(* link_relative fills what is empty.                                      *)
(***************************************************************************)
LEMMA FillSlot ==
    ASSUME NoRowIsNone, RowsOK, NEW w, NEW f \in Of(rows, "families"), NEW c \in {"husband", "wife"},
           f.ref[c] = None, NEW v, audited(w, "relative_add", {upd(f, Filled(f, c, v))})
    PROVE  Asked(w)
<1> DEFINE q == Filled(f, c, v)
           W == {upd(f, q)}
<1>1. f \in rows /\ f.t = "families" /\ WellFormed(f)
  BY DEF Of, RowsOK
<1>2. WellFormed(q) /\ SameRow(f, q)
  BY <1>1, FilledOK
<1>3. q.id = f.id
  BY <1>1, FilledKey DEF WellFormed
<1>4. \A k \in {"husband", "wife"} : f.ref[k] # None => q.ref[k] = f.ref[k]
  BY <1>1, FilledRef DEF WellFormed, Columns
<1>5. q # None
  BY <1>2 DEF WellFormed, NoRowIsNone
<1> HIDE DEF q
<1>6. Sound(W)
  BY <1>1, <1>2, UpdateSound
<1>7. NoCascade(rows, W)
  BY <1>5, NoDeletions DEF upd
<1>8. KeepsSlots(W)
  BY <1>3, <1>4, <1>5 DEF KeepsSlots, upd
<1>9. Planned("relative_add", W)
  BY <1>6, <1>7, <1>8 DEF Planned, Actions
<1>10. audited(w, "relative_add", W)
  BY DEF q
<1> HIDE DEF W
<1> QED BY <1>9, <1>10 DEF Asked

LEMMA OnlyInserts ==
    ASSUME NoRowIsNone, NEW w, NEW W, Sound(W), \A x \in W : x.old = None,
           audited(w, "relative_add", W)
    PROVE  Asked(w)
<1>1. NoCascade(rows, W)
  BY NoDeletions DEF Sound, Proper, Typed, TypedWrite
<1>2. KeepsSlots(W)
  BY DEF KeepsSlots
<1>3. Planned("relative_add", W)
  BY <1>1, <1>2 DEF Planned, Actions, audited
<1> QED BY <1>3 DEF Asked

\* A new family with one slot taken.
LEMMA FamilyOf ==
    ASSUME NEW f \in Fresh(Families), NEW c \in {"husband", "wife"}, NEW v
    PROVE  /\ WellFormed(Family(f, None, None))
           /\ WellFormed(Filled(Family(f, None, None), c, v))
           /\ Filled(Family(f, None, None), c, v).t = "families"
           /\ Filled(Family(f, None, None), c, v).id = f
           /\ Family(f, None, None).t = "families"
           /\ Family(f, None, None).id = f
<1> DEFINE r == Family(f, None, None)
<1>1. WellFormed(r)
  BY FreshFrom, NewFamily
<1>2. r.t = "families" /\ r.id = f
  BY DEF Family, Row
<1> HIDE DEF r
<1>3. WellFormed(Filled(r, c, v))
  BY <1>1, <1>2, FilledOK
<1>4. Filled(r, c, v).t = "families" /\ Filled(r, c, v).id = f
  BY <1>1, <1>2, FilledKey DEF WellFormed
<1> QED BY <1>1, <1>2, <1>3, <1>4 DEF r

LEMMA Slots ==
    ASSUME NEW p, NEW fam, NEW relation \in {"father", "mother", "parent"}
    PROVE  /\ SlotFor(p) \in {"husband", "wife"}
           /\ Other(SlotFor(p)) \in {"husband", "wife"} \ {SlotFor(p)}
           /\ ParentSlot(fam, p, relation) \in {"husband", "wife"}
BY DEF SlotFor, Other, ParentSlot

LEMMA ParentFamilyIs ==
    ASSUME RowsOK, NEW p, NEW f \in ParentFamilies(p)
    PROVE  f \in Of(rows, "families")
<1>1. PICK c \in About(rows, "family_children", p) : f = At(rows, c.ref.family)
  BY DEF ParentFamilies
<1>2. c \in rows /\ c.t = "family_children"
  BY <1>1 DEF About, Of
<1>3. c.ref["family"] # None
  BY <1>2, ChildIs DEF RowsOK
<1>4. c.ref["family"] \in Ids(Of(rows, "families"))
  BY <1>2, <1>3 DEF RowsOK, Valid, Refers, Columns, Keyed
<1>5. PICK x \in Of(rows, "families") : x.id = c.ref["family"]
  BY <1>4 DEF Ids
<1>6. At(rows, x.id) = x
  BY AtOnly DEF RowsOK, Valid, Of
<1> QED BY <1>1, <1>5, <1>6

LEMMA LinkParent ==
    ASSUME NoRowIsNone, RowsOK, NEW w, NEW p \in People, NEW q, NEW relation \in {"father", "mother", "parent"},
           NEW W \in link_parent(p, q, relation), audited(w, "relative_add", W)
    PROVE  Asked(w)
<1>1. CASE ParentFamilies(p) = {}
  <2>1. PICK f \in Fresh(Families) :
          W = {[ins(Family(f, None, None)) EXCEPT
                  !.new = Filled(Family(f, None, None), ParentSlot(Family(f, None, None), q, relation), q)],
               ins(Child(f, p))}
    BY <1>1 DEF link_parent
  <2> DEFINE fam == Family(f, None, None)
             slot == ParentSlot(fam, q, relation)
             r == Filled(fam, slot, q)
             c == Child(f, p)
             x == [ins(fam) EXCEPT !.new = r]
             y == ins(c)
  <2>2. slot \in {"husband", "wife"}
    BY Slots
  <2>3. /\ WellFormed(fam) /\ WellFormed(r) /\ r.t = "families"
        /\ r.id = f /\ fam.id = f /\ fam.t = "families"
    <3> HIDE DEF slot
    <3> QED BY <2>2, FamilyOf
  <2>4. WellFormed(c) /\ c.t = "family_children"
    BY FreshFrom, NewChild
  <2>5. W = {x, y}
    BY <2>1
  <2> HIDE DEF fam, slot, r, c
  <2>6. x = [old |-> None, new |-> r, logged |-> fam] /\ y = [old |-> None, new |-> c, logged |-> c]
    BY DEF ins
  <2> HIDE DEF x, y
  <2>7. TypedWrite(x) /\ TypedWrite(y)
    BY <2>3, <2>4, <2>6 DEF TypedWrite, WellFormed, NoRowIsNone
  <2>8. Sound(W)
    BY <2>3, <2>4, <2>5, <2>6, <2>7 DEF Sound, Proper, Typed, Once
  <2>9. \A z \in W : z.old = None
    BY <2>5, <2>6
  <2> QED BY <2>8, <2>9, OnlyInserts
<1>2. CASE ParentFamilies(p) # {}
  <2>1. PICK fam \in ParentFamilies(p) :
          /\ W = {upd(fam, Filled(fam, ParentSlot(fam, q, relation), q))}
          /\ fam.ref[ParentSlot(fam, q, relation)] = None
    BY <1>2 DEF link_parent
  <2>2. ParentSlot(fam, q, relation) \in {"husband", "wife"}
    BY Slots
  <2>3. fam \in Of(rows, "families")
    BY ParentFamilyIs
  <2> QED BY <2>1, <2>2, <2>3, FillSlot
<1> QED BY <1>1, <1>2

LEMMA LinkSpouse ==
    ASSUME NoRowIsNone, RowsOK, NEW w, NEW p, NEW q,
           NEW W \in link_spouse(p, q), audited(w, "relative_add", W)
    PROVE  Asked(w)
<1> DEFINE free(f) == IF f.ref.husband = p THEN "wife" ELSE "husband"
           open    == {f \in FamiliesOf(p) : f.ref[free(f)] = None}
<1>1. ~ (\E f \in FamiliesOf(p) : q \in Spouses(f))
  BY DEF link_spouse
<1>2. CASE open # {}
  <2>1. PICK f \in open : W = {upd(f, Filled(f, free(f), q))}
    BY <1>1, <1>2 DEF link_spouse
  <2>2. f \in Of(rows, "families")
    BY DEF FamiliesOf
  <2>3. free(f) \in {"husband", "wife"} /\ f.ref[free(f)] = None
    OBVIOUS
  <2> HIDE DEF free
  <2> QED BY <2>1, <2>2, <2>3, FillSlot
<1>3. CASE open = {}
  <2>1. PICK f \in Fresh(Families) :
          W = {ins(Filled(Filled(Family(f, None, None), SlotFor(p), p), Other(SlotFor(p)), q))}
    BY <1>1, <1>3 DEF link_spouse
  <2> DEFINE a == Filled(Family(f, None, None), SlotFor(p), p)
             r == Filled(a, Other(SlotFor(p)), q)
  <2>2. WellFormed(a) /\ a.t = "families"
    BY Slots, FamilyOf
  <2> HIDE DEF a
  <2>3. WellFormed(r) /\ r.t = "families"
    <3>1. WellFormed(r) /\ SameRow(a, r)
      BY <2>2, Slots, FilledOK
    <3> QED BY <2>2, <3>1 DEF SameRow
  <2>4. W = {ins(r)}
    BY <2>1 DEF a
  <2> HIDE DEF r
  <2>5. Sound(W)
    BY <2>3, <2>4, InsertSound
  <2>6. \A z \in W : z.old = None
    BY <2>4 DEF ins
  <2> QED BY <2>5, <2>6, OnlyInserts
<1> QED BY <1>2, <1>3

LEMMA LinkChild ==
    ASSUME NoRowIsNone, RowsOK, NEW w, NEW p, NEW q \in People,
           NEW W \in link_child(p, q), audited(w, "relative_add", W)
    PROVE  Asked(w)
<1>1. CASE FamiliesOf(p) = {}
  <2>1. PICK f \in Fresh(Families) :
          W = {ins(Filled(Family(f, None, None), SlotFor(p), p)), ins(Child(f, q))}
    BY <1>1 DEF link_child
  <2> DEFINE a == Filled(Family(f, None, None), SlotFor(p), p)
             c == Child(f, q)
  <2>2. WellFormed(a) /\ a.t = "families"
    BY Slots, FamilyOf
  <2>3. WellFormed(c)
    BY FreshFrom, NewChild
  <2>4. c.t = "family_children"
    BY FreshFrom, NewChild
  <2> HIDE DEF a, c
  <2>5. W = {ins(a), ins(c)}
    BY <2>1 DEF a, c
  <2>6. Sound(W)
    BY <2>2, <2>3, <2>4, <2>5, InsertsSound
  <2>7. \A z \in W : z.old = None
    BY <2>5 DEF ins
  <2> QED BY <2>6, <2>7, OnlyInserts
<1>2. CASE FamiliesOf(p) # {}
  <2>1. PICK x \in FamiliesOf(p) : W = {ins(Child(x.id, q))}
    BY <1>2 DEF link_child
  <2>2. x.id \in Families
    BY Pools DEF FamiliesOf, Of, RowsOK, WellFormed
  <2>3. WellFormed(Child(x.id, q)) /\ Child(x.id, q).t = "family_children"
    BY <2>2, NewChild
  <2>4. Sound(W)
    BY <2>1, <2>3, InsertSound
  <2>5. \A z \in W : z.old = None
    BY <2>1 DEF ins
  <2> QED BY <2>4, <2>5, OnlyInserts
<1> QED BY <1>1, <1>2

LEMMA LinkRelative ==
    ASSUME NoRowIsNone, RowsOK, NEW w, link_relative(w)
    PROVE  Asked(w)
<1>1. PICK p \in Ids(Of(rows, "persons")), q \in Ids(Of(rows, "persons")), relation \in Relations :
        \E W \in CASE relation \in {"father", "mother", "parent"} -> link_parent(p, q, relation)
                   [] relation = "spouse" -> link_spouse(p, q)
                   [] relation = "child"  -> link_child(p, q) :
           audited(w, "relative_add", W)
  BY DEF link_relative
<1>2. p \in People /\ q \in People
  BY Pools DEF Ids, Of, RowsOK, WellFormed
<1>3. PICK W : /\ audited(w, "relative_add", W)
               /\ \/ relation \in {"father", "mother", "parent"} /\ W \in link_parent(p, q, relation)
                  \/ W \in link_spouse(p, q)
                  \/ W \in link_child(p, q)
  BY <1>1 DEF Relations
<1> QED BY <1>2, <1>3, LinkParent, LinkSpouse, LinkChild

-----------------------------------------------------------------------------
(***************************************************************************)
(* unlink_relative and delete_person.                                      *)
(***************************************************************************)

LEMMA ClearedOK ==
    ASSUME RowsOK, NEW f \in Of(rows, "families"), NEW q
    PROVE  WellFormed(Cleared(f, q)) /\ Cleared(f, q).id = f.id /\ SameRow(f, Cleared(f, q))
<1> DEFINE c == IF f.ref.husband = q THEN "husband" ELSE "wife"
<1>1. f \in rows /\ f.t = "families" /\ WellFormed(f) /\ IsRow(f)
  BY DEF Of, RowsOK, WellFormed
<1>2. c \in {"husband", "wife"} /\ Cleared(f, q) = Filled(f, c, None)
  BY DEF Cleared
<1> HIDE DEF c
<1> QED BY <1>1, <1>2, FilledOK, FilledKey

LEMMA UnlinkRelative ==
    ASSUME NoRowIsNone, RowsOK, NEW w, unlink_relative(w)
    PROVE  Asked(w)
<1>1. PICK p, q \in Ids(Of(rows, "persons")) :
        \/ audited(w, "relative_unlink",
                   {upd(f, Cleared(f, q)) : f \in {x \in ParentFamilies(p) : q \in Spouses(x)}})
        \/ \E f \in Of(rows, "families") :
              /\ <<f.ref.husband, f.ref.wife>> \in {<<p, q>>, <<q, p>>}
              /\ audited(w, "relative_unlink", {upd(f, Cleared(f, q))})
        \/ \E f \in FamiliesOf(p) : \E c \in About(rows, "family_children", q) :
              c.ref.family = f.id /\ audited(w, "relative_unlink", {del(c)})
  BY DEF unlink_relative
<1>2. "relative_unlink" \in Actions \ {"relative_add", "person_merge"}
  BY DEF Actions
<1>3. ASSUME NEW S \in SUBSET Of(rows, "families"),
             audited(w, "relative_unlink", {upd(f, Cleared(f, q)) : f \in S})
      PROVE  Asked(w)
  <2> DEFINE W == {upd(f, Cleared(f, q)) : f \in S}
  <2>1. \A f \in S : /\ f \in rows /\ WellFormed(Cleared(f, q)) /\ Cleared(f, q).id = f.id
                    /\ SameRow(f, Cleared(f, q))
    BY ClearedOK DEF Of
  <2>2. \A x \in W : /\ x.old \in S /\ x.new = Cleared(x.old, q) /\ x.logged = x.new
                     /\ x = upd(x.old, x.new)
    BY DEF upd
  <2>3. \A a, b \in rows : a.id = b.id => a = b
    BY DEF RowsOK, Valid
  <2> HIDE DEF W
  <2>4. Once(W)
    BY <2>2 DEF Once
  <2>5. \A x, y \in W : x.new.id = y.new.id => x = y
    <3> SUFFICES ASSUME NEW x \in W, NEW y \in W, x.new.id = y.new.id PROVE x = y
      OBVIOUS
    <3>1. x.old.id = y.old.id /\ x.old \in rows /\ y.old \in rows
      BY <2>1, <2>2
    <3> QED BY <3>1, <2>2, <2>3
  <2>6. \A x \in W : /\ x.old \in rows /\ WellFormed(x.new) /\ SameRow(x.old, x.new)
                    /\ x.logged = x.new /\ x.new # None
    BY <2>1, <2>2 DEF WellFormed, NoRowIsNone
  <2>7. Sound(W)
    <3>1. \A x, y \in W : x.new # None /\ x.new = y.new => x = y
      BY <2>5
    <3> QED BY <2>4, <2>6, <3>1, ChangesSound
  <2>8. NoCascade(rows, W)
    BY <2>6, NoDeletions
  <2>9. audited(w, "relative_unlink", W)
    BY <1>3 DEF W
  <2> QED BY <2>7, <2>8, <2>9, <1>2, PlannedPlainly
<1>4. CASE audited(w, "relative_unlink",
                   {upd(f, Cleared(f, q)) : f \in {x \in ParentFamilies(p) : q \in Spouses(x)}})
  <2>1. {x \in ParentFamilies(p) : q \in Spouses(x)} \in SUBSET Of(rows, "families")
    BY ParentFamilyIs
  <2> QED BY <2>1, <1>3, <1>4
<1>5. CASE \E f \in Of(rows, "families") : audited(w, "relative_unlink", {upd(f, Cleared(f, q))})
  <2>1. PICK f \in Of(rows, "families") : audited(w, "relative_unlink", {upd(f, Cleared(f, q))})
    BY <1>5
  <2>2. {f} \in SUBSET Of(rows, "families") /\ {upd(x, Cleared(x, q)) : x \in {f}} = {upd(f, Cleared(f, q))}
    OBVIOUS
  <2>3. audited(w, "relative_unlink", {upd(x, Cleared(x, q)) : x \in {f}})
    BY <2>1, <2>2
  <2> QED BY <2>2, <2>3, <1>3
<1>6. CASE \E c \in About(rows, "family_children", q) : audited(w, "relative_unlink", {del(c)})
  <2>1. PICK c \in rows : c.t = "family_children" /\ audited(w, "relative_unlink", {del(c)})
    BY <1>6 DEF About, Of
  <2> QED BY <2>1, <1>2, PlannedDelete
<1> QED BY <1>1, <1>4, <1>5, <1>6

\* A family in which one person gives way to another, or to nobody.
Swapped(f, p, v) == [f EXCEPT !.ref = [c \in Columns |-> IF f.ref[c] = p THEN v ELSE f.ref[c]]]
SwappedRight(q, f, p, v) ==
    /\ WellFormed(q) /\ q.id = f.id /\ q.t = "families"
    /\ \A c \in Columns : q.ref[c] = IF f.ref[c] = p THEN v ELSE f.ref[c]
LEMMA SwappedFamily ==
    ASSUME RowsOK, NEW f \in Of(rows, "families"), NEW p, NEW v, NEW q, q = Swapped(f, p, v), p # None
    PROVE  SwappedRight(q, f, p, v)
<1> DEFINE g == [c \in Columns |-> IF f.ref[c] = p THEN v ELSE f.ref[c]]
<1>1. f \in rows /\ f.t = "families" /\ WellFormed(f) /\ IsRow(f)
  BY DEF Of, RowsOK, WellFormed
<1>2. g = [c \in Columns |-> g[c]] /\ \A c \in Columns : g[c] = IF f.ref[c] = p THEN v ELSE f.ref[c]
  OBVIOUS
<1>3. q = [f EXCEPT !.ref = g]
  BY DEF Swapped
<1> HIDE DEF g
<1>4. q.t = "families" /\ q.id = f.id /\ q.ref = g
  BY <1>1, <1>2, <1>3, OtherRefs
<1>5. IsRow(q)
  BY <1>1, <1>2, <1>3, OtherRefs
<1>6. \A c \in Columns : q.ref[c] # None => c \in Has["families"]
  BY <1>1, <1>2, <1>4 DEF WellFormed
<1>7. WellFormed(q)
  BY <1>1, <1>4, <1>5, <1>6 DEF WellFormed, Has
<1> QED BY <1>2, <1>4, <1>7 DEF SwappedRight

LEMMA DeletePerson ==
    ASSUME NoRowIsNone, RowsOK, NEW w, delete_person(w)
    PROVE  Asked(w)
<1>1. PICK p \in Of(rows, "persons") :
        audited(w, "person_delete",
            {del(r) : r \in UNION {About(rows, t, p.id) : t \in {"names", "events", "family_children", "citations"}}}
            \cup {upd(f, [f EXCEPT !.ref = [c \in Columns |-> IF f.ref[c] = p.id THEN None ELSE f.ref[c]]])
                    : f \in FamiliesOf(p.id)}
            \cup {del(p)})
  BY DEF delete_person
<1> DEFINE S == UNION {About(rows, t, p.id) : t \in {"names", "events", "family_children", "citations"}}
           F == FamiliesOf(p.id)
           g(f) == [f EXCEPT !.ref = [c \in Columns |-> IF f.ref[c] = p.id THEN None ELSE f.ref[c]]]
           W == {del(r) : r \in S} \cup {upd(f, g(f)) : f \in F} \cup {del(p)}
<1>2. audited(w, "person_delete", W)
  BY <1>1
<1>3. p \in rows /\ p.t = "persons" /\ p.id # None
  BY IdIs DEF Of, RowsOK
<1>4. \A r \in S : r \in rows /\ r.t \notin {"families", "persons", "person_mentions"}
  BY DEF About, Of
<1>5. \A f \in F : f \in rows /\ f.t = "families" /\ f \in Of(rows, "families")
  BY DEF FamiliesOf, Of
<1>6. \A f \in F : WellFormed(g(f)) /\ g(f).id = f.id /\ SameRow(f, g(f))
  <2>1. \A f \in F : g(f) = Swapped(f, p.id, None)
    BY DEF Swapped
  <2> HIDE DEF g, F
  <2> QED BY <1>3, <1>5, <2>1, SwappedFamily DEF SwappedRight, SameRow
<1> HIDE DEF S, F, g
<1>7. \A x \in W : /\ x.old \in rows /\ x.logged = x.new
                   /\ \/ x.old.t \notin {"families", "person_mentions"} /\ x.new = None /\ x = del(x.old)
                      \/ x.old \in F /\ x.new = g(x.old) /\ x = upd(x.old, g(x.old))
  <2> SUFFICES ASSUME NEW x \in W
               PROVE  /\ x.old \in rows /\ x.logged = x.new
                      /\ \/ x.old.t \notin {"families", "person_mentions"} /\ x.new = None /\ x = del(x.old)
                         \/ x.old \in F /\ x.new = g(x.old) /\ x = upd(x.old, g(x.old))
    OBVIOUS
  <2>1. CASE x \in {del(r) : r \in S} \cup {del(p)}
    BY <2>1, <1>3, <1>4 DEF del
  <2>2. CASE x \in {upd(f, g(f)) : f \in F}
    BY <2>2, <1>5 DEF upd
  <2> QED BY <2>1, <2>2
<1> HIDE DEF W
<1>8. Once(W)
  BY <1>5, <1>7 DEF Once
<1>9. \A a, b \in rows : a.id = b.id => a = b
  BY DEF RowsOK, Valid
<1>10. \A x, y \in W : x.new # None /\ y.new # None /\ x.new.id = y.new.id => x = y
  <2> SUFFICES ASSUME NEW x \in W, NEW y \in W, x.new # None, y.new # None, x.new.id = y.new.id PROVE x = y
    OBVIOUS
  <2>1. x.old.id = y.old.id /\ x.old \in rows /\ y.old \in rows
    BY <1>6, <1>7
  <2> QED BY <2>1, <1>7, <1>9
<1>11. Sound(W)
  <2>1. \A x, y \in W : x.new # None /\ x.new = y.new => x = y
    BY <1>10
  <2>2. \A x \in W : /\ x.old \in rows
                     /\ x.new # None => WellFormed(x.new) /\ SameRow(x.old, x.new)
                     /\ x.new = None => x.old.t # "person_mentions"
                     /\ x.logged = x.new
    BY <1>5, <1>6, <1>7 DEF WellFormed, NoRowIsNone
  <2> QED BY <1>8, <2>1, <2>2, ChangesSound
<1>12. Planned("person_delete", W)
  BY <1>2, <1>11 DEF Planned, Actions, audited
<1> QED BY <1>2, <1>12 DEF Asked

-----------------------------------------------------------------------------
(***************************************************************************)
(* merge_persons.                                                          *)
(***************************************************************************)

\* What a merge does to a row, by its table.
MergeOne(x, M, keep, dup) ==
    \/ /\ x.old \in About(rows, "names", dup)
       /\ x = IF x.old \in M THEN upd(x.old, [Moved(x.old, keep) EXCEPT !.primary = FALSE]) ELSE del(x.old)
    \/ /\ \E t \in {"events", "citations", "person_mentions"} : x.old \in About(rows, t, dup)
       /\ x = upd(x.old, Moved(x.old, keep))
    \/ /\ x.old \in About(rows, "family_children", dup)
       /\ x = IF <<x.old.ref.family, keep>> \in Ids(Of(rows, "family_children"))
              THEN del(x.old) ELSE upd(x.old, Child(x.old.ref.family, keep))
    \/ /\ x.old \in FamiliesOf(dup)
       /\ x = upd(x.old, [x.old EXCEPT !.ref = [c \in Columns |-> IF x.old.ref[c] = dup THEN keep ELSE x.old.ref[c]]])
    \/ /\ x.old \in About(rows, "match_candidates", dup)
       /\ x = IF \E k \in About(rows, "match_candidates", keep) : k.ref.mention = x.old.ref.mention
              THEN del(x.old) ELSE upd(x.old, Moved(x.old, keep))
    \/ /\ x.old = At(rows, keep)
       /\ x = upd(x.old, [x.old EXCEPT !.data = At(rows, dup).data])
    \/ /\ x.old = At(rows, dup)
       /\ x = del(x.old)

LEMMA OldsOf ==
    ASSUME NEW r, NEW q
    PROVE  upd(r, q).old = r /\ del(r).old = r
BY DEF upd, del

LEMMA MergeParts ==
    ASSUME NEW M, NEW keep, NEW dup, NEW x \in MergeWrites(M, keep, dup)
    PROVE  MergeOne(x, M, keep, dup)
<1>1. CASE x \in merge_names(M, keep, dup)
  <2>1. PICK n \in About(rows, "names", dup) :
          x = IF n \in M THEN upd(n, [Moved(n, keep) EXCEPT !.primary = FALSE]) ELSE del(n)
    BY <1>1 DEF merge_names
  <2>2. x.old = n
    BY <2>1, OldsOf
  <2> QED BY <2>1, <2>2 DEF MergeOne
<1>2. CASE x \in merge_anchored(keep, dup)
  <2>1. PICK r \in UNION {About(rows, t, dup) : t \in {"events", "citations", "person_mentions"}} :
          x = upd(r, Moved(r, keep))
    BY <1>2 DEF merge_anchored
  <2>2. x.old = r
    BY <2>1, OldsOf
  <2> QED BY <2>1, <2>2 DEF MergeOne
<1>3. CASE x \in merge_children(keep, dup)
  <2>1. PICK c \in About(rows, "family_children", dup) :
          x = IF <<c.ref.family, keep>> \in Ids(Of(rows, "family_children"))
              THEN del(c) ELSE upd(c, Child(c.ref.family, keep))
    BY <1>3 DEF merge_children
  <2>2. x.old = c
    BY <2>1, OldsOf
  <2> QED BY <2>1, <2>2 DEF MergeOne
<1>4. CASE x \in merge_slots(keep, dup)
  <2>1. PICK f \in FamiliesOf(dup) :
          x = upd(f, [f EXCEPT !.ref = [c \in Columns |-> IF f.ref[c] = dup THEN keep ELSE f.ref[c]]])
    BY <1>4 DEF merge_slots
  <2>2. x.old = f
    BY <2>1, OldsOf
  <2> QED BY <2>1, <2>2 DEF MergeOne
<1>5. CASE x \in merge_candidates(keep, dup)
  <2>1. PICK c \in About(rows, "match_candidates", dup) :
          x = IF \E k \in About(rows, "match_candidates", keep) : k.ref.mention = c.ref.mention
              THEN del(c) ELSE upd(c, Moved(c, keep))
    BY <1>5 DEF merge_candidates
  <2>2. x.old = c
    BY <2>1, OldsOf
  <2> QED BY <2>1, <2>2 DEF MergeOne
<1>6. CASE x \in merge_sex(keep, dup)
  <2>1. x = upd(At(rows, keep), [At(rows, keep) EXCEPT !.data = At(rows, dup).data])
    BY <1>6 DEF merge_sex
  <2>2. x.old = At(rows, keep)
    BY <2>1, OldsOf
  <2> QED BY <2>1, <2>2 DEF MergeOne
<1>7. CASE x = del(At(rows, dup))
  <2>1. x.old = At(rows, dup)
    BY <1>7, OldsOf
  <2> QED BY <1>7, <2>1 DEF MergeOne
<1> QED BY <1>1, <1>2, <1>3, <1>4, <1>5, <1>6, <1>7 DEF MergeWrites

LEMMA MovedOK ==
    ASSUME NEW r, WellFormed(r), r.t # "family_children", "person" \in Has[r.t], NEW q
    PROVE  /\ WellFormed(Moved(r, q)) /\ Moved(r, q).id = r.id /\ Moved(r, q).t = r.t
           /\ Moved(r, q).data = r.data
           /\ \A c \in Columns : Moved(r, q).ref[c] = IF c = "person" THEN q ELSE r.ref[c]
<1>1. IsRow(r) /\ Moved(r, q) = Filled(r, "person", q) /\ "person" \in Columns
  BY DEF WellFormed, Moved, Filled, Columns
<1>2. IsRow(Filled(r, "person", q))
  BY <1>1, FilledRow DEF Filled
<1>3. Filled(r, "person", q).id = r.id /\ Filled(r, "person", q).t = r.t
  BY <1>1, FilledKey
<1>4. \A c \in Columns : Filled(r, "person", q).ref[c] = IF c = "person" THEN q ELSE r.ref[c]
  BY <1>1, FilledRef
<1>5. Filled(r, "person", q).data = r.data
  BY <1>1, FilledIs DEF Row
<1>6. r.id \in Pool[r.t] /\ r.t \in DOMAIN Has /\ \A c \in Columns : r.ref[c] # None => c \in Has[r.t]
  BY DEF WellFormed
<1> DEFINE m == Moved(r, q)
<1>7. IsRow(m) /\ m.id = r.id /\ m.t = r.t /\ m.data = r.data
      /\ \A c \in Columns : m.ref[c] = IF c = "person" THEN q ELSE r.ref[c]
  BY <1>1, <1>2, <1>3, <1>4, <1>5
<1> HIDE DEF m
<1>8. WellFormed(m)
  <2>1. \A c \in Columns : m.ref[c] # None => c \in Has[m.t]
    BY <1>6, <1>7
  <2> QED BY <1>6, <1>7, <2>1 DEF WellFormed
<1> QED BY <1>7, <1>8 DEF m

\* The columns in which a person can be.
LEMMA PersonColumns ==
    ASSUME RowsOK, NEW p \in Ids(Of(rows, "persons")), NEW r \in rows, NEW c \in Columns, r.ref[c] = p
    PROVE  c \in {"person", "husband", "wife"} /\ c \in Has[r.t]
<1>1. PICK x \in rows : x.t = "persons" /\ x.id = p
  BY DEF Ids, Of
<1>2. p # None
  BY <1>1, IdIs DEF RowsOK
<1>3. r.t \in DOMAIN Has /\ c \in Has[r.t]
  BY <1>2 DEF RowsOK, WellFormed
<1>4. CASE ~Keyed(r, c)
  BY <1>3, <1>4 DEF Keyed
<1>5. CASE Keyed(r, c)
  <2>1. p \in Ids(Of(rows, Refers[c]))
    BY <1>2, <1>5 DEF RowsOK, Valid
  <2>2. PICK y \in rows : y.t = Refers[c] /\ y.id = p
    BY <2>1 DEF Ids, Of
  <2>3. y = x
    BY <1>1, <2>2 DEF RowsOK, Valid
  <2>4. Refers[c] = "persons"
    BY <1>1, <2>2, <2>3
  <2> QED BY <1>3, <2>4 DEF Refers, Columns
<1> QED BY <1>4, <1>5

\* What a merge leaves of a row it writes.
MergeResult(x, keep, dup) ==
    /\ x.old \in rows
    /\ x.logged = x.new
    /\ x.new = None => x.old = At(rows, dup) \/ x.old.t \in {"names", "family_children", "match_candidates"}
    /\ x.new # None =>
          /\ WellFormed(x.new)
          /\ x.new.t = x.old.t
          /\ x.old.t # "family_children" => x.new.id = x.old.id
          /\ x.old.t = "family_children" => x.new.id = <<x.old.ref.family, keep>>
          /\ \A c \in Columns : x.new.ref[c] # dup /\ x.new.ref[c] \in {keep, x.old.ref[c], None}

LEMMA MovedResult ==
    ASSUME NoRowIsNone, RowsOK, NEW keep \in Ids(Of(rows, "persons")), NEW dup \in Ids(Of(rows, "persons")),
           keep # dup, NEW r \in rows,
           r.t \in {"names", "events", "citations", "person_mentions", "match_candidates"},
           NEW q, \/ q = Moved(r, keep) \/ q = [Moved(r, keep) EXCEPT !.primary = FALSE]
    PROVE  MergeResult(upd(r, q), keep, dup)
<1> DEFINE m == Moved(r, keep)
<1>1. WellFormed(r) /\ "person" \in Has[r.t]
  BY DEF RowsOK, Has
<1>2. WellFormed(m) /\ m.id = r.id /\ m.t = r.t
      /\ \A c \in Columns : m.ref[c] = IF c = "person" THEN keep ELSE r.ref[c]
  BY <1>1, MovedOK
<1> HIDE DEF m
<1>3. WellFormed([m EXCEPT !.primary = FALSE])
  BY <1>2, EditedOK
<1>4. m = Row(m.t, m.id, [c \in Columns |-> m.ref[c]], m.data, m.primary)
  BY <1>2 DEF WellFormed, IsRow
<1>5. [m EXCEPT !.primary = FALSE].id = m.id /\ [m EXCEPT !.primary = FALSE].t = m.t
      /\ [m EXCEPT !.primary = FALSE].ref = m.ref
  BY <1>4 DEF Row
<1>6. q = m \/ q = [m EXCEPT !.primary = FALSE]
  BY DEF m
<1>7. WellFormed(q) /\ q.id = r.id /\ q.t = r.t /\ q.ref = m.ref
  BY <1>2, <1>3, <1>5, <1>6
<1>8. \A c \in Columns : r.ref[c] = dup => c = "person"
  <2> SUFFICES ASSUME NEW c \in Columns, r.ref[c] = dup PROVE c = "person"
    OBVIOUS
  <2>1. c \in {"person", "husband", "wife"} /\ c \in Has[r.t]
    BY PersonColumns
  <2> QED BY <2>1 DEF Has
<1>9. \A c \in Columns : q.ref[c] # dup /\ q.ref[c] \in {keep, r.ref[c], None}
  BY <1>2, <1>7, <1>8
<1>10. q # None
  BY <1>7 DEF WellFormed, NoRowIsNone
<1> QED BY <1>7, <1>9, <1>10 DEF MergeResult, upd

LEMMA MergeResults ==
    ASSUME NoRowIsNone, RowsOK, NEW keep \in Ids(Of(rows, "persons")), NEW dup \in Ids(Of(rows, "persons")),
           keep # dup, NEW M, NEW x, MergeOne(x, M, keep, dup)
    PROVE  MergeResult(x, keep, dup)
<1> DEFINE r == x.old
<1>1. /\ At(rows, keep) \in rows /\ At(rows, keep).t = "persons" /\ At(rows, keep).id = keep
      /\ At(rows, dup) \in rows /\ At(rows, dup).t = "persons" /\ At(rows, dup).id = dup
  <2>1. PICK k \in rows : k.t = "persons" /\ k.id = keep
    BY DEF Ids, Of
  <2>2. PICK d \in rows : d.t = "persons" /\ d.id = dup
    BY DEF Ids, Of
  <2>3. At(rows, keep) = k /\ At(rows, dup) = d
    BY <2>1, <2>2, AtOnly DEF RowsOK, Valid
  <2> QED BY <2>1, <2>2, <2>3
<1>2. ASSUME r \in rows, r.t \in {"names", "family_children", "match_candidates"} \/ r = At(rows, dup), x = del(r)
      PROVE  MergeResult(x, keep, dup)
  <2>1. x.new = None /\ x.logged = None
    BY <1>2 DEF del
  <2> QED BY <1>2, <2>1 DEF MergeResult
<1>3. CASE /\ r \in About(rows, "names", dup)
           /\ x = IF r \in M THEN upd(r, [Moved(r, keep) EXCEPT !.primary = FALSE]) ELSE del(r)
  <2>1. r \in rows /\ r.t = "names"
    BY <1>3 DEF About, Of
  <2> QED BY <1>2, <1>3, <2>1, MovedResult
<1>4. CASE /\ \E t \in {"events", "citations", "person_mentions"} : r \in About(rows, t, dup)
           /\ x = upd(r, Moved(r, keep))
  <2>1. r \in rows /\ r.t \in {"events", "citations", "person_mentions"}
    BY <1>4 DEF About, Of
  <2> QED BY <1>4, <2>1, MovedResult
<1>5. CASE /\ r \in About(rows, "match_candidates", dup)
           /\ x = IF \E k \in About(rows, "match_candidates", keep) : k.ref.mention = r.ref.mention
                  THEN del(r) ELSE upd(r, Moved(r, keep))
  <2>1. r \in rows /\ r.t = "match_candidates"
    BY <1>5 DEF About, Of
  <2> QED BY <1>2, <1>5, <2>1, MovedResult
<1>6. CASE /\ r \in About(rows, "family_children", dup)
           /\ x = IF <<r.ref.family, keep>> \in Ids(Of(rows, "family_children"))
                  THEN del(r) ELSE upd(r, Child(r.ref.family, keep))
  <2>1. r \in rows /\ r.t = "family_children"
    BY <1>6 DEF About, Of
  <2> DEFINE q == Child(r.ref.family, keep)
  <2>2. r.ref["family"] \in Families /\ keep \in People
    <3>1. r.ref["family"] \in Families
      BY <2>1, ChildIs DEF RowsOK
    <3>2. keep \in People
      BY <1>1, Pools DEF RowsOK, WellFormed
    <3> QED BY <3>1, <3>2
  <2>3. WellFormed(q)
    BY <2>2, NewChild
  <2>4. q.t = r.t /\ q.id = <<r.ref.family, keep>>
    BY <2>1 DEF Child, Row
  <2>5. \A c \in Columns : q.ref[c] = IF c = "person" THEN keep ELSE IF c = "family" THEN r.ref.family ELSE None
    BY DEF Child, Row, Bare, Columns
  <2>6. r.ref["family"] # dup
    BY <2>1, PersonColumns DEF Columns
  <2>7. dup # None
    BY <1>1, IdIs DEF RowsOK
  <2>8. \A c \in Columns : q.ref[c] # dup /\ q.ref[c] \in {keep, r.ref[c], None}
    BY <2>5, <2>6, <2>7
  <2>9. q # None
    BY <2>3 DEF WellFormed, NoRowIsNone
  <2> HIDE DEF q
  <2>10. MergeResult(upd(r, q), keep, dup)
    BY <2>1, <2>3, <2>4, <2>8, <2>9 DEF MergeResult, upd
  <2> QED BY <1>2, <1>6, <2>1, <2>10 DEF q
<1>7. CASE /\ r \in FamiliesOf(dup)
           /\ x = upd(r, [r EXCEPT !.ref = [c \in Columns |-> IF r.ref[c] = dup THEN keep ELSE r.ref[c]]])
  <2> DEFINE q == Swapped(r, dup, keep)
  <2>1. r \in Of(rows, "families") /\ r \in rows /\ r.t = "families"
    BY <1>7 DEF FamiliesOf, Of
  <2>2. dup # None
    BY <1>1, IdIs DEF RowsOK
  <2>3. /\ WellFormed(q) /\ q.id = r.id /\ q.t = "families"
        /\ \A c \in Columns : q.ref[c] = IF r.ref[c] = dup THEN keep ELSE r.ref[c]
    <3>1. SwappedRight(q, r, dup, keep)
      BY <2>1, <2>2, SwappedFamily
    <3> QED BY <3>1 DEF SwappedRight
  <2>4. x = upd(r, q)
    BY <1>7 DEF Swapped
  <2> HIDE DEF q
  <2>5. q # None
    BY <2>3 DEF WellFormed, NoRowIsNone
  <2>6. MergeResult(upd(r, q), keep, dup)
    BY <2>1, <2>3, <2>5 DEF MergeResult, upd
  <2> QED BY <2>4, <2>6
<1>8. CASE /\ r = At(rows, keep)
           /\ x = upd(r, [r EXCEPT !.data = At(rows, dup).data])
  <2> DEFINE d == At(rows, dup).data
             q == [r EXCEPT !.data = d]
  <2>1. r \in rows /\ r.t = "persons" /\ WellFormed(r)
    BY <1>1, <1>8 DEF RowsOK
  <2>2. WellFormed(q)
    BY <2>1, EditedOK
  <2>3. r = Row(r.t, r.id, [c \in Columns |-> r.ref[c]], r.data, r.primary)
    BY <2>1 DEF WellFormed, IsRow
  <2> HIDE DEF d
  <2>4. q.id = r.id /\ q.t = r.t /\ q.ref = r.ref
    BY <2>3 DEF Row
  <2>5. x = upd(r, q)
    BY <1>8 DEF d
  <2> HIDE DEF q
  <2>6. \A c \in Columns : r.ref[c] # dup
    BY <2>1, PersonColumns DEF Has
  <2>7. q # None
    BY <2>2 DEF WellFormed, NoRowIsNone
  <2>8. MergeResult(upd(r, q), keep, dup)
    BY <2>1, <2>2, <2>4, <2>6, <2>7 DEF MergeResult, upd
  <2> QED BY <2>5, <2>8
<1>9. CASE r = At(rows, dup) /\ x = del(r)
  BY <1>1, <1>2, <1>9
<1> QED BY <1>3, <1>4, <1>5, <1>6, <1>7, <1>8, <1>9 DEF MergeOne

Two(keep, dup) ==
    /\ keep \in Ids(Of(rows, "persons"))
    /\ dup \in Ids(Of(rows, "persons"))
    /\ keep # dup

LEMMA TwoRows ==
    ASSUME RowsOK, NEW keep, NEW dup, Two(keep, dup)
    PROVE  /\ At(rows, keep) \in rows /\ At(rows, keep).t = "persons" /\ At(rows, keep).id = keep
           /\ At(rows, dup) \in rows /\ At(rows, dup).t = "persons" /\ At(rows, dup).id = dup
           /\ keep # None /\ dup # None
<1>1. PICK k \in rows : k.t = "persons" /\ k.id = keep
  BY DEF Two, Ids, Of
<1>2. PICK d \in rows : d.t = "persons" /\ d.id = dup
  BY DEF Two, Ids, Of
<1>3. At(rows, keep) = k /\ At(rows, dup) = d
  BY <1>1, <1>2, AtOnly DEF RowsOK, Valid
<1>4. keep # None /\ dup # None
  BY <1>1, <1>2, IdIs DEF RowsOK
<1> QED BY <1>1, <1>2, <1>3, <1>4

\* Whatever refers to dup is written by the merge.
LEMMA MergeReaches ==
    ASSUME RowsOK, NEW keep, NEW dup, Two(keep, dup), NEW M, NEW r \in rows, dup \in Targets(r)
    PROVE  \E x \in MergeWrites(M, keep, dup) : x.old = r
<1>1. PICK c \in Columns : r.ref[c] = dup
  BY DEF Targets
<1>2. c \in {"person", "husband", "wife"} /\ c \in Has[r.t]
  BY <1>1, PersonColumns DEF Two
<1>3. r.t \in DOMAIN Has
  BY DEF RowsOK, WellFormed
<1>4. CASE r.t = "names"
  <2>1. r \in About(rows, "names", dup)
    BY <1>1, <1>2, <1>4 DEF About, Of, Has
  <2>2. PICK x \in merge_names(M, keep, dup) : x = upd(r, [Moved(r, keep) EXCEPT !.primary = FALSE]) \/ x = del(r)
    BY <2>1 DEF merge_names
  <2> QED BY <2>2, OldsOf DEF MergeWrites
<1>5. CASE r.t \in {"events", "citations", "person_mentions"}
  <2>1. r \in UNION {About(rows, t, dup) : t \in {"events", "citations", "person_mentions"}}
    BY <1>1, <1>2, <1>5 DEF About, Of, Has
  <2>2. PICK x \in merge_anchored(keep, dup) : x = upd(r, Moved(r, keep))
    BY <2>1 DEF merge_anchored
  <2> QED BY <2>2, OldsOf DEF MergeWrites
<1>6. CASE r.t = "family_children"
  <2>1. r \in About(rows, "family_children", dup)
    BY <1>1, <1>2, <1>6 DEF About, Of, Has
  <2>2. PICK x \in merge_children(keep, dup) : x = upd(r, Child(r.ref.family, keep)) \/ x = del(r)
    BY <2>1 DEF merge_children
  <2> QED BY <2>2, OldsOf DEF MergeWrites
<1>7. CASE r.t = "families"
  <2>1. r \in FamiliesOf(dup)
    <3>1. dup # None
      BY TwoRows
    <3> QED BY <3>1, <1>1, <1>2, <1>7 DEF FamiliesOf, Spouses, Of, Has
  <2>2. PICK x \in merge_slots(keep, dup) :
          x = upd(r, [r EXCEPT !.ref = [k \in Columns |-> IF r.ref[k] = dup THEN keep ELSE r.ref[k]]])
    BY <2>1 DEF merge_slots
  <2> QED BY <2>2, OldsOf DEF MergeWrites
<1>8. CASE r.t = "match_candidates"
  <2>1. r \in About(rows, "match_candidates", dup)
    BY <1>1, <1>2, <1>8 DEF About, Of, Has
  <2>2. PICK x \in merge_candidates(keep, dup) : x = upd(r, Moved(r, keep)) \/ x = del(r)
    BY <2>1 DEF merge_candidates
  <2> QED BY <2>2, OldsOf DEF MergeWrites
<1> QED BY <1>2, <1>3, <1>4, <1>5, <1>6, <1>7, <1>8 DEF Has

\* A merge writes each row in one way.
LEMMA MergeOnce ==
    ASSUME RowsOK, NEW keep, NEW dup, Two(keep, dup), NEW M, NEW x, NEW y,
           MergeOne(x, M, keep, dup), MergeOne(y, M, keep, dup), x.old = y.old
    PROVE  x = y
<1>1. /\ At(rows, keep).t = "persons" /\ At(rows, dup).t = "persons" /\ At(rows, keep) # At(rows, dup)
  BY TwoRows DEF Two
<1>2. \A t, p : \A r \in About(rows, t, p) : r.t = t
  BY DEF About, Of
<1>3. \A p : \A r \in FamiliesOf(p) : r.t = "families"
  BY DEF FamiliesOf, Of
<1> DEFINE kind == x.old.t
<1>4. CASE kind = "names"
  BY <1>1, <1>2, <1>3, <1>4 DEF MergeOne
<1>5. CASE kind \in {"events", "citations", "person_mentions"}
  BY <1>1, <1>2, <1>3, <1>5 DEF MergeOne
<1>6. CASE kind = "family_children"
  BY <1>1, <1>2, <1>3, <1>6 DEF MergeOne
<1>7. CASE kind = "families"
  BY <1>1, <1>2, <1>3, <1>7 DEF MergeOne
<1>8. CASE kind = "match_candidates"
  BY <1>1, <1>2, <1>3, <1>8 DEF MergeOne
<1>9. CASE kind = "persons"
  BY <1>1, <1>2, <1>3, <1>9 DEF MergeOne
<1>10. kind \in {"names", "events", "citations", "person_mentions", "family_children", "families",
                 "match_candidates", "persons"}
  BY <1>1, <1>2, <1>3 DEF MergeOne
<1> QED BY <1>4, <1>5, <1>6, <1>7, <1>8, <1>9, <1>10

LEMMA MergeSound ==
    ASSUME NoRowIsNone, RowsOK, NEW keep, NEW dup, Two(keep, dup), NEW M
    PROVE  Sound(MergeWrites(M, keep, dup))
<1> DEFINE W == MergeWrites(M, keep, dup)
<1>1. \A x \in W : MergeResult(x, keep, dup)
  BY MergeParts, MergeResults DEF Two
<1>2. Once(W)
  BY MergeParts, MergeOnce DEF Once
<1>3. \A a, b \in rows : a.id = b.id => a = b
  BY DEF RowsOK, Valid
<1>4. \A x \in W : x.old.t = "family_children" /\ x.new # None => x.old \in About(rows, "family_children", dup)
  <2> SUFFICES ASSUME NEW x \in W, x.old.t = "family_children"
               PROVE  x.old \in About(rows, "family_children", dup)
    OBVIOUS
  <2>1. MergeOne(x, M, keep, dup)
    BY MergeParts
  <2>2. At(rows, keep).t = "persons" /\ At(rows, dup).t = "persons"
    BY TwoRows
  <2> QED BY <2>1, <2>2 DEF MergeOne, About, Of, FamiliesOf
<1> HIDE DEF W
<1>5. \A x, y \in W : x.new # None /\ x.new = y.new => x = y
  <2> SUFFICES ASSUME NEW x \in W, NEW y \in W, x.new # None, x.new = y.new PROVE x = y
    OBVIOUS
  <2>1. MergeResult(x, keep, dup) /\ MergeResult(y, keep, dup)
    BY <1>1
  <2>2. x.old \in rows /\ y.old \in rows /\ x.old.t = y.old.t
    BY <2>1 DEF MergeResult
  <2>3. x.old.id = y.old.id
    <3>1. CASE x.old.t # "family_children"
      BY <3>1, <2>1, <2>2 DEF MergeResult
    <3>2. CASE x.old.t = "family_children"
      <4>1. x.old.id = <<x.old.ref.family, x.old.ref.person>> /\ y.old.id = <<y.old.ref.family, y.old.ref.person>>
        BY <2>2, <3>2 DEF RowsOK, WellFormed
      <4>2. x.old.ref.person = dup /\ y.old.ref.person = dup
        BY <1>4, <2>2, <3>2 DEF About
      <4>3. <<x.old.ref.family, keep>> = <<y.old.ref.family, keep>>
        BY <2>1, <2>2, <3>2 DEF MergeResult
      <4> QED BY <4>1, <4>2, <4>3
    <3> QED BY <3>1, <3>2
  <2> QED BY <1>2, <1>3, <2>2, <2>3 DEF Once, RowsOK, WellFormed, NoRowIsNone
<1>6. \A x \in W : /\ x.old \in rows
                   /\ x.new # None => WellFormed(x.new) /\ SameRow(x.old, x.new)
                   /\ x.new = None => x.old.t # "person_mentions"
                   /\ x.logged = x.new
  BY <1>1, TwoRows DEF MergeResult, SameRow
<1>7. Sound(W)
  BY <1>2, <1>5, <1>6, ChangesSound
<1> QED BY <1>7 DEF W

\* What a merge deletes and something could refer to is dup, to which
\* nothing refers afterwards.
LEMMA MergeLeavesNone ==
    ASSUME NoRowIsNone, RowsOK, NEW keep, NEW dup, Two(keep, dup), NEW M, NEW W, W = MergeWrites(M, keep, dup)
    PROVE  \A r \in (rows \ Olds(W)) \cup News(W) : dup \notin Targets(r)
<1>1. \A x \in W : MergeResult(x, keep, dup)
  BY MergeParts, MergeResults DEF Two
<1>2. ASSUME NEW r \in rows \ Olds(W), dup \in Targets(r) PROVE FALSE
  <2>1. PICK x \in W : x.old = r
    BY <1>2, MergeReaches
  <2>2. r # None
    BY DEF RowsOK, WellFormed, NoRowIsNone
  <2> QED BY <2>1, <2>2, <1>2 DEF Olds
<1>3. ASSUME NEW r \in News(W), dup \in Targets(r) PROVE FALSE
  <2>1. PICK x \in W : x.new = r /\ r # None
    BY DEF News
  <2>2. \A c \in Columns : r.ref[c] # dup
    BY <1>1, <2>1 DEF MergeResult
  <2> QED BY <1>3, <2>2 DEF Targets
<1> QED BY <1>2, <1>3

LEMMA MergeNoCascade ==
    ASSUME NoRowIsNone, RowsOK, NEW keep, NEW dup, Two(keep, dup), NEW M, NEW W, W = MergeWrites(M, keep, dup)
    PROVE  NoCascade(rows, W)
<1>1. \A x \in W : MergeResult(x, keep, dup)
  BY MergeParts, MergeResults DEF Two
<1> SUFFICES ASSUME NEW r \in (rows \ Olds(W)) \cup News(W), r.t # "citations",
                    NEW z \in Targets(r), NEW y \in W, y.new = None, y.old.id = z
             PROVE  FALSE
  BY DEF NoCascade, Gone, Deletes
<1>2. y.old \in rows /\ (y.old = At(rows, dup) \/ y.old.t \in {"names", "family_children", "match_candidates"})
  BY <1>1 DEF MergeResult
<1>3. z # dup
  BY MergeLeavesNone
<1>4. y.old.t \in {"names", "family_children", "match_candidates"}
  BY <1>2, <1>3, TwoRows
<1>5. CASE r \in rows
  BY <1>2, <1>4, <1>5, Leaves
<1>6. CASE r \in News(W)
  <2>1. PICK x \in W : x.new = r /\ r # None
    BY <1>6 DEF News
  <2>2. PICK c \in Columns : r.ref[c] = z /\ z # None
    BY DEF Targets
  <2>3. x.old \in rows /\ x.old.t # "citations" /\ z \in {keep, x.old.ref[c]}
    BY <1>1, <2>1, <2>2 DEF MergeResult
  <2>4. CASE z = keep
    <3>1. y.old.id = At(rows, keep).id /\ At(rows, keep) \in rows /\ At(rows, keep).t = "persons"
      BY <2>4, TwoRows
    <3>2. y.old = At(rows, keep)
      BY <1>2, <3>1 DEF RowsOK, Valid
    <3> QED BY <1>4, <3>1, <3>2
  <2>5. CASE z = x.old.ref[c]
    <3>1. z \in Targets(x.old)
      BY <2>2, <2>5 DEF Targets
    <3> QED BY <1>2, <1>4, <2>3, <3>1, Leaves
  <2> QED BY <2>3, <2>4, <2>5
<1> QED BY <1>5, <1>6

LEMMA MergePersons ==
    ASSUME NoRowIsNone, RowsOK, NEW w, merge_persons(w)
    PROVE  Asked(w)
<1>1. PICK keep, dup \in Ids(Of(rows, "persons")) :
        /\ keep # dup
        /\ \E M \in MovedNames(keep, dup) : audited(w, "person_merge", MergeWrites(M, keep, dup))
  BY Zenon DEF merge_persons, MergeWrites
<1>2. PICK M \in MovedNames(keep, dup) : audited(w, "person_merge", MergeWrites(M, keep, dup))
  BY <1>1
<1>3. Two(keep, dup)
  BY <1>1 DEF Two
<1> DEFINE W == MergeWrites(M, keep, dup)
<1>4. Sound(W)
  BY <1>3, MergeSound
<1>5. NoCascade(rows, W)
  BY <1>3, MergeNoCascade
<1>6. IsMerge(W)
  BY <1>1, <1>2 DEF IsMerge
<1>7. audited(w, "person_merge", W)
  BY <1>2
<1> HIDE DEF W
<1>8. Planned("person_merge", W)
  BY <1>4, <1>5, <1>6, <1>7 DEF Planned, Actions, audited
<1> QED BY <1>7, <1>8 DEF Asked

-----------------------------------------------------------------------------
(***************************************************************************)
(* revert_change.  The log keeps, for each change, rows that its request   *)
(* read and rows it wrote, each in one image; nothing it deleted or        *)
(* changed referred to what it created.                                    *)
(***************************************************************************)
ImageOK(i) ==
    /\ i.before # None => WellFormed(i.before)
    /\ i.after # None => WellFormed(i.after)
    /\ i.before # None /\ i.after # None => SameRow(i.before, i.after)
    /\ i.before = None => i.after # None /\ i.after.t # "person_mentions"
    /\ i.after = None => i.before.t # "person_mentions"

ImagesOK(I) ==
    /\ I # {}
    /\ \A i \in I : ImageOK(i)
    /\ \A i, j \in I : i.before # None /\ j.before # None /\ i.before.id = j.before.id => i = j
    /\ \A i, j \in I : i.after # None /\ i.after = j.after => i = j
    /\ \A i, j \in I : i.before # None /\ j.before = None /\ i.before.t # "citations"
                          => j.after.id \notin Targets(i.before)

\* A citation that loses what is no more is still one.
LEMMA LivesWell ==
    ASSUME NEW r, NEW s, WellFormed(r)
    PROVE  WellFormed(Living(r, s)) /\ Living(r, s).id = r.id /\ Living(r, s).t = r.t
<1>1. IsRow(r)
  BY DEF WellFormed
<1>2. CASE r.t # "citations"
  BY <1>1, <1>2, Lives
<1>3. CASE r.t = "citations"
  <2> DEFINE f == Living(r, s)
  <2>1. IsRow(f) /\ f.t = r.t /\ f.id = r.id
    BY <1>1, Lives
  <2>2. \A c \in Columns : f.ref[c] \in {None, r.ref[c]}
    BY <1>1, Lives
  <2> HIDE DEF f
  <2>3. WellFormed(f)
    BY <1>3, <2>1, <2>2 DEF WellFormed
  <2> QED BY <2>1, <2>3 DEF f
<1> QED BY <1>2, <1>3

\* The row that a revert puts in the place of an image, and the write that
\* does so.
Former(i, s) == IF i.before # None /\ i.after = None THEN Living(i.before, s) ELSE i.before
Back(i, s) ==
    IF i.before = None THEN del(i.after)
    ELSE IF i.after = None THEN ins(Living(i.before, s)) ELSE upd(i.after, i.before)

LEMMA InverseIs ==
    ASSUME NEW c, ImagesOK(c.rows), NEW s, s = rows \cup Restored(c)
    PROVE  inverse(c) = {Back(i, s) : i \in c.rows}
<1> DEFINE g(i) == CASE i.before = None -> del(i.after)
                     [] i.after = None  -> ins(Living(i.before, s))
                     [] i.before # None /\ i.after # None -> upd(i.after, i.before)
<1>1. ASSUME NEW i \in c.rows PROVE g(i) = Back(i, s)
  <2>1. i.before = None => i.after # None
    BY DEF ImagesOK, ImageOK
  <2> QED BY <2>1 DEF Back
<1>2. inverse(c) = {g(i) : i \in c.rows}
  BY DEF inverse
<1> HIDE DEF g
<1> QED BY <1>1, <1>2

LEMMA BackIs ==
    ASSUME NEW i, NEW s, ImageOK(i)
    PROVE  /\ Back(i, s).old = i.after
           /\ Back(i, s).new = Former(i, s)
           /\ Back(i, s).logged = Former(i, s)
BY DEF Back, Former, ins, upd, del, ImageOK

LEMMA FormerIs ==
    ASSUME NoRowIsNone, NEW i, NEW s, ImageOK(i)
    PROVE  /\ i.before = None => Former(i, s) = None
           /\ i.before # None => /\ WellFormed(Former(i, s)) /\ Former(i, s) # None
                                 /\ Former(i, s).id = i.before.id /\ Former(i, s).t = i.before.t
                                 /\ i.before.t # "citations" => Former(i, s) = i.before
<1>1. CASE i.before = None
  BY <1>1 DEF Former
<1>2. CASE i.before # None /\ i.after # None
  BY <1>2 DEF Former, ImageOK
<1>3. CASE i.before # None /\ i.after = None
  <2> DEFINE f == Former(i, s)
  <2>1. f = Living(i.before, s) /\ WellFormed(i.before) /\ IsRow(i.before)
    BY <1>3 DEF Former, ImageOK, WellFormed
  <2>2. WellFormed(f) /\ f.id = i.before.id /\ f.t = i.before.t
    BY <2>1, LivesWell
  <2>3. i.before.t # "citations" => f = i.before
    BY <2>1, Lives
  <2> HIDE DEF f
  <2>4. f # None
    BY <2>2 DEF WellFormed, NoRowIsNone
  <2> QED BY <1>3, <2>2, <2>3, <2>4 DEF f
<1> QED BY <1>1, <1>2, <1>3

LEMMA RevertPlanned ==
    ASSUME NoRowIsNone, RowsOK, NEW c, ImagesOK(c.rows), Conflicts(c) = {}
    PROVE  Planned("revert", inverse(c))
<1> DEFINE I == c.rows
           W == inverse(c)
           s == rows \cup Restored(c)
<1>1. W = {Back(i, s) : i \in I}
  BY InverseIs
<1>2. \A i \in I : /\ Back(i, s).old = i.after /\ Back(i, s).new = Former(i, s)
                   /\ Back(i, s).logged = Former(i, s)
  BY BackIs DEF ImagesOK
<1>3. \A i \in I : i.after # None => i.after \in rows
  BY DEF Conflicts
<1>4. \A i \in I : i.after = None => i.before.id \notin Ids(rows)
  BY DEF Conflicts
<1>5. \A i \in I : i.before = None /\ i.after.t \in {"persons", "families"}
                     => Ids(Dependents(rows, i.after.id)) \subseteq Captured(c)
  BY DEF Conflicts, dependents_captured
<1>6. /\ \A i \in I : ImageOK(i)
      /\ \A i, j \in I : i.before # None /\ j.before # None /\ i.before.id = j.before.id => i = j
      /\ \A i, j \in I : i.after # None /\ i.after = j.after => i = j
      /\ \A i, j \in I : i.before # None /\ j.before = None /\ i.before.t # "citations"
                            => j.after.id \notin Targets(i.before)
      /\ I # {}
  BY DEF ImagesOK
<1>7. Captured(c) = {i.after.id : i \in {x \in I : x.after # None}}
                    \cup {i.before.id : i \in {x \in I : x.after = None}}
  BY DEF Captured
<1>8. \A i \in I : /\ i.before = None => Former(i, s) = None
                   /\ i.before # None => /\ WellFormed(Former(i, s)) /\ Former(i, s) # None
                                         /\ Former(i, s).id = i.before.id /\ Former(i, s).t = i.before.t
                                         /\ i.before.t # "citations" => Former(i, s) = i.before
  BY <1>6, FormerIs
<1> HIDE DEF I, W, s
<1>9. \A x \in W : \E i \in I : x = Back(i, s) /\ x.old = i.after /\ x.new = Former(i, s) /\ x.logged = Former(i, s)
  BY <1>1, <1>2
<1>10. Sound(W)
  <2>1. Typed(W)
    <3> SUFFICES ASSUME NEW x \in W PROVE TypedWrite(x)
      BY DEF Typed
    <3>1. PICK i \in I : x.old = i.after /\ x.new = Former(i, s) /\ x.logged = Former(i, s)
      BY <1>9
    <3>2. ImageOK(i)
      BY <1>6
    <3>3. CASE i.before = None
      BY <3>1, <3>2, <3>3, <1>8 DEF TypedWrite, ImageOK
    <3>4. CASE i.before # None
      BY <3>1, <3>2, <3>4, <1>8 DEF TypedWrite, ImageOK, SameRow
    <3> QED BY <3>3, <3>4
  <2>2. Once(W)
    <3> SUFFICES ASSUME NEW x \in W, NEW y \in W, x.old # None, x.old = y.old PROVE x = y
      BY DEF Once
    <3>1. PICK i \in I : x = Back(i, s) /\ x.old = i.after
      BY <1>9
    <3>2. PICK j \in I : y = Back(j, s) /\ y.old = j.after
      BY <1>9
    <3> QED BY <3>1, <3>2, <1>6
  <2>3. \A x, y \in W : x.logged # None /\ x.logged = y.logged => x = y
    <3> SUFFICES ASSUME NEW x \in W, NEW y \in W, x.logged # None, x.logged = y.logged PROVE x = y
      OBVIOUS
    <3>1. PICK i \in I : x = Back(i, s) /\ x.logged = Former(i, s)
      BY <1>9
    <3>2. PICK j \in I : y = Back(j, s) /\ y.logged = Former(j, s)
      BY <1>9
    <3>3. i.before # None /\ j.before # None /\ i.before.id = j.before.id
      BY <3>1, <3>2, <1>8
    <3> QED BY <3>1, <3>2, <3>3, <1>6
  <2>4. \A x \in W : x.old # None => x.old \in rows
    BY <1>3, <1>9
  <2>5. \A x, y \in W : x.old # None /\ y.old # None /\ x.old.id = y.old.id => x.old = y.old
    BY <2>4 DEF RowsOK, Valid
  <2>6. ASSUME NEW x \in W, NEW y \in W, x.old # None, y.old = None, x.old.t # "citations",
               y.logged.id \in Targets(x.old)
        PROVE  FALSE
    <3>1. PICK j \in I : j.after = None /\ y.logged = Former(j, s)
      BY <1>9, <2>6
    <3>2. j.before # None
      BY <3>1, <1>6 DEF ImageOK
    <3>3. y.logged.id \notin Ids(rows)
      BY <3>1, <3>2, <1>4, <1>8
    <3>4. PICK k \in Columns : x.old.ref[k] = y.logged.id /\ x.old.ref[k] # None
      BY <2>6 DEF Targets
    <3>5. x.old.ref[k] \in Ids(Of(rows, Refers[k]))
      BY <2>4, <2>6, <3>4 DEF RowsOK, Valid, Keyed
    <3> QED BY <3>3, <3>4, <3>5 DEF Ids, Of
  <2> QED BY <2>1, <2>2, <2>3, <2>4, <2>5, <2>6 DEF Sound, Proper
<1>11. NoCascade(rows, W)
  <2> SUFFICES ASSUME NEW r \in (rows \ Olds(W)) \cup News(W), r.t # "citations",
                      NEW z \in Targets(r), NEW y \in W, y.new = None, y.old.id = z
               PROVE  FALSE
    BY DEF NoCascade, Gone, Deletes
  <2>1. PICK j \in I : y.old = j.after /\ y.new = Former(j, s)
    BY <1>9
  <2>2. j.before = None /\ j.after # None /\ j.after.id = z /\ j.after \in rows
        /\ j.after.t # "person_mentions"
    BY <2>1, <1>3, <1>6, <1>8 DEF ImageOK
  <2>3. CASE r \in rows \ Olds(W) /\ j.after.t \notin {"persons", "families"}
    BY <2>2, <2>3, Leaves
  <2>4. CASE r \in rows \ Olds(W) /\ j.after.t \in {"persons", "families"}
    <3>1. r.id \in Captured(c)
      BY <2>2, <2>4, <1>5 DEF Dependents, Ids
    <3>2. PICK i \in I : \/ i.after # None /\ r.id = i.after.id
                         \/ i.after = None /\ r.id = i.before.id
      BY <3>1, <1>7
    <3>3. CASE i.after # None /\ r.id = i.after.id
      <4>1. i.after = r
        BY <3>3, <2>4, <1>3 DEF RowsOK, Valid
      <4>2. Back(i, s) \in W /\ Back(i, s).old = r
        BY <1>1, <1>2, <4>1
      <4> QED BY <2>4, <3>3, <4>1, <4>2 DEF Olds
    <3>4. CASE i.after = None /\ r.id = i.before.id
      BY <3>4, <2>4, <1>4 DEF Ids
    <3> QED BY <3>2, <3>3, <3>4
  <2>5. CASE r \in News(W)
    <3>1. PICK x \in W : x.new = r /\ r # None
      BY <2>5 DEF News
    <3>2. PICK i \in I : Former(i, s) = r
      BY <1>9, <3>1
    <3>3. i.before = r
      BY <3>1, <3>2, <1>8
    <3> QED BY <3>1, <3>3, <2>2, <1>6
  <2> QED BY <2>3, <2>4, <2>5
<1>12. W # {}
  BY <1>1, <1>6
<1>13. Planned("revert", W)
  BY <1>10, <1>11, <1>12 DEF Planned, Actions
<1> QED BY <1>13 DEF W

-----------------------------------------------------------------------------
(***************************************************************************)
(* The invariant.  What an open request decided is right for the rows it   *)
(* read; as long as nobody overtook it, these are the rows there are.      *)
(***************************************************************************)
IsEntry(e) == e = [action |-> e.action, rows |-> e.rows, reverts |-> e.reverts, reverted |-> e.reverted]

LogInv ==
    /\ \E S : log \in Seq(S)
    /\ Len(log) <= MaxChanges
    /\ \A n \in 1..Len(log) :
          /\ IsEntry(log[n])
          /\ log[n].action \in Actions
          /\ ImagesOK(log[n].rows)
          /\ log[n].reverts \in 0..(n - 1)
          /\ log[n].reverted \in BOOLEAN
          /\ log[n].reverted <=> \E m \in 1..Len(log) : log[m].reverts = n

Decided(q) ==
    /\ q.action \in Actions
    /\ q.writes # {}
    /\ Proper(q.writes)
    /\ q.action = "relative_add" => KeepsSlots(q.writes)
    /\ q.reverts \in 0..Len(log)

RequestOK(q) ==
    /\ Planned(q.action, q.writes)
    /\ q.reverts \in 0..Len(log)
    /\ q.reverts # 0 => /\ q.action = "revert"
                        /\ Conflicts(log[q.reverts]) = {}
                        /\ q.writes = inverse(log[q.reverts])

ReqInv ==
    /\ req = [w \in Writers |-> req[w]]
    /\ \A w \in Writers : \A q : q = req[w] /\ q # None =>
          Decided(q) /\ (w \notin overtaken => RequestOK(q))
    /\ overtaken \subseteq {w \in Writers : req[w] # None}

\* The tree before the last change and the tree after it differ by the rows
\* of its images and by what citations lost with the rows it deleted, as long
\* as what it wrote is still there.
Before(I) == {i.before : i \in I}
After(I)  == {i.after : i \in I}

Differ(s, e, s2) ==
    /\ s2 = {Kept(r, e) : r \in s \ Before(e.rows)} \cup (After(e.rows) \ {None})
    /\ \A i \in e.rows : i.before # None => i.before \in s
    /\ \A i \in e.rows : i.after # None /\ i.after.id \in Ids(s)
                           => i.before # None /\ i.before.id = i.after.id

LastInv ==
    prior # None =>
       /\ Valid(prior) /\ \A r \in prior : WellFormed(r)
       /\ \A e : log # <<>> /\ e = log[Len(log)] /\ e.action # "person_delete"
                    /\ (\A i \in e.rows : i.after # None => i.after \in rows)
                 => Differ(prior, e, rows)

TreeInv == RowsOK /\ LogInv /\ ReqInv /\ LastInv

\* What two requests wrote to one row leaves a well-formed row.
LEMMA OverlayOK ==
    ASSUME NEW w, NEW cur, WellFormed(w.old), WellFormed(w.new), WellFormed(cur),
           SameRow(w.old, w.new), cur.id = w.old.id
    PROVE  WellFormed(Overlay(w, cur))
<1> DEFINE o == Overlay(w, cur)
<1>1. cur.t = w.old.t /\ w.new.t = w.old.t
  BY OwnTable DEF SameRow
<1>2. /\ IsRow(o) /\ o.t = w.new.t /\ o.id = w.new.id
      /\ \A c \in Columns : o.ref[c] = IF w.new.ref[c] = w.old.ref[c] THEN cur.ref[c] ELSE w.new.ref[c]
  BY Overlaid DEF WellFormed
<1> HIDE DEF o
<1>3. \A c \in Columns : o.ref[c] # None => c \in Has[o.t]
  BY <1>1, <1>2 DEF WellFormed
<1>4. o.t \in DOMAIN Has /\ o.id \in Pool[o.t]
  BY <1>2 DEF WellFormed
<1>5. o.t = "family_children" => o.id = <<o.ref["family"], o.ref["person"]>>
  <2> SUFFICES ASSUME o.t = "family_children" PROVE o.id = <<o.ref["family"], o.ref["person"]>>
    OBVIOUS
  <2>1. /\ cur.id = <<cur.ref["family"], cur.ref["person"]>>
        /\ w.old.id = <<w.old.ref["family"], w.old.ref["person"]>>
        /\ w.new.id = <<w.new.ref["family"], w.new.ref["person"]>>
    BY <1>1, <1>2, ChildIs
  <2>2. cur.ref["family"] = w.old.ref["family"] /\ cur.ref["person"] = w.old.ref["person"]
    <3>1. <<cur.ref["family"], cur.ref["person"]>> = <<w.old.ref["family"], w.old.ref["person"]>>
      BY <2>1
    <3> QED BY <3>1
  <2>3. o.ref["family"] = w.new.ref["family"] /\ o.ref["person"] = w.new.ref["person"]
    BY <1>2, <2>2 DEF Columns
  <2> QED BY <1>2, <2>1, <2>3
<1>6. WellFormed(o)
  BY <1>2, <1>3, <1>4, <1>5 DEF WellFormed
<1> QED BY <1>6 DEF o

\* A row that stays when others go is still a row of its table.
LEMMA ForgetsWell ==
    ASSUME NEW s, \A x \in s : WellFormed(x), NEW ids, NEW gone, gone = ids \cup Ids(Belonging(s, ids)),
           NEW r \in s, r \notin Belonging(s, ids)
    PROVE  WellFormed(Forgetting(r, gone))
<1>1. WellFormed(r) /\ IsRow(r)
  BY DEF WellFormed
<1>2. CASE r.t = "family_children"
  <2>1. /\ r.id = <<r.ref["family"], r.ref["person"]>>
        /\ r.ref["family"] \in Families /\ r.ref["person"] \in People
        /\ r.ref["family"] # None /\ r.ref["person"] # None
    BY <1>1, <1>2, ChildIs
  <2>2. Targets(r) \cap ids = {}
    BY <1>2 DEF Belonging, Owned
  <2>3. r.ref["family"] \notin ids /\ r.ref["person"] \notin ids
    BY <2>1, <2>2 DEF Targets, Columns
  <2>4. \A x \in Belonging(s, ids) : x.id \notin Families /\ x.id \notin People
    <3> SUFFICES ASSUME NEW x \in Belonging(s, ids) PROVE x.id \notin Families /\ x.id \notin People
      OBVIOUS
    <3>1. WellFormed(x) /\ x.t \in Owned
      BY DEF Belonging
    <3>2. /\ x.t \in DOMAIN Pool /\ x.t # "families" /\ x.t # "persons" /\ x.id \in Pool[x.t]
          /\ "families" \in DOMAIN Pool /\ "persons" \in DOMAIN Pool
      BY <3>1, Pools DEF WellFormed, Owned, Has
    <3>3. Pool[x.t] \cap Pool["families"] = {} /\ Pool[x.t] \cap Pool["persons"] = {}
      BY <3>2, IdsAssumption
    <3> QED BY <3>2, <3>3, Pools
  <2>5. r.ref["family"] \notin gone /\ r.ref["person"] \notin gone
    BY <2>1, <2>3, <2>4 DEF Ids
  <2>6. \A c \in Columns : r.ref[c] # None => c \in {"family", "person"}
    BY <1>1, <1>2 DEF WellFormed, Has
  <2>7. Forgetting(r, gone) = r
    BY <1>1, <2>5, <2>6, NothingForgotten
  <2> QED BY <1>1, <2>7
<1>3. CASE r.t # "family_children"
  <2> DEFINE f == Forgetting(r, gone)
  <2>1. IsRow(f) /\ f.t = r.t /\ f.id = r.id
    BY <1>1, Forgot
  <2>2. \A c \in Columns : f.ref[c] \in {None, r.ref[c]}
    BY <1>1, Forgot
  <2> HIDE DEF f
  <2>3. WellFormed(f)
    BY <1>1, <1>3, <2>1, <2>2 DEF WellFormed
  <2> QED BY <2>3 DEF f
<1> QED BY <1>2, <1>3

\* A transaction that goes through leaves well-formed rows.
LEMMA AppliedWell ==
    ASSUME NoRowIsNone, RowsOK, NEW W, Proper(W), Applies(rows, W)
    PROVE  \A r \in Apply(rows, W) : WellFormed(r)
<1> DEFINE all == Flushed(rows, W)
           ids == Gone(W)
           gone == ids \cup Ids(Belonging(all, ids))
<1>1. \A w \in Updates(W) : WellFormed(Overlay(w, At(rows, w.old.id)))
  <2> SUFFICES ASSUME NEW w \in Updates(W) PROVE WellFormed(Overlay(w, At(rows, w.old.id)))
    OBVIOUS
  <2>1. WellFormed(w.old) /\ WellFormed(w.new) /\ SameRow(w.old, w.new)
    BY DEF Updates, Proper, Typed, TypedWrite
  <2>2. PICK cur \in rows : cur.id = w.old.id
    BY DEF Applies, Ids
  <2>3. At(rows, w.old.id) = cur
    BY <2>2, AtOnly DEF RowsOK, Valid
  <2> QED BY <2>1, <2>2, <2>3, OverlayOK DEF RowsOK
<1>2. \A r \in all : WellFormed(r)
  <2>1. \A w \in Inserts(W) : WellFormed(w.new)
    BY DEF Inserts, Proper, Typed, TypedWrite
  <2>2. \A r \in Changed(rows, W) : WellFormed(r)
    BY <1>1 DEF Changed
  <2> QED BY <2>1, <2>2 DEF RowsOK, Flushed
<1>3. Apply(rows, W) = Remove(all, ids)
  BY AppliedIs
<1> HIDE DEF all, ids
<1>4. Remove(all, ids) = {Forgetting(r, gone) : r \in {x \in all : x.id \notin ids /\ x \notin Belonging(all, ids)}}
  BY DEF Remove
<1>5. \A r \in all : r \notin Belonging(all, ids) => WellFormed(Forgetting(r, gone))
  BY <1>2, ForgetsWell
<1> HIDE DEF gone
<1> QED BY <1>3, <1>4, <1>5

\* The images of a request that was decided.
LEMMA CapturedOK ==
    ASSUME NoRowIsNone, NEW W, Proper(W), W # {}
    PROVE  ImagesOK(capture_changes(W))
<1> DEFINE I == capture_changes(W)
<1>1. \A i \in I : \E x \in W : i = [before |-> x.old, after |-> x.logged]
  BY DEF capture_changes
<1>2. I # {}
  BY DEF capture_changes
<1> HIDE DEF I
<1>3. \A x \in W : TypedWrite(x)
  BY DEF Proper, Typed
<1>4. ASSUME NEW x \in W PROVE ImageOK([before |-> x.old, after |-> x.logged])
  <2>1. TypedWrite(x)
    BY <1>3
  <2>2. CASE x.new = None
    BY <2>1, <2>2 DEF TypedWrite, ImageOK
  <2>3. CASE x.new # None
    <3>1. WellFormed(x.new) /\ WellFormed(x.logged) /\ x.logged.id = x.new.id
      BY <2>1, <2>3 DEF TypedWrite
    <3>2. x.logged.t = x.new.t /\ x.logged # None
      BY <3>1, OwnTable DEF WellFormed, NoRowIsNone
    <3> QED BY <2>1, <2>3, <3>1, <3>2 DEF TypedWrite, ImageOK, SameRow
  <2> QED BY <2>2, <2>3
<1>5. ASSUME NEW i \in I, NEW j \in I, i.before # None, j.before # None, i.before.id = j.before.id PROVE i = j
  <2>1. PICK x \in W : i = [before |-> x.old, after |-> x.logged]
    BY <1>1
  <2>2. PICK y \in W : j = [before |-> y.old, after |-> y.logged]
    BY <1>1
  <2> QED BY <1>5, <2>1, <2>2 DEF Proper, Once
<1>6. ASSUME NEW i \in I, NEW j \in I, i.after # None, i.after = j.after PROVE i = j
  <2>1. PICK x \in W : i = [before |-> x.old, after |-> x.logged]
    BY <1>1
  <2>2. PICK y \in W : j = [before |-> y.old, after |-> y.logged]
    BY <1>1
  <2> QED BY <1>6, <2>1, <2>2 DEF Proper
<1>7. ASSUME NEW i \in I, NEW j \in I, i.before # None, j.before = None, i.before.t # "citations"
      PROVE  j.after.id \notin Targets(i.before)
  <2>1. PICK x \in W : i = [before |-> x.old, after |-> x.logged]
    BY <1>1
  <2>2. PICK y \in W : j = [before |-> y.old, after |-> y.logged]
    BY <1>1
  <2> QED BY <1>7, <2>1, <2>2 DEF Proper
<1>8. \A i \in I : ImageOK(i)
  BY <1>1, <1>4
<1>9. ImagesOK(I)
  BY <1>2, <1>5, <1>6, <1>7, <1>8 DEF ImagesOK
<1> QED BY <1>9 DEF I

\* A change that is recorded marks the one it takes back and no other.
LEMMA LogGrows ==
    ASSUME LogInv, NEW n \in 0..Len(log), NEW e, log' = Append(mark_reverted(log, n), e)
    PROVE  /\ \E S : log' \in Seq(S)
           /\ Len(log') = Len(log) + 1
           /\ log'[Len(log) + 1] = e
           /\ \A m \in 1..Len(log) :
                 /\ IsEntry(log'[m])
                 /\ log'[m].action = log[m].action
                 /\ log'[m].rows = log[m].rows
                 /\ log'[m].reverts = log[m].reverts
                 /\ log'[m].reverted = (log[m].reverted \/ m = n)
<1>1. PICK S : log \in Seq(S)
  BY DEF LogInv
<1> DEFINE T == S \cup {[log[m] EXCEPT !.reverted = TRUE] : m \in 1..Len(log)} \cup {e}
           l == mark_reverted(log, n)
<1>2. Len(log) \in Nat /\ DOMAIN log = 1..Len(log)
  BY <1>1
<1>3. l = [m \in 1..Len(log) |-> IF m = n THEN [log[m] EXCEPT !.reverted = TRUE] ELSE log[m]]
  BY <1>2 DEF mark_reverted
<1>4. \A m \in 1..Len(log) : log[m] \in T /\ [log[m] EXCEPT !.reverted = TRUE] \in T
  <2>1. \A m \in 1..Len(log) : log[m] \in S
    BY <1>1
  <2> QED BY <2>1
<1>5. e \in T
  OBVIOUS
<1> HIDE DEF l, T
<1>6. l \in Seq(T) /\ Len(l) = Len(log)
  BY <1>2, <1>3, <1>4
<1>7. log' = Append(l, e)
  BY DEF l
<1>8. log' \in Seq(T) /\ Len(log') = Len(log) + 1 /\ log'[Len(log) + 1] = e
  BY <1>2, <1>5, <1>6, <1>7
<1>9. \A m \in 1..Len(log) : log'[m] = l[m]
  BY <1>2, <1>5, <1>6, <1>7
<1>10. ASSUME NEW m \in 1..Len(log)
       PROVE  /\ IsEntry(log'[m])
              /\ log'[m].action = log[m].action
              /\ log'[m].rows = log[m].rows
              /\ log'[m].reverts = log[m].reverts
              /\ log'[m].reverted = (log[m].reverted \/ m = n)
  <2>1. log'[m] = IF m = n THEN [log[m] EXCEPT !.reverted = TRUE] ELSE log[m]
    BY <1>3, <1>9
  <2>2. IsEntry(log[m]) /\ log[m].reverted \in BOOLEAN
    BY DEF LogInv
  <2> QED BY <2>1, <2>2 DEF IsEntry
<1> QED BY <1>8, <1>10

LEMMA LogStep ==
    ASSUME LogInv, NEW n \in 0..Len(log), NEW e, IsEntry(e), e.action \in Actions, ImagesOK(e.rows),
           e.reverts = n, e.reverted = FALSE, Len(log) < MaxChanges,
           log' = Append(mark_reverted(log, n), e)
    PROVE  LogInv'
<1>1. \E S : log' \in Seq(S)
  BY LogGrows
<1>2. Len(log') = Len(log) + 1 /\ log'[Len(log) + 1] = e /\ Len(log) \in Nat
  BY LogGrows DEF LogInv
<1>3. \A m \in 1..Len(log) :
         /\ IsEntry(log'[m])
         /\ log'[m].action = log[m].action
         /\ log'[m].rows = log[m].rows
         /\ log'[m].reverts = log[m].reverts
         /\ log'[m].reverted = (log[m].reverted \/ m = n)
  BY LogGrows
<1>4. Len(log') <= MaxChanges
  BY <1>2, BoundAssumption
<1>5. ASSUME NEW m \in 1..Len(log')
      PROVE  /\ IsEntry(log'[m])
             /\ log'[m].action \in Actions
             /\ ImagesOK(log'[m].rows)
             /\ log'[m].reverts \in 0..(m - 1)
             /\ log'[m].reverted \in BOOLEAN
  <2>1. CASE m = Len(log) + 1
    <3>1. log'[m] = e
      BY <1>2, <2>1
    <3>2. e.reverts \in 0..(m - 1)
      BY <1>2, <2>1
    <3>3. e.reverted \in BOOLEAN
      OBVIOUS
    <3> QED BY <3>1, <3>2, <3>3, Zenon
  <2>2. CASE m \in 1..Len(log)
    BY <1>3, <2>2 DEF LogInv
  <2> QED BY <1>2, <2>1, <2>2
<1>6. ASSUME NEW m \in 1..Len(log')
      PROVE  log'[m].reverted <=> \E k \in 1..Len(log') : log'[k].reverts = m
  <2>1. CASE m = Len(log) + 1
    BY <1>2, <1>5, <2>1
  <2>2. CASE m \in 1..Len(log)
    <3>1. log[m].reverted <=> \E k \in 1..Len(log) : log[k].reverts = m
      BY <2>2 DEF LogInv
    <3>2. (\E k \in 1..Len(log') : log'[k].reverts = m)
             <=> (\E k \in 1..Len(log) : log[k].reverts = m) \/ m = n
      BY <1>2, <1>3
    <3> QED BY <1>3, <2>2, <3>1, <3>2
  <2> QED BY <1>2, <2>1, <2>2
<1> QED BY <1>1, <1>4, <1>5, <1>6 DEF LogInv


\* What a transaction other than the deletion of a person does to the tree.
LEMMA Exactly ==
    ASSUME NoRowIsNone, RowsOK, NEW a, NEW W, Planned(a, W), a # "person_delete", Applies(rows, W)
    PROVE  /\ Apply(rows, W) = {Forgetting(r, Gone(W)) : r \in Replaced(rows, W)}
           /\ \A r \in Replaced(rows, W) : WellFormed(r) /\ r.id \notin Gone(W)
           /\ \A r \in Replaced(rows, W) : r.t # "citations" => Forgetting(r, Gone(W)) = r
<1>1. \A r \in rows : IsRow(r)
  BY DEF RowsOK, WellFormed
<1>2. \A x, y \in rows : x.id = y.id => x = y
  BY DEF RowsOK, Valid
<1>3. Typed(W) /\ Once(W) /\ (\A x \in W : x.old # None => x.old \in rows)
  BY DEF Planned, Sound, Proper
<1>4. NoCascade(rows, W)
  BY DEF Planned
<1>5. \A r \in Replaced(rows, W) : WellFormed(r)
  BY <1>3 DEF Replaced, News, Typed, TypedWrite, RowsOK
<1>6. ASSUME NEW r \in Replaced(rows, W), r.t # "citations" PROVE Forgetting(r, Gone(W)) = r
  <2>1. Targets(r) \cap Gone(W) = {}
    BY <1>4, <1>6 DEF NoCascade, Replaced
  <2>2. \A c \in Columns : r.ref[c] # None => r.ref[c] \notin Gone(W)
    BY <2>1 DEF Targets
  <2> QED BY <1>5, <2>2, NothingForgotten DEF WellFormed
<1> QED BY <1>1, <1>2, <1>3, <1>4, <1>5, <1>6, AppliedExactly

\* What a change deleted is what its entry of the log says it deleted.
LEMMA GoneIs ==
    ASSUME NoRowIsNone, NEW W, Proper(W), NEW e, e.rows = capture_changes(W)
    PROVE  Ids(Restored(e)) = Gone(W)
<1>1. \A x \in W : x.new = None <=> x.logged = None
  BY DEF Proper, Typed, TypedWrite, WellFormed, NoRowIsNone
<1>2. \A i \in e.rows : \E x \in W : i = [before |-> x.old, after |-> x.logged]
  BY DEF capture_changes
<1>3. \A x \in W : \E i \in e.rows : i.before = x.old /\ i.after = x.logged
  <2>1. \A x \in W : [before |-> x.old, after |-> x.logged] \in e.rows
    BY DEF capture_changes
  <2> QED BY <2>1
<1>4. \A z \in Ids(Restored(e)) : z \in Gone(W)
  <2> SUFFICES ASSUME NEW i \in e.rows, i.after = None PROVE i.before.id \in Gone(W)
    BY DEF Ids, Restored
  <2>1. PICK x \in W : i = [before |-> x.old, after |-> x.logged]
    BY <1>2
  <2> QED BY <1>1, <2>1 DEF Gone, Deletes
<1>5. \A z \in Gone(W) : z \in Ids(Restored(e))
  <2> SUFFICES ASSUME NEW x \in W, x.new = None PROVE x.old.id \in Ids(Restored(e))
    BY DEF Gone, Deletes
  <2>1. PICK i \in e.rows : i.before = x.old /\ i.after = x.logged
    BY <1>3
  <2> QED BY <1>1, <2>1 DEF Ids, Restored
<1> QED BY <1>4, <1>5

\* The last change keeps its images: LastInv after a commit.
LEMMA LastStep ==
    ASSUME NoRowIsNone, RowsOK, NEW a, NEW W, Planned(a, W), a # "person_delete", Applies(rows, W),
           NEW e, e.rows = capture_changes(W),
           \A i \in e.rows : i.after # None => i.after \in Apply(rows, W)
    PROVE  Differ(rows, e, Apply(rows, W))
<1> DEFINE I == e.rows
           g == Gone(W)
           R == Replaced(rows, W)
           s2 == Apply(rows, W)
<1>1. Proper(W) /\ Typed(W) /\ \A x \in W : x.old # None => x.old \in rows
  BY DEF Planned, Sound, Proper
<1>2. \A x \in W : \E i \in I : i.before = x.old /\ i.after = x.logged
  <2>1. \A x \in W : [before |-> x.old, after |-> x.logged] \in I
    BY DEF capture_changes
  <2> QED BY <2>1
<1>3. \A i \in I : \E x \in W : i.before = x.old /\ i.after = x.logged
  BY DEF capture_changes
<1>4. \A x, y \in s2 : x.id = y.id => x = y
  BY DEF Applies, Valid
<1>5. /\ s2 = {Forgetting(r, g) : r \in R}
      /\ \A r \in R : WellFormed(r)
      /\ \A r \in R : r.t # "citations" => Forgetting(r, g) = r
  BY Exactly
<1>6. Ids(Restored(e)) = g
  BY <1>1, GoneIs
<1>7. R = (rows \ Olds(W)) \cup News(W)
  BY DEF Replaced
<1>8. Olds(W) = Before(I) \ {None}
  BY <1>2, <1>3 DEF Olds, Before
<1>9. \A r \in rows : r # None
  BY DEF RowsOK, WellFormed, NoRowIsNone
<1>10. rows \ Olds(W) = rows \ Before(I)
  BY <1>8, <1>9
<1> HIDE DEF I, g, R, s2
<1>11. \A r \in rows \ Before(I) : Forgetting(r, g) = Kept(r, e)
  <2> SUFFICES ASSUME NEW r \in rows \ Before(I) PROVE Forgetting(r, g) = Kept(r, e)
    OBVIOUS
  <2>1. r \in R
    BY <1>7, <1>10
  <2>2. r \notin {i.before : i \in e.rows}
    BY DEF Before, I
  <2> QED BY <1>5, <1>6, <2>1, <2>2 DEF Kept
<1>12. ASSUME NEW x \in W, x.new # None
       PROVE  x.logged # None /\ Forgetting(x.new, g) = x.logged
  <2>1. x.logged # None /\ x.logged.id = x.new.id
    BY <1>1, <1>12 DEF Typed, TypedWrite, NoRowIsNone, WellFormed
  <2>2. x.logged \in s2
    BY <1>2, <2>1 DEF I, s2
  <2>3. x.new \in R
    BY <1>7, <1>12 DEF News
  <2>4. Forgetting(x.new, g) \in s2 /\ Forgetting(x.new, g).id = x.new.id
    BY <1>5, <2>3, Forgot DEF WellFormed
  <2> QED BY <1>4, <2>1, <2>2, <2>4
<1>13. \A x \in W : x.new = None => x.logged = None
  BY <1>1 DEF Typed, TypedWrite
<1>14. \A r \in R : Forgetting(r, g) \in {Kept(q, e) : q \in rows \ Before(I)} \cup (After(I) \ {None})
  <2> SUFFICES ASSUME NEW r \in R
               PROVE  Forgetting(r, g) \in {Kept(q, e) : q \in rows \ Before(I)} \cup (After(I) \ {None})
    OBVIOUS
  <2>1. CASE r \in rows \ Before(I)
    BY <2>1, <1>11
  <2>2. CASE r \in News(W)
    <3>1. PICK x \in W : x.new = r /\ r # None
      BY <2>2 DEF News
    <3>2. PICK i \in I : i.after = x.logged
      BY <1>2
    <3> QED BY <1>12, <3>1, <3>2 DEF After
  <2> QED BY <1>7, <1>10, <2>1, <2>2
<1>15. \A q \in rows \ Before(I) : Kept(q, e) \in s2
  BY <1>5, <1>7, <1>10, <1>11
<1>16. \A z \in After(I) \ {None} : z \in s2
  BY DEF After, I, s2
<1>17. s2 = {Kept(q, e) : q \in rows \ Before(I)} \cup (After(I) \ {None})
  BY <1>5, <1>14, <1>15, <1>16
<1>18. \A i \in I : i.before # None => i.before \in rows
  BY <1>1, <1>3
<1>19. ASSUME NEW i \in I, i.after # None, i.after.id \in Ids(rows)
       PROVE  i.before # None /\ i.before.id = i.after.id
  <2>1. PICK x \in W : i.before = x.old /\ i.after = x.logged
    BY <1>3
  <2>2. x.new # None /\ x.new.id = i.after.id
    BY <1>1, <1>13, <1>19, <2>1 DEF Typed, TypedWrite
  <2>3. x.old # None
    BY <1>19, <2>2 DEF Applies, Inserts
  <2>4. x \in Updates(W)
    BY <2>2, <2>3 DEF Updates
  <2>5. x.new.id = x.old.id
    BY <1>19, <2>2, <2>4 DEF Applies
  <2> QED BY <2>1, <2>2, <2>3, <2>5
<1> QED BY <1>17, <1>18, <1>19 DEF Differ, I, s2

\* A plan holds as long as the rows stay as they were.
LEMMA PlanStands ==
    ASSUME NEW a, NEW W, Planned(a, W), rows' = rows
    PROVE  Planned(a, W)'
<1>1. Sound(W)' /\ NoCascade(rows, W)' = NoCascade(rows, W)
  BY DEF Planned, Sound, Proper, Typed, Once, NoCascade
<1>2. IsMerge(W) => IsMerge(W)'
  <2>1. ASSUME NEW M, NEW keep, NEW dup PROVE MergeWrites(M, keep, dup)' = MergeWrites(M, keep, dup)
    <3>1. merge_names(M, keep, dup)' = merge_names(M, keep, dup)
      BY DEF merge_names
    <3>2. merge_anchored(keep, dup)' = merge_anchored(keep, dup)
      BY DEF merge_anchored
    <3>3. merge_children(keep, dup)' = merge_children(keep, dup)
      BY DEF merge_children
    <3>4. FamiliesOf(dup)' = FamiliesOf(dup)
      BY DEF FamiliesOf
    <3>5. merge_slots(keep, dup)' = merge_slots(keep, dup)
      BY <3>4 DEF merge_slots
    <3>6. merge_candidates(keep, dup)' = merge_candidates(keep, dup)
      BY DEF merge_candidates
    <3>7. merge_sex(keep, dup)' = merge_sex(keep, dup)
      BY DEF merge_sex
    <3> QED BY <3>1, <3>2, <3>3, <3>5, <3>6, <3>7, Zenon DEF MergeWrites
  <2>2. ASSUME NEW keep, NEW dup PROVE MovedNames(keep, dup)' = MovedNames(keep, dup)
    BY Zenon DEF MovedNames
  <2>3. Ids(Of(rows, "persons"))' = Ids(Of(rows, "persons"))
    BY Zenon
  <2> QED BY <2>1, <2>2, <2>3, Zenon DEF IsMerge
<1> QED BY <1>1, <1>2 DEF Planned, KeepsSlots

LEMMA RequestStands ==
    ASSUME NEW q, RequestOK(q), rows' = rows, log' = log
    PROVE  RequestOK(q)'
<1>1. Planned(q.action, q.writes)'
  BY PlanStands DEF RequestOK
<1>2. \A c : Conflicts(c) = {} => Conflicts(c)' = {}
  BY DEF Conflicts, dependents_captured
<1>3. \A c : inverse(c)' = inverse(c)
  BY DEF inverse
<1> QED BY <1>1, <1>2, <1>3 DEF RequestOK

LEMMA InvStart ==
    ASSUME NoRowIsNone, Init
    PROVE  TreeInv
<1>1. RowsOK
  BY RowsAssumption DEF Init, RowsOK
<1>2. LogInv
  <2>1. log = <<>> /\ log \in Seq({}) /\ Len(log) = 0
    BY DEF Init
  <2> QED BY <2>1, BoundAssumption DEF LogInv
<1>3. ReqInv
  BY DEF Init, ReqInv
<1>4. LastInv
  BY RowsAssumption DEF Init, LastInv
<1> QED BY <1>1, <1>2, <1>3, <1>4 DEF TreeInv

LEMMA OKIsDecided ==
    ASSUME NEW q, RequestOK(q)
    PROVE  Decided(q)
BY DEF RequestOK, Decided, Planned, Sound

\* A request that is opened, or closed without effect, leaves the tree and
\* its log alone.
LEMMA QuietStep ==
    ASSUME TreeInv, NEW w \in Writers, NEW q, req' = [req EXCEPT ![w] = q],
           q # None => RequestOK(q), UNCHANGED <<rows, log, prior>>,
           overtaken' \subseteq overtaken, overtaken \subseteq overtaken' \cup {w},
           w \in overtaken' => q # None
    PROVE  TreeInv'
<1>1. RowsOK' /\ LogInv' /\ LastInv'
  BY DEF TreeInv, RowsOK, LogInv, LastInv
<1>2. \A v \in Writers : req'[v] = IF v = w THEN q ELSE req[v]
  BY DEF TreeInv, ReqInv
<1>3. req' = [v \in Writers |-> req'[v]]
  BY DEF TreeInv, ReqInv
<1>4. \A x : Decided(x) => Decided(x)'
  BY DEF Decided, Proper, Typed, Once, KeepsSlots
<1>5. overtaken' \subseteq {v \in Writers : req'[v] # None}
  BY <1>2 DEF TreeInv, ReqInv
<1>6. ASSUME NEW v \in Writers, NEW x, x = req'[v], x # None
      PROVE  Decided(x)' /\ (v \notin overtaken' => RequestOK(x)')
  <2>1. CASE v = w
    <3>1. x = q /\ RequestOK(q)
      BY <1>2, <1>6, <2>1
    <3>2. Decided(q) /\ RequestOK(q)'
      BY <3>1, OKIsDecided, RequestStands
    <3> QED BY <1>4, <3>1, <3>2
  <2>2. CASE v # w
    <3>1. x = req[v] /\ (v \notin overtaken' => v \notin overtaken)
      BY <1>2, <1>6, <2>2
    <3>2. Decided(x) /\ (v \notin overtaken => RequestOK(x))
      BY <1>6, <3>1 DEF TreeInv, ReqInv
    <3>3. RequestOK(x) => RequestOK(x)'
      BY RequestStands
    <3> QED BY <1>4, <3>1, <3>2, <3>3
  <2> QED BY <2>1, <2>2
<1>7. ReqInv'
  BY <1>3, <1>5, <1>6 DEF ReqInv
<1> QED BY <1>1, <1>7 DEF TreeInv

LEMMA AskedStep ==
    ASSUME TreeInv, NEW w \in Writers, Asked(w)
    PROVE  TreeInv'
<1>1. PICK a, W : audited(w, a, W) /\ Planned(a, W)
  BY DEF Asked
<1> DEFINE q == [action |-> a, writes |-> W, reverts |-> 0]
<1>2. req' = [req EXCEPT ![w] = q] /\ UNCHANGED <<rows, log, overtaken, prior>> /\ req[w] = None
  BY <1>1 DEF audited
<1>3. Len(log) \in Nat
  BY DEF TreeInv, LogInv
<1>4. RequestOK(q)
  BY <1>1, <1>3 DEF RequestOK
<1>5. w \notin overtaken
  BY <1>2 DEF TreeInv, ReqInv
<1> HIDE DEF q
<1> QED BY <1>2, <1>4, <1>5, QuietStep

LEMMA RevertStep ==
    ASSUME NoRowIsNone, TreeInv, NEW w \in Writers, revert_change(w)
    PROVE  TreeInv'
<1>1. DOMAIN log = 1..Len(log) /\ Len(log) \in Nat
  BY DEF TreeInv, LogInv
<1>2. PICK n \in 1..Len(log) :
        /\ Conflicts(log[n]) = {} /\ req[w] = None
        /\ req' = [req EXCEPT ![w] = [action |-> "revert", writes |-> inverse(log[n]), reverts |-> n]]
        /\ UNCHANGED <<rows, log, overtaken, prior>>
  BY <1>1 DEF revert_change
<1> DEFINE q == [action |-> "revert", writes |-> inverse(log[n]), reverts |-> n]
<1>3. Planned("revert", inverse(log[n]))
  BY <1>2, RevertPlanned DEF TreeInv, LogInv
<1>4. RequestOK(q)
  BY <1>1, <1>2, <1>3 DEF RequestOK
<1>5. req' = [req EXCEPT ![w] = q]
  BY <1>2
<1>6. w \notin overtaken
  BY <1>2 DEF TreeInv, ReqInv
<1> HIDE DEF q
<1> QED BY <1>2, <1>4, <1>5, <1>6, QuietStep

LEMMA RollbackStep ==
    ASSUME TreeInv, NEW w \in Writers, rollback(w)
    PROVE  TreeInv'
<1>1. req' = [req EXCEPT ![w] = None] /\ overtaken' = overtaken \ {w} /\ UNCHANGED <<rows, log, prior>>
  BY DEF rollback
<1> QED BY <1>1, QuietStep

LEMMA CommitStep ==
    ASSUME NoRowIsNone, TreeInv, NEW w \in Writers, commit(w)
    PROVE  TreeInv'
<1> DEFINE q == req[w]
           W == q.writes
           e == [action |-> q.action, rows |-> capture_changes(W), reverts |-> q.reverts, reverted |-> FALSE]
<1>1. Decided(q) /\ (w \notin overtaken => RequestOK(q))
  BY DEF TreeInv, ReqInv, commit
<1>2. /\ Len(log) < MaxChanges /\ Applies(rows, W) /\ rows' = Apply(rows, W)
      /\ log' = Append(mark_reverted(log, q.reverts), e)
      /\ prior' = (IF w \in overtaken THEN None ELSE rows)
      /\ req' = [req EXCEPT ![w] = None]
      /\ overtaken' = {v \in Writers \ {w} : req[v] # None}
  BY DEF commit
<1>3. /\ RowsOK /\ LogInv /\ Proper(W) /\ W # {} /\ q.action \in Actions /\ q.reverts \in 0..Len(log)
  BY <1>1 DEF TreeInv, Decided
<1>4. w \notin overtaken => Planned(q.action, W)
  BY <1>1 DEF RequestOK
<1> HIDE DEF q, W
<1>5. RowsOK'
  <2>1. Valid(rows')
    BY <1>2 DEF Applies
  <2>2. \A r \in rows' : WellFormed(r)
    BY <1>2, <1>3, AppliedWell
  <2> QED BY <2>1, <2>2 DEF RowsOK
<1>6. IsEntry(e) /\ e.action = q.action /\ e.rows = capture_changes(W) /\ e.reverts = q.reverts /\ e.reverted = FALSE
  BY DEF IsEntry
<1>7. ImagesOK(e.rows)
  BY <1>3, <1>6, CapturedOK
<1> HIDE DEF e
<1>8. LogInv'
  BY <1>2, <1>3, <1>6, <1>7, LogStep
<1>9. log'[Len(log')] = e /\ Len(log') = Len(log) + 1 /\ Len(log) \in Nat
  <2>1. log'[Len(log) + 1] = e /\ Len(log') = Len(log) + 1 /\ Len(log) \in Nat
    <3>1. Len(log) \in Nat
      BY <1>3 DEF LogInv
    <3>2. log'[Len(log) + 1] = e /\ Len(log') = Len(log) + 1
      BY <1>2, <1>3, LogGrows
    <3> QED BY <3>1, <3>2
  <2> QED BY <2>1
<1>10. ReqInv'
  <2>1. req' = [v \in Writers |-> req'[v]] /\ \A v \in Writers : req'[v] = IF v = w THEN None ELSE req[v]
    BY <1>2 DEF TreeInv, ReqInv
  <2>2. overtaken' \subseteq {v \in Writers : req'[v] # None}
    BY <1>2, <2>1
  <2>3. ASSUME NEW v \in Writers, NEW x, x = req'[v], x # None
        PROVE  Decided(x)' /\ v \in overtaken'
    <3>1. v # w /\ x = req[v]
      BY <2>1, <2>3
    <3>2. Decided(x)
      BY <2>3, <3>1 DEF TreeInv, ReqInv
    <3>3. x.reverts \in 0..Len(log')
      BY <1>9, <3>2 DEF Decided
    <3>4. Decided(x)'
      BY <3>2, <3>3 DEF Decided, Proper, Typed, Once, KeepsSlots
    <3> QED BY <1>2, <2>3, <3>1, <3>4
  <2> QED BY <2>1, <2>2, <2>3 DEF ReqInv
<1>11. LastInv'
  <2>1. CASE w \in overtaken
    BY <1>2, <2>1 DEF LastInv
  <2>2. CASE w \notin overtaken
    <3>1. prior' = rows
      BY <1>2, <2>2
    <3>2. Valid(prior') /\ \A r \in prior' : WellFormed(r)
      BY <1>3, <3>1 DEF RowsOK
    <3>3. ASSUME e.action # "person_delete", \A i \in e.rows : i.after # None => i.after \in rows'
          PROVE  Differ(prior', e, rows')
      BY <1>2, <1>3, <1>4, <1>6, <2>2, <3>1, <3>3, LastStep
    <3> QED BY <1>9, <3>2, <3>3 DEF LastInv
  <2> QED BY <2>1, <2>2
<1> QED BY <1>5, <1>8, <1>10, <1>11 DEF TreeInv

LEMMA InvStep ==
    ASSUME NoRowIsNone, TreeInv, [Next]_vars
    PROVE  TreeInv'
<1>1. CASE UNCHANGED vars
  <2>1. RowsOK' /\ LogInv' /\ LastInv'
    BY <1>1 DEF vars, TreeInv, RowsOK, LogInv, LastInv
  <2>2. /\ req' = [v \in Writers |-> req'[v]]
        /\ overtaken' \subseteq {v \in Writers : req'[v] # None}
    BY <1>1 DEF vars, TreeInv, ReqInv
  <2>3. ASSUME NEW v \in Writers, NEW x, x = req'[v], x # None
        PROVE  Decided(x)' /\ (v \notin overtaken' => RequestOK(x)')
    <3>1. Decided(x) /\ (v \notin overtaken' => RequestOK(x))
      BY <1>1, <2>3 DEF vars, TreeInv, ReqInv
    <3>2. Decided(x)'
      BY <1>1, <3>1 DEF vars, Decided, Proper, Typed, Once, KeepsSlots
    <3> QED BY <1>1, <3>1, <3>2, RequestStands DEF vars
  <2>4. ReqInv'
    BY <2>2, <2>3 DEF ReqInv
  <2> QED BY <2>1, <2>4 DEF TreeInv
<1>2. CASE Next
  <2>1. PICK w \in Writers : Step(w)
    BY <1>2 DEF Next
  <2>2. RowsOK
    BY DEF TreeInv
  <2>3. CASE revert_change(w)
    BY <2>3, RevertStep
  <2>4. CASE commit(w)
    BY <2>4, CommitStep
  <2>5. CASE rollback(w)
    BY <2>5, RollbackStep
  <2>6. CASE ~(revert_change(w) \/ commit(w) \/ rollback(w))
    <3>1. Asked(w)
      BY <2>1, <2>2, <2>6, CreatePerson, SimpleEdits, LinkRelative, UnlinkRelative, MergePersons, DeletePerson
         DEF Step
    <3> QED BY <3>1, AskedStep
  <2> QED BY <2>3, <2>4, <2>5, <2>6
<1> QED BY <1>1, <1>2

-----------------------------------------------------------------------------
(***************************************************************************)
(* The theorems.                                                           *)
(***************************************************************************)

\* Every reachable tree satisfies its keys, every request and entry of the
\* log is well formed, and a change is marked reverted exactly when a later
\* entry reverts it (audited and revert_change, audit.py 173-189, 231-315).
THEOREM TreeIsTyped == ASSUME NoRowIsNone PROVE Spec => []TypeOK
<1>1. Init => TreeInv
  BY InvStart
<1>2. TreeInv /\ [Next]_vars => TreeInv'
  BY InvStep
<1>3. TreeInv => TypeOK
  <2> SUFFICES ASSUME TreeInv PROVE TypeOK
    OBVIOUS
  <2>1. DOMAIN log = 1..Len(log)
    BY DEF TreeInv, LogInv
  <2>2. \A n \in DOMAIN log :
          /\ log[n].action \in Actions
          /\ log[n].rows # {}
          /\ log[n].reverts \in 0..(n - 1)
    BY <2>1 DEF TreeInv, LogInv, ImagesOK
  <2>3. \A n \in DOMAIN log : log[n].reverted <=> \E m \in DOMAIN log : log[m].reverts = n
    BY <2>1 DEF TreeInv, LogInv
  <2>4. \A w \in Writers : req[w] # None => req[w].action \in Actions /\ req[w].writes # {}
    BY DEF TreeInv, ReqInv, Decided
  <2>5. Valid(rows) /\ (\A r \in rows : WellFormed(r)) /\ Len(log) <= MaxChanges
    BY DEF TreeInv, RowsOK, LogInv
  <2>6. overtaken \subseteq {w \in Writers : req[w] # None}
    BY DEF TreeInv, ReqInv
  <2> QED BY <2>2, <2>3, <2>4, <2>5, <2>6 DEF TypeOK
<1> QED BY <1>1, <1>2, <1>3, PTL DEF Spec

\* What a commit that nobody overtook finds: a plan for the rows as they are.
LEMMA CommitFinds ==
    ASSUME TreeInv, NEW w \in Writers, lands(w)
    PROVE  /\ RowsOK
           /\ RequestOK(req[w])
           /\ Planned(req[w].action, req[w].writes)
           /\ Applies(rows, req[w].writes)
           /\ rows' = Apply(rows, req[w].writes)
BY DEF TreeInv, ReqInv, RequestOK, commit, lands

\* Where all references that are left are to rows there are, what citations
\* lost are the references to what is no more.
LEMMA LossIsLife ==
    ASSUME NEW R, \A r \in R : IsRow(r), NEW g, NEW s2, s2 = {Forgetting(r, g) : r \in R}, Valid(s2),
           \A r \in R : r.id \notin g,
           \A r \in R : r.t # "citations" => Forgetting(r, g) = r
    PROVE  \A r \in R : Forgetting(r, g) = Living(r, s2)
<1> SUFFICES ASSUME NEW r \in R PROVE Forgetting(r, g) = Living(r, s2)
  OBVIOUS
<1>1. IsRow(r)
  OBVIOUS
<1>2. CASE r.t # "citations"
  BY <1>1, <1>2, Lives
<1>3. CASE r.t = "citations"
  <2>1. ASSUME NEW z \in Ids(s2) PROVE z \notin g
    <3>1. PICK q \in R : z = Forgetting(q, g).id
      BY <2>1 DEF Ids
    <3> QED BY <3>1, Forgot
  <2>2. \A c \in Columns : Forgetting(r, g).ref[c] =
            IF Keyed(r, c) /\ r.ref[c] \in g THEN None ELSE r.ref[c]
    BY <1>1, Forgot
  <2>3. \A c \in Columns : Living(r, s2).ref[c] =
            IF Keyed(r, c) /\ r.ref[c] \notin Ids(Of(s2, Refers[c])) THEN None ELSE r.ref[c]
    BY <1>1, <1>3, Lives
  <2>4. ASSUME NEW c \in Columns PROVE Forgetting(r, g).ref[c] = Living(r, s2).ref[c]
    <3>1. CASE ~Keyed(r, c)
      BY <2>2, <2>3, <3>1
    <3>2. CASE Keyed(r, c) /\ r.ref[c] \in g
      <4>1. r.ref[c] \notin Ids(Of(s2, Refers[c]))
        BY <2>1, <3>2 DEF Ids, Of
      <4> QED BY <2>2, <2>3, <3>2, <4>1
    <3>3. CASE Keyed(r, c) /\ r.ref[c] \notin g
      <4> DEFINE f == Forgetting(r, g)
      <4>1. f \in s2 /\ f.ref[c] = r.ref[c] /\ f.t = r.t
        BY <1>1, <2>2, <3>3, Forgot
      <4> HIDE DEF f
      <4>2. Keyed(f, c)
        BY <3>3, <4>1 DEF Keyed
      <4>3. r.ref[c] # None => r.ref[c] \in Ids(Of(s2, Refers[c]))
        BY <4>1, <4>2 DEF Valid
      <4>4. f.ref[c] = Living(r, s2).ref[c]
        BY <2>3, <3>3, <4>1, <4>3
      <4> QED BY <4>4 DEF f
    <3> QED BY <3>1, <3>2, <3>3
  <2> QED BY <1>1, <2>4, Forgot, Lives, RowsEqual
<1> QED BY <1>2, <1>3

\* A citation that is put back and loses what is no more has lost what is no
\* more afterwards, if it had lost nothing else.
LEMMA LivesOn ==
    ASSUME NEW r, IsRow(r), NEW s, NEW s2,
           \A c \in Columns : Ids(Of(s2, Refers[c])) \subseteq Ids(Of(s, Refers[c]))
    PROVE  Living(Living(r, s), s2) = Living(r, s2)
<1> DEFINE q == Living(r, s)
<1>1. /\ IsRow(q) /\ q.t = r.t /\ q.id = r.id /\ q.data = r.data /\ q.primary = r.primary
      /\ \A c \in Columns : q.ref[c] =
            IF r.t = "citations" /\ Keyed(r, c) /\ r.ref[c] \notin Ids(Of(s, Refers[c]))
            THEN None ELSE r.ref[c]
  BY Lives
<1> HIDE DEF q
<1>2. \A c \in Columns : Keyed(q, c) <=> Keyed(r, c)
  BY <1>1 DEF Keyed
<1>3. \A c \in Columns : Living(q, s2).ref[c] =
         IF q.t = "citations" /\ Keyed(q, c) /\ q.ref[c] \notin Ids(Of(s2, Refers[c])) THEN None ELSE q.ref[c]
  BY <1>1, Lives
<1>4. \A c \in Columns : Living(r, s2).ref[c] =
         IF r.t = "citations" /\ Keyed(r, c) /\ r.ref[c] \notin Ids(Of(s2, Refers[c])) THEN None ELSE r.ref[c]
  BY Lives
<1>5. \A c \in Columns : Living(q, s2).ref[c] = Living(r, s2).ref[c]
  BY <1>1, <1>2, <1>3, <1>4
<1>6. Living(q, s2) = Living(r, s2)
  BY <1>1, <1>5, Lives, RowsEqual
<1> QED BY <1>6 DEF q

\* A revert takes out what the change wrote and puts back what it replaced,
\* but for what citations cited and is no more.
LEMMA RevertsExactly ==
    ASSUME NoRowIsNone, TreeInv, NEW w \in Writers, NEW n \in DOMAIN log, reverts(w, n),
           NEW I, I = log[n].rows
    PROVE  /\ rows' = {Living(r, rows') : r \in (rows \ After(I)) \cup (Before(I) \ {None})}
           /\ \A i \in I : i.after # None => i.after \in rows
           /\ Valid(rows') /\ \A i \in I : ImageOK(i)
<1>1. n \in 1..Len(log) /\ n # 0 /\ req[w].reverts = n /\ lands(w) /\ ImagesOK(I)
  BY DEF TreeInv, LogInv, reverts
<1> DEFINE W == inverse(log[n])
           s == rows \cup Restored(log[n])
<1>2. RowsOK /\ Planned("revert", W) /\ Applies(rows, W) /\ rows' = Apply(rows, W) /\ Conflicts(log[n]) = {}
  BY <1>1, CommitFinds DEF RequestOK
<1>3. W = {Back(i, s) : i \in I}
  BY <1>1, InverseIs
<1>4. \A i \in I : Back(i, s).old = i.after /\ Back(i, s).new = Former(i, s)
  BY <1>1, BackIs DEF ImagesOK
<1>5. \A i \in I : /\ i.before = None => Former(i, s) = None
                   /\ i.before # None => Former(i, s) # None
  BY <1>1, FormerIs DEF ImagesOK
<1>6. \A i \in I : i.after # None => i.after \in rows
  BY <1>2 DEF Conflicts
<1> DEFINE g == Gone(W)
           R == Replaced(rows, W)
<1>7. /\ rows' = {Forgetting(r, g) : r \in R}
      /\ \A r \in R : WellFormed(r) /\ r.id \notin g
      /\ \A r \in R : r.t # "citations" => Forgetting(r, g) = r
  BY <1>2, Exactly
<1>8. Valid(rows')
  BY <1>2 DEF Applies
<1>9. R = (rows \ After(I)) \cup {Former(i, s) : i \in {x \in I : x.before # None}}
  <2>1. \A x \in W : \E i \in I : x.old = i.after /\ x.new = Former(i, s)
    BY <1>3, <1>4
  <2>2. \A i \in I : \E x \in W : x.old = i.after /\ x.new = Former(i, s)
    BY <1>3, <1>4
  <2> HIDE DEF W, s
  <2>3. Olds(W) = After(I) \ {None}
    BY <2>1, <2>2 DEF Olds, After
  <2>4. \A z \in News(W) : \E i \in I : i.before # None /\ z = Former(i, s)
    BY <2>1, <1>5 DEF News
  <2>5. \A i \in I : i.before # None => Former(i, s) \in News(W)
    BY <2>2, <1>5 DEF News
  <2>6. None \notin rows
    BY <1>2 DEF RowsOK, WellFormed, NoRowIsNone
  <2> QED BY <2>3, <2>4, <2>5, <2>6 DEF Replaced
<1> HIDE DEF W, g, R
<1>10. \A r \in R : Forgetting(r, g) = Living(r, rows')
  BY <1>7, <1>8, LossIsLife DEF WellFormed
<1>11. ASSUME NEW c \in Columns PROVE Ids(Of(rows', Refers[c])) \subseteq Ids(Of(s, Refers[c]))
  <2> SUFFICES ASSUME NEW r \in R, Forgetting(r, g).t = Refers[c]
               PROVE  Forgetting(r, g).id \in Ids(Of(s, Refers[c]))
    BY <1>7 DEF Ids, Of
  <2>1. r.t = Refers[c] /\ Forgetting(r, g).id = r.id
    BY <1>7, Forgot DEF WellFormed
  <2>2. r.t # "family_children"
    BY <2>1 DEF Refers, Columns
  <2>3. \A q \in s : q.t = Refers[c] => q.id \in Ids(Of(s, Refers[c]))
    BY DEF Ids, Of
  <2>4. CASE r \in rows
    BY <2>1, <2>3, <2>4
  <2>5. CASE r \notin rows
    <3>1. PICK i \in I : i.before # None /\ r = Former(i, s)
      BY <1>9, <2>5
    <3>2. ImageOK(i)
      BY <1>1 DEF ImagesOK
    <3>3. r.id = i.before.id /\ r.t = i.before.t
      BY <3>1, <3>2, FormerIs
    <3>4. CASE i.after = None
      <4>1. i.before \in s
        BY <3>1, <3>4 DEF Restored
      <4> QED BY <2>1, <2>3, <3>3, <4>1
    <3>5. CASE i.after # None
      <4>1. i.after \in s /\ i.after.t = r.t /\ i.after.id = r.id
        BY <1>6, <2>2, <3>1, <3>2, <3>3, <3>5 DEF ImageOK, SameRow
      <4> QED BY <2>1, <2>3, <4>1
    <3> QED BY <3>4, <3>5
  <2> QED BY <2>4, <2>5
<1>12. ASSUME NEW i \in I, i.before # None
       PROVE  Living(Former(i, s), rows') = Living(i.before, rows')
  <2>1. IsRow(i.before)
    BY <1>1, <1>12 DEF ImagesOK, ImageOK, WellFormed
  <2>2. CASE i.after = None
    <3>1. Living(Living(i.before, s), rows') = Living(i.before, rows')
      BY <1>11, <2>1, LivesOn
    <3> QED BY <1>12, <2>2, <3>1 DEF Former
  <2>3. CASE i.after # None
    BY <2>3 DEF Former
  <2> QED BY <2>2, <2>3
<1> HIDE DEF s
<1> DEFINE B == (rows \ After(I)) \cup (Before(I) \ {None})
<1>13. /\ \A z \in rows' : \E r \in R : z = Living(r, rows')
       /\ \A r \in R : Living(r, rows') \in rows'
  <2>1. ASSUME NEW z \in rows' PROVE \E r \in R : z = Forgetting(r, g)
    BY <1>7
  <2>2. ASSUME NEW r \in R PROVE Forgetting(r, g) \in rows'
    BY <1>7
  <2> QED BY <1>10, <2>1, <2>2
<1>14. ASSUME NEW r \in R PROVE \E q \in B : Living(r, rows') = Living(q, rows')
  <2>1. CASE r \in rows \ After(I)
    BY <2>1
  <2>2. CASE \E i \in I : i.before # None /\ r = Former(i, s)
    <3>1. PICK i \in I : i.before # None /\ r = Former(i, s)
      BY <2>2
    <3>2. i.before \in B
      BY <3>1 DEF Before
    <3> QED BY <1>12, <3>1, <3>2
  <2> QED BY <1>9, <2>1, <2>2
<1>15. ASSUME NEW q \in B PROVE \E r \in R : Living(r, rows') = Living(q, rows')
  <2>1. CASE q \in rows \ After(I)
    BY <1>9, <2>1
  <2>2. CASE q \in Before(I) /\ q # None
    <3>1. PICK i \in I : i.before = q
      BY <2>2 DEF Before
    <3>2. Former(i, s) \in R
      BY <1>9, <2>2, <3>1
    <3> QED BY <1>12, <2>2, <3>1, <3>2
  <2> QED BY <2>1, <2>2
<1> HIDE DEF B
<1>16. rows' = {Living(r, rows') : r \in B}
  <2>1. \A z \in rows' : \E q \in B : z = Living(q, rows')
    BY <1>13, <1>14
  <2>2. \A q \in B : Living(q, rows') \in rows'
    BY <1>13, <1>15
  <2> QED BY <2>1, <2>2
<1>17. \A i \in I : ImageOK(i)
  BY <1>1 DEF ImagesOK
<1> QED BY <1>6, <1>8, <1>16, <1>17 DEF B

\* A revert that goes through changes the captured rows back and nothing
\* else, whatever the tree and however often changes were reverted before,
\* but that citations lose what they cited and is no more (revert_change,
\* audit.py 231-315).
THEOREM RevertsAreInverse == ASSUME NoRowIsNone PROVE Spec => RevertIsInverse
<1>1. Init => TreeInv
  BY InvStart
<1>2. TreeInv /\ [Next]_vars => TreeInv'
  BY InvStep
<1>3. TreeInv => \A w \in Writers, n \in DOMAIN log : reverts(w, n) =>
         rows' = {Living(r, rows') : r \in (rows \ {i.after : i \in log[n].rows})
                                           \cup ({i.before : i \in log[n].rows} \ {None})}
  BY RevertsExactly DEF Before, After
<1> QED BY <1>1, <1>2, <1>3, PTL DEF Spec, RevertIsInverse

\* What taking back the last change gives, from what the change did.
TakenBack(s1, e, s2) ==
    s2 = {Living(r, s2) : r \in (s1 \ After(e.rows)) \cup (Before(e.rows) \ {None})}
LEMMA BackAgain ==
    ASSUME NoRowIsNone, NEW s, Valid(s), \A r \in s : WellFormed(r), NEW e, NEW s1, Differ(s, e, s1),
           \A i \in e.rows : ImageOK(i), NEW s2, TakenBack(s1, e, s2)
    PROVE  s2 = {Kept(r, e) : r \in s}
<1> DEFINE I == e.rows
           K == {Kept(r, e) : r \in s}
           g == Ids(Restored(e))
<1>1. ASSUME NEW r \in s
      PROVE  /\ IsRow(Kept(r, e)) /\ Kept(r, e).id = r.id /\ Kept(r, e).t = r.t
             /\ \A c \in Columns : Kept(r, e).ref[c] \in {None, r.ref[c]}
             /\ r \in Before(I) => Kept(r, e) = r
  BY <1>1, Forgot DEF Kept, Before, WellFormed
<1>2. \A r \in s : r # None
  BY DEF WellFormed, NoRowIsNone
<1>3. \A i \in I : i.before # None => i.before \in s
  BY DEF Differ
<1>4. (s1 \ After(I)) \cup (Before(I) \ {None}) = K
  <2>1. s1 = {Kept(r, e) : r \in s \ Before(I)} \cup (After(I) \ {None})
    BY DEF Differ
  <2>2. ASSUME NEW r \in s \ Before(I), Kept(r, e) \in After(I) PROVE FALSE
    <3>1. PICK i \in I : i.after = Kept(r, e)
      BY <2>2 DEF After
    <3>2. i.after # None
      BY <1>1, <3>1 DEF NoRowIsNone
    <3>3. i.after.id = r.id
      BY <1>1, <3>1
    <3>4. i.after.id \in Ids(s)
      BY <3>3 DEF Ids
    <3>5. i.before # None /\ i.before.id = r.id
      BY <3>2, <3>3, <3>4 DEF Differ
    <3>6. i.before = r
      BY <1>3, <3>5 DEF Valid
    <3> QED BY <2>2, <3>6 DEF Before
  <2>3. \A r \in s \ Before(I) : Kept(r, e) \in s1 \ After(I)
    BY <2>1, <2>2
  <2>4. \A z \in Before(I) \ {None} : z \in s /\ Kept(z, e) = z
    BY <1>1, <1>3 DEF Before
  <2>5. \A z \in s1 \ After(I) : z \in K
    BY <2>1
  <2>6. \A r \in s : r \in Before(I) => Kept(r, e) \in Before(I) \ {None}
    BY <1>1, <1>2
  <2>7. \A z \in K : z \in (s1 \ After(I)) \cup (Before(I) \ {None})
    BY <2>3, <2>6
  <2> HIDE DEF I
  <2>8. \A z \in Before(I) \ {None} : z \in K
    BY <2>4
  <2> HIDE DEF K
  <2> QED BY <2>5, <2>7, <2>8
<1>5. s2 = {Living(k, s2) : k \in K}
  BY <1>4 DEF TakenBack
<1> HIDE DEF K
<1>6. \A t : Ids(Of(s, t)) \subseteq Ids(Of(s2, t))
  <2> SUFFICES ASSUME NEW r \in s PROVE \E q \in s2 : q.t = r.t /\ q.id = r.id
    BY DEF Ids, Of
  <2>1. Kept(r, e) \in K /\ IsRow(Kept(r, e)) /\ Kept(r, e).id = r.id /\ Kept(r, e).t = r.t
    BY <1>1 DEF K
  <2>2. Living(Kept(r, e), s2) \in s2
    BY <1>5, <2>1
  <2> QED BY <2>1, <2>2, Lives
<1>7. ASSUME NEW k \in K PROVE Living(k, s2) = k
  <2>1. PICK r \in s : k = Kept(r, e)
    BY DEF K
  <2>2. IsRow(k) /\ k.t = r.t /\ \A c \in Columns : k.ref[c] \in {None, r.ref[c]}
    BY <1>1, <2>1
  <2>3. ASSUME NEW c \in Columns, k.t = "citations", Keyed(k, c), k.ref[c] # None
        PROVE  k.ref[c] \in Ids(Of(s2, Refers[c]))
    <3>1. Keyed(r, c) /\ r.ref[c] = k.ref[c] /\ r.ref[c] # None
      BY <2>2, <2>3 DEF Keyed
    <3>2. r.ref[c] \in Ids(Of(s, Refers[c]))
      BY <3>1 DEF Valid
    <3> QED BY <1>6, <3>1, <3>2
  <2> QED BY <2>2, <2>3, AllLive
<1>8. s2 = K
  BY <1>5, <1>7
<1> QED BY <1>8 DEF K

\* Reverting the last change brings back the tree before it, for every
\* change but the deletion of a person, and but for what citations that the
\* change did not record lost with the rows it deleted (audit.py 5-7;
\* revert_change; citation.py 29-42).
THEOREM UndoesTheLast == ASSUME NoRowIsNone PROVE Spec => UndoRestores
<1>1. Init => TreeInv
  BY InvStart
<1>2. TreeInv /\ [Next]_vars => TreeInv'
  BY InvStep
<1>3. TreeInv => \A w \in Writers, n \in DOMAIN log :
         reverts(w, n) /\ n = Len(log) /\ log[n].action # "person_delete" /\ prior # None
           => rows' = {Kept(r, log[n]) : r \in prior}
  <2> SUFFICES ASSUME TreeInv, NEW w \in Writers, NEW n \in DOMAIN log, reverts(w, n), n = Len(log),
                      log[n].action # "person_delete", prior # None
               PROVE  rows' = {Kept(r, log[n]) : r \in prior}
    OBVIOUS
  <2> DEFINE e == log[n]
  <2>1. /\ rows' = {Living(r, rows') : r \in (rows \ After(e.rows)) \cup (Before(e.rows) \ {None})}
        /\ \A i \in e.rows : i.after # None => i.after \in rows
        /\ \A i \in e.rows : ImageOK(i)
    BY RevertsExactly
  <2>2. log # <<>> /\ e = log[Len(log)]
    BY DEF TreeInv, LogInv
  <2>3. e.action # "person_delete"
    OBVIOUS
  <2> HIDE DEF e
  <2>4. Differ(prior, e, rows) /\ Valid(prior) /\ \A r \in prior : WellFormed(r)
    BY <2>1, <2>2, <2>3 DEF TreeInv, LastInv
  <2>5. TakenBack(rows, e, rows')
    BY <2>1, Zenon DEF TakenBack
  <2>6. rows' = {Kept(r, e) : r \in prior}
    BY <2>1, <2>4, <2>5, BackAgain
  <2> QED BY <2>6 DEF e
<1> QED BY <1>1, <1>2, <1>3, PTL DEF Spec, UndoRestores

\* Without deletions a transaction leaves what it flushed.
LEMMA NothingGone ==
    ASSUME NEW s, NEW W, \A r \in Flushed(s, W) : IsRow(r), \A x \in W : x.new # None
    PROVE  Apply(s, W) = Flushed(s, W)
<1> DEFINE all == Flushed(s, W)
<1>1. Gone(W) = {}
  BY DEF Gone, Deletes
<1>2. Apply(s, W) = Remove(all, {})
  BY <1>1, AppliedIs
<1>3. \A r \in all : Forgetting(r, {}) = r
  BY NothingForgotten
<1> HIDE DEF all
<1>4. \A x \in Belonging(all, {}) : x.id \in {}
  BY DEF Belonging
<1>5. Remove(all, {}) = {Forgetting(r, {}) : r \in {x \in all : x.id \notin {}}}
  BY <1>4, RemoveIs
<1> QED BY <1>2, <1>3, <1>5 DEF all

\* Linking relatives never puts a person in a slot that another one holds,
\* however many requests are open: unless that one came into it behind the
\* back of the request, which had found it empty (link_relative, editing.py
\* 173-236).
THEOREM SlotsAreRespected == ASSUME NoRowIsNone PROVE Spec => SlotsNeverTakenOver
<1>1. Init => TreeInv
  BY InvStart
<1>2. TreeInv /\ [Next]_vars => TreeInv'
  BY InvStep
<1>3. TreeInv /\ [Next]_vars => \A w \in Writers : commit(w) /\ req[w].action = "relative_add" =>
         \A f \in Of(rows, "families"), slot \in {"husband", "wife"} :
            f.ref[slot] # None =>
               \/ At(rows', f.id).ref[slot] = f.ref[slot]
               \/ /\ w \in overtaken
                  /\ \E x \in Updates(req[w].writes) : x.old.id = f.id /\ x.old.ref[slot] = None
  <2> SUFFICES ASSUME TreeInv, NEW w \in Writers, commit(w), req[w].action = "relative_add",
                      NEW f \in Of(rows, "families"), NEW slot \in {"husband", "wife"}, f.ref[slot] # None,
                      At(rows', f.id).ref[slot] # f.ref[slot]
               PROVE  /\ w \in overtaken
                      /\ \E x \in Updates(req[w].writes) : x.old.id = f.id /\ x.old.ref[slot] = None
    OBVIOUS
  <2> DEFINE W == req[w].writes
  <2>1. RowsOK /\ Proper(W) /\ KeepsSlots(W) /\ Applies(rows, W) /\ rows' = Apply(rows, W)
    BY DEF TreeInv, ReqInv, Decided, commit
  <2>2. w \notin overtaken => \A x \in W : x.old # None => x.old \in rows
    BY DEF TreeInv, ReqInv, RequestOK, Planned, Sound, commit
  <2> HIDE DEF W
  <2>3. \A x \in W : x.new # None
    BY <2>1 DEF KeepsSlots, Proper, Typed, TypedWrite
  <2>4. f \in rows /\ At(rows, f.id) = f
    BY <2>1, AtOnly DEF Of, RowsOK, Valid
  <2>5. \A r \in Flushed(rows, W) : IsRow(r)
    <3>1. \A x \in Updates(W) : IsRow(Overlay(x, At(rows, x.old.id)))
      BY <2>1, Overlaid DEF Updates, Proper, Typed, TypedWrite, WellFormed
    <3>2. \A x \in Inserts(W) : IsRow(x.new)
      BY <2>1 DEF Inserts, Proper, Typed, TypedWrite, WellFormed
    <3>3. \A r \in rows : IsRow(r)
      BY <2>1 DEF RowsOK, WellFormed
    <3> QED BY <3>1, <3>2, <3>3 DEF Flushed, Changed
  <2>6. rows' = Flushed(rows, W)
    BY <2>1, <2>3, <2>5, NothingGone
  <2>7. \A a, b \in rows' : a.id = b.id => a = b
    BY <2>1 DEF Applies, Valid
  <2>8. ASSUME f.id \notin Touched(W) PROVE FALSE
    <3>1. f \in rows'
      BY <2>4, <2>6, <2>8 DEF Flushed
    <3> QED BY <2>7, <3>1, AtOnly
  <2>9. PICK x \in Updates(W) : x.old.id = f.id
    BY <2>8 DEF Touched
  <2> DEFINE o == Overlay(x, f)
  <2>10. WellFormed(x.new) /\ x.new.id = f.id /\ x.old # None /\ x.new # None
         /\ (x.old.ref[slot] # None => x.new.ref[slot] = x.old.ref[slot])
    BY <2>1, <2>9 DEF Updates, KeepsSlots, Proper, Typed, TypedWrite
  <2>11. o \in rows'
    BY <2>4, <2>6, <2>9 DEF Flushed, Changed
  <2>12. o.id = f.id /\ o.ref[slot] = IF x.new.ref[slot] = x.old.ref[slot] THEN f.ref[slot] ELSE x.new.ref[slot]
    BY <2>10, Overlaid DEF WellFormed, Columns
  <2> HIDE DEF o
  <2>13. At(rows', f.id) = o
    BY <2>7, <2>11, <2>12, AtOnly
  <2>14. x.old.ref[slot] = None
    BY <2>10, <2>12, <2>13
  <2>15. w \in overtaken
    <3> SUFFICES ASSUME w \notin overtaken PROVE FALSE
      OBVIOUS
    <3>1. x.old \in rows
      BY <2>2, <2>9, <2>10 DEF Updates
    <3>2. x.old = f
      BY <2>1, <2>4, <2>9, <3>1 DEF RowsOK, Valid
    <3> QED BY <2>14, <3>2
  <2> QED BY <2>9, <2>14, <2>15 DEF W
<1> QED BY <1>1, <1>2, <1>3, PTL DEF Spec, SlotsNeverTakenOver

\* A row that a merge moves is about keep afterwards.
LEMMA MovedIsAbout ==
    ASSUME NoRowIsNone, RowsOK, NEW r \in rows, r.t # "family_children", "person" \in Has[r.t],
           NEW keep, keep # None,
           NEW q, q = Moved(r, keep) \/ q = [Moved(r, keep) EXCEPT !.primary = FALSE]
    PROVE  /\ q.id = r.id /\ q.t = r.t /\ q.data = r.data /\ q.ref["person"] = keep
           /\ keep \in Targets(q) /\ q # None
<1> DEFINE m == Moved(r, keep)
<1>1. WellFormed(r) /\ "person" \in Columns
  BY DEF RowsOK, Columns
<1>2. /\ WellFormed(m) /\ m.id = r.id /\ m.t = r.t /\ m.data = r.data
      /\ \A c \in Columns : m.ref[c] = IF c = "person" THEN keep ELSE r.ref[c]
  BY <1>1, MovedOK
<1>3. q = m \/ q = [m EXCEPT !.primary = FALSE]
  OBVIOUS
<1> HIDE DEF m
<1>4. m = Row(m.t, m.id, [c \in Columns |-> m.ref[c]], m.data, m.primary)
  BY <1>2 DEF WellFormed, IsRow
<1>5. /\ [m EXCEPT !.primary = FALSE].id = m.id /\ [m EXCEPT !.primary = FALSE].t = m.t
      /\ [m EXCEPT !.primary = FALSE].data = m.data /\ [m EXCEPT !.primary = FALSE].ref = m.ref
  BY <1>4 DEF Row
<1>6. q.id = r.id /\ q.t = r.t /\ q.data = r.data /\ q.ref["person"] = keep
  BY <1>1, <1>2, <1>3, <1>5
<1>7. q # None
  <2>1. WellFormed([m EXCEPT !.primary = FALSE])
    BY <1>2, EditedOK
  <2>2. WellFormed(q)
    BY <1>2, <1>3, <2>1
  <2> QED BY <2>2 DEF WellFormed, NoRowIsNone
<1> QED BY <1>1, <1>6, <1>7 DEF Targets

\* Of a merge: what is written of a row about dup, unless keep has its like.
LEMMA MergeSame ==
    ASSUME NoRowIsNone, RowsOK, NEW keep, NEW dup, Two(keep, dup), NEW M \in MovedNames(keep, dup),
           NEW W, W = MergeWrites(M, keep, dup), NEW s, s = (rows \ Olds(W)) \cup News(W),
           NEW r \in rows, dup \in Targets(r)
    PROVE  SameOf(r, s, keep)
<1>1. PICK x \in W : x.old = r
  BY MergeReaches
<1>2. MergeOne(x, M, keep, dup)
  BY <1>1, MergeParts
<1>3. \A y \in W : MergeResult(y, keep, dup)
  BY MergeParts, MergeResults DEF Two
<1>4. keep # None /\ dup # None /\ keep # dup /\ At(rows, keep).t = "persons" /\ At(rows, dup).t = "persons"
  BY TwoRows DEF Two
<1>5. \A q \in News(W) : q \in s
  OBVIOUS
<1>6. \A y \in W : y.new # None => y.new \in s
  BY DEF News
<1>7. ASSUME NEW t \in {"names", "family_children", "match_candidates"}, NEW k \in About(rows, t, keep)
      PROVE  k \in s
  <2>1. k \in rows /\ k.t = t /\ k.ref.person = keep
    BY DEF About, Of
  <2>2. ASSUME NEW y \in W, y.old = k PROVE FALSE
    <3>1. MergeOne(y, M, keep, dup)
      BY MergeParts
    <3> QED BY <3>1, <2>1, <2>2, <1>4 DEF MergeOne, About, Of, FamiliesOf
  <2>3. k \notin Olds(W)
    BY <2>2 DEF Olds
  <2> QED BY <2>1, <2>3
<1>8. ASSUME NEW n \in About(rows, "names", dup) \cap M, NEW y \in W, y.old = n
      PROVE  \E q \in About(s, "names", keep) : q.data = n.data
  <2>1. n \in rows /\ n.t = "names"
    BY DEF About, Of
  <2>2. MergeOne(y, M, keep, dup)
    BY MergeParts
  <2>3. y = upd(n, [Moved(n, keep) EXCEPT !.primary = FALSE])
    BY <1>4, <1>8, <2>1, <2>2 DEF MergeOne, About, Of, FamiliesOf
  <2> DEFINE q == [Moved(n, keep) EXCEPT !.primary = FALSE]
  <2>4. y.new = q
    BY <2>3 DEF upd
  <2>5. q.t = "names" /\ q.data = n.data /\ q.ref["person"] = keep /\ q # None
    BY <1>4, <2>1, MovedIsAbout DEF Has
  <2> HIDE DEF q
  <2>6. q \in s
    BY <1>6, <2>4, <2>5, <1>8
  <2> QED BY <2>5, <2>6 DEF About, Of
\* A row that is still there and about keep.
<1>9. ASSUME NEW q, q \in s, q.id = r.id, keep \in Targets(q) PROVE SameOf(r, s, keep)
  BY <1>9 DEF SameOf
<1>10. CASE r \in About(rows, "names", dup)
  <2>1. r.t = "names"
    BY <1>10 DEF About, Of
  <2>2. \E q \in About(s, "names", keep) : q.data = r.data
    <3> DEFINE new == {n \in About(rows, "names", dup) : \A k \in About(rows, "names", keep) : k.data # n.data}
    <3>1. M \in SUBSET new /\ {n.data : n \in M} = {n.data : n \in new}
      BY DEF MovedNames
    <3>2. CASE r \in new
      <4>1. PICK n \in M : n.data = r.data
        BY <3>1, <3>2
      <4>2. n \in rows /\ n \in About(rows, "names", dup) /\ dup \in Targets(n)
        BY <3>1, <1>4 DEF About, Of, Targets, Columns
      <4>3. PICK y \in W : y.old = n
        BY <4>2, MergeReaches
      <4> QED BY <4>1, <4>2, <4>3, <1>8
    <3>3. CASE r \notin new
      <4>1. PICK k \in About(rows, "names", keep) : k.data = r.data
        BY <1>10, <3>3
      <4>2. k \in s
        BY <1>7
      <4> QED BY <4>1, <4>2 DEF About, Of
    <3> QED BY <3>2, <3>3
  <2> QED BY <2>1, <2>2 DEF SameOf
<1>11. CASE /\ \E t \in {"events", "citations", "person_mentions"} : r \in About(rows, t, dup)
            /\ x = upd(r, Moved(r, keep))
  <2>1. r.t \in {"events", "citations", "person_mentions"}
    BY <1>11 DEF About, Of
  <2> DEFINE q == Moved(r, keep)
  <2>2. q.id = r.id /\ keep \in Targets(q) /\ q # None
    BY <1>4, <2>1, MovedIsAbout DEF Has
  <2>3. x.new = q
    BY <1>11 DEF upd
  <2> HIDE DEF q
  <2> QED BY <1>6, <1>9, <2>2, <2>3
<1>12. CASE /\ r \in About(rows, "family_children", dup)
            /\ x = IF <<r.ref.family, keep>> \in Ids(Of(rows, "family_children"))
                   THEN del(r) ELSE upd(r, Child(r.ref.family, keep))
  <2>1. r \in rows /\ r.t = "family_children"
    BY <1>12 DEF About, Of
  <2>2. <<r.ref.family, keep>> \in Ids(s)
    <3>1. CASE <<r.ref.family, keep>> \in Ids(Of(rows, "family_children"))
      <4>1. PICK k \in rows : k.t = "family_children" /\ k.id = <<r.ref.family, keep>>
        BY <3>1 DEF Ids, Of
      <4>2. k.id = <<k.ref.family, k.ref.person>>
        BY <4>1 DEF RowsOK, WellFormed
      <4>3. k \in About(rows, "family_children", keep)
        BY <4>1, <4>2 DEF About, Of
      <4> QED BY <1>7, <4>1, <4>3 DEF Ids
    <3>2. CASE <<r.ref.family, keep>> \notin Ids(Of(rows, "family_children"))
      <4> DEFINE q == Child(r.ref.family, keep)
      <4>1. x = upd(r, q)
        BY <1>12, <3>2
      <4>2. q.id = <<r.ref.family, keep>>
        BY DEF Child, Row
      <4>3. WellFormed(q)
        <5>1. r.ref["family"] \in Families
          BY <2>1, ChildIs DEF RowsOK
        <5>2. keep \in People
          BY TwoRows, Pools DEF RowsOK, WellFormed
        <5> QED BY <5>1, <5>2, NewChild
      <4> HIDE DEF q
      <4>4. x.new = q /\ q # None
        BY <4>1, <4>3 DEF upd, WellFormed, NoRowIsNone
      <4> QED BY <1>6, <4>2, <4>4 DEF Ids
    <3> QED BY <3>1, <3>2
  <2> QED BY <2>1, <2>2 DEF SameOf
<1>13. CASE r \in FamiliesOf(dup) /\ x = upd(r, Swapped(r, dup, keep))
  <2> DEFINE q == Swapped(r, dup, keep)
  <2>1. r \in Of(rows, "families") /\ (r.ref["husband"] = dup \/ r.ref["wife"] = dup)
    BY <1>4, <1>13 DEF FamiliesOf, Spouses
  <2>2. SwappedRight(q, r, dup, keep)
    BY <1>4, <2>1, SwappedFamily
  <2>3. x.new = q
    BY <1>13 DEF upd
  <2> HIDE DEF q
  <2>4. q.id = r.id /\ q # None /\ keep \in Targets(q)
    BY <1>4, <2>1, <2>2 DEF SwappedRight, WellFormed, NoRowIsNone, Targets, Columns
  <2> QED BY <1>6, <1>9, <2>3, <2>4
<1>14. CASE /\ r \in About(rows, "match_candidates", dup)
            /\ x = IF \E k \in About(rows, "match_candidates", keep) : k.ref.mention = r.ref.mention
                   THEN del(r) ELSE upd(r, Moved(r, keep))
  <2>1. r.t = "match_candidates"
    BY <1>14 DEF About, Of
  <2>2. CASE \E k \in About(rows, "match_candidates", keep) : k.ref.mention = r.ref.mention
    <3>1. PICK k \in About(rows, "match_candidates", keep) : k.ref.mention = r.ref.mention
      BY <2>2
    <3>2. k \in About(s, "match_candidates", keep)
      BY <1>7 DEF About, Of
    <3> QED BY <2>1, <3>1, <3>2 DEF SameOf
  <2>3. CASE ~ \E k \in About(rows, "match_candidates", keep) : k.ref.mention = r.ref.mention
    <3> DEFINE q == Moved(r, keep)
    <3>1. q.id = r.id /\ keep \in Targets(q) /\ q # None
      BY <1>4, <2>1, MovedIsAbout DEF Has
    <3>2. x.new = q
      BY <1>14, <2>3 DEF upd
    <3> HIDE DEF q
    <3> QED BY <1>6, <1>9, <3>1, <3>2
  <2> QED BY <2>2, <2>3
<1>15. r.t # "persons"
  <2>1. PICK c \in Columns : r.ref[c] = dup
    BY DEF Targets
  <2>2. c \in Has[r.t]
    BY <2>1, PersonColumns DEF Two
  <2> QED BY <2>2 DEF Has
<1>16. \/ r \in About(rows, "names", dup)
       \/ /\ \E t \in {"events", "citations", "person_mentions"} : r \in About(rows, t, dup)
          /\ x = upd(r, Moved(r, keep))
       \/ /\ r \in About(rows, "family_children", dup)
          /\ x = IF <<r.ref.family, keep>> \in Ids(Of(rows, "family_children"))
                 THEN del(r) ELSE upd(r, Child(r.ref.family, keep))
       \/ r \in FamiliesOf(dup) /\ x = upd(r, Swapped(r, dup, keep))
       \/ /\ r \in About(rows, "match_candidates", dup)
          /\ x = IF \E k \in About(rows, "match_candidates", keep) : k.ref.mention = r.ref.mention
                 THEN del(r) ELSE upd(r, Moved(r, keep))
  BY <1>1, <1>2, <1>4, <1>15, Zenon DEF MergeOne, Swapped
<1> QED BY <1>10, <1>11, <1>12, <1>13, <1>14, <1>16

\* Of the people, a merge takes dup and nobody else.
LEMMA MergeTakesOne ==
    ASSUME NoRowIsNone, RowsOK, NEW keep, NEW dup, Two(keep, dup), NEW M,
           NEW W, W = MergeWrites(M, keep, dup), NEW s, s = (rows \ Olds(W)) \cup News(W)
    PROVE  Ids(Of(s, "persons")) = Ids(Of(rows, "persons")) \ {dup}
<1> DEFINE d == At(rows, dup)
<1>1. d \in rows /\ d.t = "persons" /\ d.id = dup
  BY TwoRows
<1>2. d \in Olds(W)
  <2>1. del(d) \in W /\ del(d).old = d
    BY OldsOf DEF MergeWrites
  <2>2. d # None
    BY <1>1 DEF RowsOK, WellFormed, NoRowIsNone
  <2> HIDE DEF d
  <2> QED BY <2>1, <2>2 DEF Olds
<1> HIDE DEF d
<1>3. \A x \in W : MergeResult(x, keep, dup)
  BY MergeParts, MergeResults DEF Two
<1>4. ASSUME NEW x \in W, x.old.t = "persons", x.new # None PROVE x.old.id # dup
  <2>1. MergeOne(x, M, keep, dup)
    BY MergeParts
  <2>2. At(rows, keep).id = keep /\ keep # dup
    BY TwoRows DEF Two
  <2>3. \A t, p : \A r \in About(rows, t, p) : r.t = t
    BY DEF About, Of
  <2>4. \A p : \A r \in FamiliesOf(p) : r.t = "families"
    BY DEF FamiliesOf, Of
  <2>5. del(x.old).new = None
    BY DEF del
  <2> QED BY <1>4, <2>1, <2>2, <2>3, <2>4, <2>5 DEF MergeOne
<1>5. ASSUME NEW r \in s, r.t = "persons" PROVE r.id \in Ids(Of(rows, "persons")) /\ r.id # dup
  <2>1. CASE r \in rows \ Olds(W)
    <3>1. r.id # dup
      BY <2>1, <1>1, <1>2 DEF RowsOK, Valid
    <3> QED BY <2>1, <1>5, <3>1 DEF Ids, Of
  <2>2. CASE r \in News(W)
    <3>1. PICK x \in W : x.new = r /\ r # None
      BY <2>2 DEF News
    <3>2. x.old \in rows /\ x.old.t = "persons" /\ x.old.id = r.id
      BY <1>3, <1>5, <3>1 DEF MergeResult
    <3>3. x.old.id # dup
      BY <1>4, <3>1, <3>2
    <3> QED BY <3>2, <3>3 DEF Ids, Of
  <2> QED BY <2>1, <2>2
<1>6. ASSUME NEW r \in rows, r.t = "persons", r.id # dup PROVE r.id \in Ids(Of(s, "persons"))
  <2>1. CASE r \notin Olds(W)
    BY <2>1, <1>6 DEF Ids, Of
  <2>2. CASE r \in Olds(W)
    <3>1. PICK x \in W : x.old = r
      BY <2>2 DEF Olds
    <3>2. x.new # None
      <4> SUFFICES ASSUME x.new = None PROVE FALSE
        OBVIOUS
      <4>1. x.old = At(rows, dup)
        BY <1>3, <1>6, <3>1 DEF MergeResult
      <4> QED BY <1>1, <1>6, <3>1, <4>1 DEF d
    <3>3. x.new.t = "persons" /\ x.new.id = r.id /\ x.new \in s
      BY <1>3, <1>6, <3>1, <3>2 DEF MergeResult, News
    <3> QED BY <3>3 DEF Ids, Of
  <2> QED BY <2>1, <2>2
<1>7. \A i \in Ids(Of(s, "persons")) : i \in Ids(Of(rows, "persons")) \ {dup}
  BY <1>5 DEF Ids, Of
<1>8. \A i \in Ids(Of(rows, "persons")) \ {dup} : i \in Ids(Of(s, "persons"))
  <2> SUFFICES ASSUME NEW r \in rows, r.t = "persons", r.id # dup PROVE r.id \in Ids(Of(s, "persons"))
    BY DEF Ids, Of
  <2> QED BY <1>6
<1> QED BY <1>7, <1>8

\* Keep stays: nothing that refers to it forgets it.
LEMMA KeepStays ==
    ASSUME NoRowIsNone, RowsOK, NEW keep, NEW dup, Two(keep, dup), NEW M, NEW W, W = MergeWrites(M, keep, dup)
    PROVE  keep \notin Gone(W)
<1> SUFFICES ASSUME NEW y \in W, y.new = None, y.old.id = keep PROVE FALSE
  BY DEF Gone, Deletes
<1>1. MergeResult(y, keep, dup)
  BY MergeParts, MergeResults DEF Two
<1>2. /\ At(rows, keep) \in rows /\ At(rows, keep).t = "persons" /\ At(rows, keep).id = keep
      /\ At(rows, dup).id = dup /\ keep # dup
  BY TwoRows DEF Two
<1>3. y.old = At(rows, keep)
  BY <1>1, <1>2 DEF MergeResult, RowsOK, Valid
<1> QED BY <1>1, <1>2, <1>3 DEF MergeResult

\* What a merge leaves of s, but for what citations forget, is about the same.
LEMMA SameAfter ==
    ASSUME NEW s, \A r \in s : IsRow(r), NEW g, NEW s2, s2 = {Forgetting(r, g) : r \in s},
           \A r \in s : r.t # "citations" => Forgetting(r, g) = r,
           NEW keep, keep \notin g, NEW r, SameOf(r, s, keep)
    PROVE  SameOf(r, s2, keep)
<1>1. \A q \in s : q.t # "citations" => q \in s2
  OBVIOUS
<1>2. CASE r.t = "names" /\ \E n \in About(s, "names", keep) : n.data = r.data
  BY <1>1, <1>2 DEF SameOf, About, Of
<1>3. CASE r.t = "family_children" /\ <<r.ref.family, keep>> \in Ids(s)
  <2>1. PICK q \in s : q.id = <<r.ref.family, keep>>
    BY <1>3 DEF Ids
  <2>2. Forgetting(q, g) \in s2 /\ Forgetting(q, g).id = q.id
    BY Forgot
  <2>3. <<r.ref.family, keep>> \in Ids(s2)
    BY <2>1, <2>2 DEF Ids
  <2> QED BY <1>3, <2>3 DEF SameOf
<1>4. CASE /\ r.t = "match_candidates"
           /\ \E c \in About(s, "match_candidates", keep) : c.ref.mention = r.ref.mention
  BY <1>1, <1>4 DEF SameOf, About, Of
<1>5. CASE \E x \in s : x.id = r.id /\ keep \in Targets(x)
  <2>1. PICK x \in s : x.id = r.id /\ keep \in Targets(x)
    BY <1>5
  <2>2. PICK c \in Columns : x.ref[c] = keep /\ keep # None
    BY <2>1 DEF Targets
  <2> DEFINE f == Forgetting(x, g)
  <2>3. f \in s2 /\ f.id = x.id /\ f.ref[c] = keep
    BY <2>2, Forgot
  <2> HIDE DEF f
  <2>4. keep \in Targets(f)
    BY <2>2, <2>3 DEF Targets
  <2> QED BY <2>1, <2>3, <2>4 DEF SameOf
<1> QED BY <1>2, <1>3, <1>4, <1>5 DEF SameOf

\* A merge drops dup, what keep already has the like of, and nothing else;
\* all other rows about dup are about keep afterwards, and none about dup is
\* left behind (merge_persons, editing.py 284-350).
THEOREM MergesKeepEvidence == ASSUME NoRowIsNone PROVE Spec => MergeKeepsEvidence
<1>1. Init => TreeInv
  BY InvStart
<1>2. TreeInv /\ [Next]_vars => TreeInv'
  BY InvStep
<1>3. TreeInv => \A w \in Writers : lands(w) /\ req[w].action = "person_merge" =>
         \E keep, dup \in Ids(Of(rows, "persons")) :
            /\ Ids(Of(rows', "persons")) = Ids(Of(rows, "persons")) \ {dup}
            /\ \A r \in Dependents(rows, dup) : SameOf(r, rows', keep)
            /\ Dependents(rows', dup) = {}
  <2> SUFFICES ASSUME TreeInv, NEW w \in Writers, lands(w), req[w].action = "person_merge"
               PROVE  \E keep, dup \in Ids(Of(rows, "persons")) :
                         /\ Ids(Of(rows', "persons")) = Ids(Of(rows, "persons")) \ {dup}
                         /\ \A r \in Dependents(rows, dup) : SameOf(r, rows', keep)
                         /\ Dependents(rows', dup) = {}
    OBVIOUS
  <2> DEFINE W == req[w].writes
  <2>1. RowsOK /\ Planned("person_merge", W) /\ Applies(rows, W) /\ rows' = Apply(rows, W)
    BY CommitFinds
  <2> HIDE DEF W
  <2> DEFINE s == Replaced(rows, W)
             g == Gone(W)
  <2>2. /\ rows' = {Forgetting(r, g) : r \in s}
        /\ \A r \in s : IsRow(r)
        /\ \A r \in s : r.t # "citations" => Forgetting(r, g) = r
    BY <2>1, Exactly DEF WellFormed
  <2>3. PICK keep \in Ids(Of(rows, "persons")), dup \in Ids(Of(rows, "persons")) :
          keep # dup /\ \E M \in MovedNames(keep, dup) : W = MergeWrites(M, keep, dup)
    BY <2>1 DEF Planned, IsMerge
  <2>4. PICK M \in MovedNames(keep, dup) : W = MergeWrites(M, keep, dup)
    BY <2>3
  <2>5. Two(keep, dup)
    BY <2>3 DEF Two
  <2>6. s = (rows \ Olds(W)) \cup News(W)
    BY DEF Replaced
  <2> HIDE DEF s, g
  <2>7. Ids(Of(rows', "persons")) = Ids(Of(rows, "persons")) \ {dup}
    <3>1. Ids(Of(s, "persons")) = Ids(Of(rows, "persons")) \ {dup}
      BY <2>1, <2>4, <2>5, <2>6, MergeTakesOne
    <3>2. \A r \in s : Forgetting(r, g).t = r.t /\ Forgetting(r, g).id = r.id
      BY <2>2, Forgot
    <3>3. Ids(Of(rows', "persons")) = Ids(Of(s, "persons"))
      BY <2>2, <3>2 DEF Ids, Of
    <3> QED BY <3>1, <3>3
  <2>8. \A r \in Dependents(rows, dup) : SameOf(r, rows', keep)
    <3> SUFFICES ASSUME NEW r \in rows, dup \in Targets(r) PROVE SameOf(r, rows', keep)
      BY DEF Dependents
    <3>1. SameOf(r, s, keep)
      BY <2>1, <2>4, <2>5, <2>6, MergeSame
    <3>2. keep \notin g
      BY <2>1, <2>4, <2>5, KeepStays DEF g
    <3> QED BY <2>2, <3>1, <3>2, SameAfter
  <2>9. Dependents(rows', dup) = {}
    <3>1. \A r \in s : dup \notin Targets(r)
      BY <2>1, <2>4, <2>5, <2>6, MergeLeavesNone
    <3>2. \A r \in s : Targets(Forgetting(r, g)) \subseteq Targets(r)
      BY <2>2, Forgot DEF Targets
    <3> QED BY <2>2, <3>1, <3>2 DEF Dependents
  <2> QED BY <2>7, <2>8, <2>9
<1> QED BY <1>1, <1>2, <1>3, PTL DEF Spec, MergeKeepsEvidence

-----------------------------------------------------------------------------
(***************************************************************************)
(* What the tree answers.  All that Kinship takes is a finite table of     *)
(* persons and the foreign keys (TreeOK).                                  *)
(***************************************************************************)

(***************************************************************************)
(* Recursion on the numbers up to n.                                       *)
(***************************************************************************)

\* Induction on the numbers up to n.
LEMMA UpTo ==
    ASSUME NEW n \in Nat, NEW S, 0 \in S, \A k \in 1..n : k - 1 \in S => k \in S
    PROVE  0..n \subseteq S
<1>1. SUFFICES ASSUME (0..n) \ S # {} PROVE FALSE
  OBVIOUS
<1>2. PICK x \in (0..n) \ S : \A y \in (0..n) \ S : <<y, x>> \notin OpToRel(<, Nat)
  <2>1. (0..n) \ S \subseteq Nat
    OBVIOUS
  <2> QED BY <1>1, <2>1, NatLessThanWellFounded, WFMin
<1>0. x \in 0..n /\ x \notin S /\ \A y \in 0..n : y \notin S => <<y, x>> \notin OpToRel(<, Nat)
  BY <1>2
<1> HIDE <1>2
<1>3. x \in 1..n /\ x - 1 \in 0..n /\ x - 1 < x
  <2>1. x \in 0..n /\ x # 0
    BY <1>0, Zenon
  <2> QED BY <2>1
<1>4. x - 1 \notin S
  <2>1. x \notin S
    BY <1>0, Zenon
  <2> QED BY <1>3, <2>1
<1>5. <<x - 1, x>> \in OpToRel(<, Nat)
  BY <1>3 DEF OpToRel
<1> QED BY <1>0, <1>3, <1>4, <1>5

\* f is built step by step: each value is made of the one before it.
Built(f, n, x, D, g) ==
    /\ f = [k \in 0..n |-> f[k]]
    /\ \A k \in 0..n : f[k] \in D /\ f[k] = IF k = 0 THEN x ELSE g[<<k, f[k - 1]>>]

LEMMA StepByStep ==
    ASSUME NEW n \in Nat, NEW x, NEW D, x \in D, NEW g \in [Nat \X D -> D]
    PROVE  \E f : Built(f, n, x, D, g)
<1> DEFINE S == {m \in 0..n : \E f : Built(f, m, x, D, g)}
<1>1. 0 \in S
  <2> DEFINE f == [k \in 0..0 |-> x]
  <2>1. Built(f, 0, x, D, g)
    BY DEF Built
  <2> QED BY <2>1
<1>2. ASSUME NEW m \in 1..n, m - 1 \in S PROVE m \in S
  <2>1. PICK f : Built(f, m - 1, x, D, g)
    BY <1>2
  <2> DEFINE h == [k \in 0..m |-> IF k = m THEN g[<<m, f[m - 1]>>] ELSE f[k]]
  <2>2. \A k \in 0..m : h[k] = IF k = 0 THEN x ELSE g[<<k, h[k - 1]>>]
    <3> TAKE k \in 0..m
    <3>1. CASE k = m
      <4>1. h[k - 1] = f[k - 1] /\ h[k] = g[<<m, f[m - 1]>>] /\ k # 0
        BY <3>1
      <4> HIDE DEF h
      <4> QED BY <3>1, <4>1
    <3>2. CASE k # m
      <4>1. k \in 0..(m - 1) /\ h[k] = f[k] /\ (k # 0 => h[k - 1] = f[k - 1])
        BY <3>2
      <4> QED BY <2>1, <4>1 DEF Built
    <3> QED BY <3>1, <3>2
  <2>3. \A k \in 0..m : h[k] \in D
    <3> TAKE k \in 0..m
    <3>1. f[m - 1] \in D /\ m \in Nat
      <4>1. m - 1 \in 0..(m - 1)
        OBVIOUS
      <4>2. \A i \in 0..(m - 1) : f[i] \in D
        BY <2>1 DEF Built
      <4> QED BY <4>1, <4>2
    <3>2. k # m => k \in 0..(m - 1)
      OBVIOUS
    <3> QED BY <2>1, <3>1, <3>2 DEF Built
  <2>4. h = [k \in 0..m |-> h[k]]
    OBVIOUS
  <2> HIDE DEF h
  <2>5. Built(h, m, x, D, g)
    BY <2>2, <2>3, <2>4 DEF Built
  <2> QED BY <2>5
<1>3. 0..n \subseteq S
  <2> HIDE DEF S
  <2> QED BY <1>1, <1>2, UpTo
<1> QED BY <1>3

Walks(at, p, next, n) == at = [k \in 0..n |-> IF k = 0 THEN {p} ELSE Onward(at[k - 1], next)]

\* The people n + 1 steps away are next to those n steps away.
LEMMA AwayOnce ==
    ASSUME NEW D, NEW p \in D, NEW next \in [D -> SUBSET D], NEW n \in Nat
    PROVE  \E at : /\ Walks(at, p, next, n)
                   /\ \A k \in 0..n : at[k] \in SUBSET D
                   /\ Away(p, n, next) = at[n]
<1> DEFINE g == [y \in Nat \X SUBSET D |-> Onward(y[2], next)]
<1>0. \A X \in SUBSET D : Onward(X, next) \in SUBSET D
  BY DEF Onward
<1>1. {p} \in SUBSET D /\ g \in [Nat \X SUBSET D -> SUBSET D]
  BY <1>0
<1>2. PICK f : Built(f, n, {p}, SUBSET D, g)
  <2> HIDE DEF g
  <2> QED BY <1>1, StepByStep
<1>3. \A k \in 0..n : f[k] = IF k = 0 THEN {p} ELSE Onward(f[k - 1], next)
  <2> TAKE k \in 0..n
  <2> USE DEF Built
  <2>1. CASE k = 0
    BY <1>2, <2>1
  <2>2. CASE k # 0
    <3>1. k \in Nat /\ k - 1 \in 0..n
      BY <2>2
    <3>2. <<k, f[k - 1]>> \in Nat \X SUBSET D
      BY <1>2, <3>1
    <3>3. f[k] = g[<<k, f[k - 1]>>]
      BY <1>2, <2>2
    <3> QED BY <2>2, <3>2, <3>3
  <2> QED BY <2>1, <2>2
<1>4. Walks(f, p, next, n)
  BY <1>2, <1>3 DEF Walks, Built
<1> DEFINE at == CHOOSE h : Walks(h, p, next, n)
<1>5. Walks(at, p, next, n)
  BY <1>4
<1>6. Away(p, n, next) = at[n]
  BY DEF Away, Walks
<1> HIDE DEF at
<1>7. \A k \in 0..n : at[k] = IF k = 0 THEN {p} ELSE Onward(at[k - 1], next)
  BY <1>5 DEF Walks
<1> DEFINE S == {k \in 0..n : at[k] \in SUBSET D}
<1>8. 0..n \subseteq S
  <2>1. 0 \in S
    BY <1>7
  <2>2. ASSUME NEW k \in 1..n, k - 1 \in S PROVE k \in S
    <3>1. at[k] = Onward(at[k - 1], next)
      BY <1>7
    <3>2. at[k - 1] \in SUBSET D
      BY <2>2
    <3> QED BY <1>0, <3>1, <3>2
  <2> HIDE DEF S
  <2> QED BY <2>1, <2>2, UpTo
<1> QED BY <1>5, <1>6, <1>8

LEMMA AwayUnique ==
    ASSUME NEW p, NEW next, NEW n \in Nat, NEW m \in Nat, n <= m, NEW f, NEW g,
           Walks(f, p, next, n), Walks(g, p, next, m)
    PROVE  \A k \in 0..n : f[k] = g[k]
<1> DEFINE S == {k \in 0..n : f[k] = g[k]}
<1>0. /\ \A k \in 0..n : f[k] = IF k = 0 THEN {p} ELSE Onward(f[k - 1], next)
      /\ \A k \in 0..m : g[k] = IF k = 0 THEN {p} ELSE Onward(g[k - 1], next)
  BY DEF Walks
<1>1. 0 \in S
  BY <1>0
<1>2. ASSUME NEW k \in 1..n, k - 1 \in S PROVE k \in S
  <2>1. f[k] = Onward(f[k - 1], next) /\ g[k] = Onward(g[k - 1], next)
    BY <1>0
  <2> QED BY <1>2, <2>1
<1>3. 0..n \subseteq S
  <2> HIDE DEF S
  <2> QED BY <1>1, <1>2, UpTo
<1> QED BY <1>3

LEMMA AwaySteps ==
    ASSUME NEW D, NEW p \in D, NEW next \in [D -> SUBSET D]
    PROVE  /\ Away(p, 0, next) = {p}
           /\ \A n \in Nat : /\ Away(p, n, next) \subseteq D
                             /\ Away(p, n + 1, next) = Onward(Away(p, n, next), next)
<1>1. Away(p, 0, next) = {p}
  <2>1. PICK f : Walks(f, p, next, 0) /\ Away(p, 0, next) = f[0]
    BY AwayOnce, 0 \in Nat
  <2>2. 0 \in 0..0
    OBVIOUS
  <2> QED BY <2>1, <2>2 DEF Walks
<1>2. ASSUME NEW n \in Nat
      PROVE  /\ Away(p, n, next) \subseteq D
             /\ Away(p, n + 1, next) = Onward(Away(p, n, next), next)
  <2>1. PICK f : /\ Walks(f, p, next, n)
                 /\ \A k \in 0..n : f[k] \in SUBSET D
                 /\ Away(p, n, next) = f[n]
    BY AwayOnce
  <2>2. PICK g : /\ Walks(g, p, next, n + 1)
                 /\ Away(p, n + 1, next) = g[n + 1]
    <3>1. n + 1 \in Nat
      OBVIOUS
    <3> QED BY <3>1, AwayOnce
  <2>3. f[n] = g[n]
    BY <2>1, <2>2, AwayUnique, n + 1 \in Nat, n <= n + 1, n \in 0..n
  <2>4. g[n + 1] = Onward(g[n], next)
    <3>1. n + 1 \in 0..(n + 1) /\ n + 1 # 0 /\ (n + 1) - 1 = n
      OBVIOUS
    <3> QED BY <2>2, <3>1 DEF Walks
  <2> QED BY <2>1, <2>2, <2>3, <2>4
<1> QED BY <1>1, <1>2

-----------------------------------------------------------------------------
\* The foreign keys of families and family_children, and a finite table of persons.
TreeOK ==
    /\ IsFiniteSet(persons) /\ None \notin persons
    /\ \A f \in family_rows : {husband[f], wife[f]} \subseteq persons \cup {None}
    /\ child \subseteq family_rows \X persons

LEMMA ParentsArePeople ==
    ASSUME TreeOK, NEW p
    PROVE  /\ parents(p) \subseteq persons
           /\ \A x \in parents(p) : \E f \in family_rows : <<f, p>> \in child /\ x \in {husband[f], wife[f]} \ {None}
<1>1. \A x \in parents(p) : \E f \in family_rows : <<f, p>> \in child /\ x \in Couple(f)
  BY DEF parents
<1>2. \A f \in family_rows : Couple(f) \subseteq persons
  BY DEF TreeOK, Couple
<1> QED BY <1>1, <1>2 DEF Couple

LEMMA AboveIsWithin == ASSUME TreeOK PROVE Above \in [persons -> SUBSET persons]
BY ParentsArePeople DEF Above

LEMMA PeopleCounted == ASSUME TreeOK PROVE Cardinality(persons) \in Nat
BY FS_CardinalityType DEF TreeOK

\* Where no error is reported, parents were born before their children.
LEMMA ParentsAreOlder ==
    ASSUME TreeOK, NEW born \in [persons -> Int],
           Errors(get_consistency(born, <<>>, <<>>, 0)) = {},
           NEW c \in persons, NEW p \in parents(c)
    PROVE  born[p] < born[c]
<1>1. PICK f \in family_rows : <<f, c>> \in child /\ p \in {husband[f], wife[f]} /\ p \in persons
  BY ParentsArePeople
<1>2. SUFFICES ASSUME born[c] - born[p] <= 0 PROVE FALSE
  BY <1>1
<1>3. PICK least \in {FATHER_MIN, MOTHER_MIN}, most \in {NoLimit, MOTHER_MAX} :
          issues_of_parent(f, c, p, least, most, born) \subseteq issues_of_child(f, c, born, <<>>, <<>>)
  BY <1>1 DEF issues_of_child
<1>4. issues_of_child(f, c, born, <<>>, <<>>) \subseteq get_consistency(born, <<>>, <<>>, 0)
  <2>1. <<f, c>> \in {x \in child : x[2] \in DOMAIN born}
    BY <1>1
  <2> QED BY <2>1 DEF get_consistency
<1>5. \E code \in {"child_older_than_parent", "parent_too_young"} : code \in issue_of_age(born[c] - born[p], least, most)
  <2>1. PICK age \in Int : age = born[c] - born[p]
    BY <1>1
  <2>2. CASE age < 0
    <3>1. issue_of_age(age, least, most) = {"child_older_than_parent"}
      BY <2>2 DEF issue_of_age
    <3> QED BY <2>1, <3>1
  <2>3. CASE age >= 0
    <3>1. age >= 0 /\ age < least /\ ~(age < 0)
      BY <1>2, <2>1, <2>3 DEF FATHER_MIN, MOTHER_MIN
    <3>2. issue_of_age(age, least, most) = {"parent_too_young"}
      BY <3>1 DEF issue_of_age
    <3> QED BY <2>1, <3>2
  <2> QED BY <2>1, <2>2, <2>3
<1>6. \E i \in issues_of_parent(f, c, p, least, most, born) : i[1] \in {"child_older_than_parent", "parent_too_young"}
  <2>1. PICK code \in {"child_older_than_parent", "parent_too_young"} :
            code \in issue_of_age(born[c] - born[p], least, most)
    BY <1>5
  <2>2. PICK i : i = IF code = "child_older_than_parent" THEN <<code, c, p, f>> ELSE <<code, p, c, f>>
    OBVIOUS
  <2>3. p \in DOMAIN born
    BY <1>1
  <2>4. i \in issues_of_parent(f, c, p, least, most, born)
    BY <2>1, <2>2, <2>3, Zenon DEF issues_of_parent
  <2>5. i[1] = code
    BY <2>1, <2>2
  <2> QED BY <2>1, <2>4, <2>5
<1>7. \E i \in get_consistency(born, <<>>, <<>>, 0) : i[1] \notin Warnings
  BY <1>3, <1>4, <1>6 DEF Warnings
<1> QED BY <1>7 DEF Errors

LEMMA AncestorsAreOlder ==
    ASSUME TreeOK, NEW born \in [persons -> Int],
           Errors(get_consistency(born, <<>>, <<>>, 0)) = {},
           NEW p \in persons, NEW n \in Nat
    PROVE  \A k \in 1..n : \A x \in Away(p, k, Above) : born[x] < born[p]
<1> DEFINE S == {k \in 0..n : \A x \in Away(p, k, Above) : born[x] < born[p] \/ k = 0}
<1>1. 0 \in S
  OBVIOUS
<1>2. ASSUME NEW k \in 1..n, k - 1 \in S PROVE k \in S
  <2> SUFFICES ASSUME NEW x \in Away(p, k, Above) PROVE born[x] < born[p]
    OBVIOUS
  <2>1. k - 1 \in Nat /\ (k - 1) + 1 = k
    OBVIOUS
  <2>2. /\ Away(p, 0, Above) = {p}
        /\ Away(p, k - 1, Above) \subseteq persons
        /\ Away(p, k, Above) = Onward(Away(p, k - 1, Above), Above)
    BY <2>1, AboveIsWithin, AwaySteps
  <2>3. PICK y \in Away(p, k - 1, Above) : y \in persons /\ x \in parents(y)
    BY <2>2 DEF Onward, Above
  <2>4. born[x] < born[y] /\ x \in persons
    BY <2>3, ParentsAreOlder, ParentsArePeople
  <2>5. y = p \/ born[y] < born[p]
    BY <1>2, <2>2, <2>3
  <2> QED BY <2>3, <2>4, <2>5
<1>3. 0..n \subseteq S
  <2> HIDE DEF S
  <2> QED BY <1>1, <1>2, UpTo
<1> QED BY <1>3

LEMMA CirclesFound == ASSUME TreeOK, Years \subseteq Int PROVE CirclesAreReported
<1> SUFFICES ASSUME NEW p \in OwnAncestors, NEW born \in [persons -> Years],
                    Errors(get_consistency(born, <<>>, <<>>, 0)) = {}
             PROVE  FALSE
  BY DEF CirclesAreReported
<1>1. p \in persons /\ born \in [persons -> Int] /\ Cardinality(persons) \in Nat
  BY PeopleCounted DEF OwnAncestors
<1>2. PICK n \in 1..Cardinality(persons) : p \in Away(p, n, Above)
  BY <1>1 DEF OwnAncestors, Pedigree, Distances
<1>3. born[p] < born[p]
  BY <1>1, <1>2, AncestorsAreOlder
<1> QED BY <1>1, <1>3

-----------------------------------------------------------------------------
\* A set of numbers has a smallest one.
LEMMA Smallest ==
    ASSUME NEW S, S \subseteq Nat, S # {}
    PROVE  \E k \in S : \A m \in S : k <= m
<1>1. PICK k \in S : \A m \in S : <<m, k>> \notin OpToRel(<, Nat)
  BY NatLessThanWellFounded, WFMin
<1>2. ASSUME NEW m \in S, ~(k <= m) PROVE FALSE
  <2>1. m \in Nat /\ k \in Nat /\ m < k
    BY <1>2
  <2>2. <<m, k>> \in OpToRel(<, Nat)
    BY <2>1 DEF OpToRel
  <2> QED BY <1>1, <2>2
<1> QED BY <1>2

\* up says of everybody at most n generations above p how many they are, counted the shortest way.
Levels(up, p, n) ==
    /\ \A k \in 0..n : Away(p, k, Above) \subseteq DOMAIN up
    /\ \A x \in DOMAIN up : /\ up[x] \in 0..n /\ x \in Away(p, up[x], Above)
                            /\ \A k \in 0..n : x \in Away(p, k, Above) => up[x] <= k

LEMMA ClimbLevels ==
    ASSUME TreeOK, NEW p \in persons, NEW n \in Nat, n > 0, NEW up, Levels(up, p, n - 1)
    PROVE  Levels(climb(up, n), p, n)
<1>1. PICK m \in Nat : m = n - 1 /\ n = m + 1
  OBVIOUS
<1>2. /\ \A k \in Nat : Away(p, k + 1, Above) = Onward(Away(p, k, Above), Above)
      /\ \A k \in Nat : Away(p, k, Above) \subseteq persons
  BY AboveIsWithin, AwaySteps
<1>3. \A k \in Nat : \A y \in Away(p, k, Above) : \A x \in parents(y) : x \in Away(p, k + 1, Above)
  BY <1>2 DEF Onward, Above
<1>4. \A x \in Away(p, n, Above) : \E y \in Away(p, m, Above) : x \in parents(y)
  BY <1>1, <1>2 DEF Onward, Above
<1>5. /\ \A k \in 0..m : Away(p, k, Above) \subseteq DOMAIN up
      /\ \A x \in DOMAIN up : /\ up[x] \in 0..m /\ x \in Away(p, up[x], Above)
                              /\ \A k \in 0..m : x \in Away(p, k, Above) => up[x] <= k
  BY <1>1 DEF Levels
<1>6. \A x : x \in Higher(up, n) <=> \E y \in DOMAIN up : up[y] = m /\ x \in parents(y)
  BY <1>1 DEF Higher
<1>7. Higher(up, n) \subseteq Away(p, n, Above)
  BY <1>1, <1>3, <1>5, <1>6
<1>8. Away(p, n, Above) \subseteq DOMAIN up \cup Higher(up, n)
  <2> SUFFICES ASSUME NEW x \in Away(p, n, Above), x \notin Higher(up, n) PROVE x \in DOMAIN up
    OBVIOUS
  <2>1. PICK y \in Away(p, m, Above) : x \in parents(y)
    BY <1>4
  <2>2. y \in DOMAIN up /\ up[y] \in 0..m /\ y \in Away(p, up[y], Above) /\ up[y] # m
    BY <1>5, <1>6, <2>1, m \in 0..m
  <2>3. up[y] + 1 \in 0..m /\ up[y] \in Nat
    BY <2>2
  <2>4. x \in Away(p, up[y] + 1, Above)
    BY <1>3, <2>1, <2>2, <2>3
  <2> QED BY <1>5, <2>3, <2>4
<1>9. PICK new : new = climb(up, n)
  OBVIOUS
<1>10. /\ DOMAIN new = DOMAIN up \cup Higher(up, n)
       /\ \A x \in DOMAIN up : new[x] = up[x]
       /\ \A x \in Higher(up, n) \ DOMAIN up : new[x] = n
  BY <1>9 DEF climb
<1>11. \A k \in 0..n : k \in 0..m \/ k = n
  BY <1>1
<1>12. \A k \in 0..n : Away(p, k, Above) \subseteq DOMAIN new
  BY <1>5, <1>8, <1>10, <1>11
<1>13. ASSUME NEW x \in DOMAIN new
       PROVE  /\ new[x] \in 0..n /\ x \in Away(p, new[x], Above)
              /\ \A k \in 0..n : x \in Away(p, k, Above) => new[x] <= k
  <2>1. CASE x \in DOMAIN up
    <3>1. new[x] = up[x] /\ up[x] \in 0..m /\ x \in Away(p, up[x], Above) /\ up[x] <= n /\ up[x] \in 0..n
      BY <1>1, <1>5, <1>10, <2>1
    <3>2. \A k \in 0..m : x \in Away(p, k, Above) => up[x] <= k
      BY <1>5, <2>1
    <3> QED BY <1>11, <3>1, <3>2
  <2>2. CASE x \notin DOMAIN up
    <3>1. new[x] = n /\ x \in Away(p, n, Above)
      BY <1>7, <1>10, <2>2
    <3>2. \A k \in 0..m : x \notin Away(p, k, Above)
      BY <1>5, <2>2
    <3> QED BY <1>11, <3>1, <3>2
  <2> QED BY <2>1, <2>2
<1> QED BY <1>9, <1>12, <1>13 DEF Levels

Climbs(met, p, n) == met = [k \in 0..n |-> IF k = 0 THEN [x \in {p} |-> 0] ELSE climb(met[k - 1], k)]

LEMMA AncestorsHaveLevels ==
    ASSUME TreeOK, NEW p \in persons
    PROVE  Levels(ancestors(p), p, Cardinality(persons))
<1>1. PICK n \in Nat : n = Cardinality(persons)
  BY PeopleCounted
<1>2. PICK start : start = [x \in {p} |-> 0]
  OBVIOUS
<1> DEFINE D == UNION {[S -> Nat] : S \in SUBSET persons}
           g == [y \in Nat \X D |-> climb(y[2], y[1])]
<1>3. start \in D
  <2>1. start \in [{p} -> Nat] /\ {p} \in SUBSET persons
    BY <1>2
  <2> QED BY <2>1
<1>4. g \in [Nat \X D -> D]
  <2> SUFFICES ASSUME NEW k \in Nat, NEW up \in D PROVE climb(up, k) \in D
    OBVIOUS
  <2>1. PICK S \in SUBSET persons : up \in [S -> Nat]
    OBVIOUS
  <2>2. Higher(up, k) \subseteq persons
    BY ParentsArePeople DEF Higher
  <2>3. climb(up, k) \in [S \cup Higher(up, k) -> Nat]
    BY <2>1 DEF climb
  <2>4. S \cup Higher(up, k) \in SUBSET persons
    BY <2>2
  <2> QED BY <2>3, <2>4
<1>5. PICK f : Built(f, n, start, D, g)
  <2> HIDE DEF D, g
  <2> QED BY <1>3, <1>4, StepByStep
<1>6. \A k \in 0..n : f[k] = IF k = 0 THEN start ELSE climb(f[k - 1], k)
  <2> TAKE k \in 0..n
  <2>1. k # 0 => k \in Nat /\ f[k - 1] \in D
    <3> HIDE DEF D, g
    <3>1. \A i \in 0..n : f[i] \in D
      BY <1>5 DEF Built
    <3>2. k # 0 => k - 1 \in 0..n
      OBVIOUS
    <3> QED BY <3>1, <3>2
  <2>2. f[k] = IF k = 0 THEN start ELSE g[<<k, f[k - 1]>>]
    <3> HIDE DEF D, g
    <3> QED BY <1>5 DEF Built
  <2>3. k # 0 => g[<<k, f[k - 1]>>] = climb(f[k - 1], k)
    <3> HIDE DEF D
    <3> QED BY <2>1
  <2> HIDE DEF D, g
  <2> QED BY <2>2, <2>3
<1>7. Climbs(f, p, n)
  <2>1. f = [k \in 0..n |-> f[k]]
    <3> HIDE DEF D, g
    <3> QED BY <1>5 DEF Built
  <2> HIDE DEF D, g
  <2> QED BY <1>2, <1>6, <2>1 DEF Climbs
<1> HIDE DEF D, g
<1> DEFINE met == CHOOSE h : Climbs(h, p, n)
<1>8. Climbs(met, p, n)
  BY <1>7
<1>9. ancestors(p) = met[n]
  BY <1>1 DEF ancestors, Climbs
<1> HIDE DEF met
<1>10. \A k \in 0..n : met[k] = IF k = 0 THEN start ELSE climb(met[k - 1], k)
  BY <1>2, <1>8 DEF Climbs
<1> DEFINE S == {k \in 0..n : Levels(met[k], p, k)}
<1>11. 0 \in S
  <2>1. Away(p, 0, Above) = {p}
    BY AboveIsWithin, AwaySteps
  <2>2. met[0] = start
    BY <1>10
  <2>3. Levels(start, p, 0)
    BY <1>2, <2>1 DEF Levels
  <2> QED BY <2>2, <2>3
<1>12. ASSUME NEW k \in 1..n, k - 1 \in S PROVE k \in S
  <2>1. met[k] = climb(met[k - 1], k) /\ k \in Nat /\ k > 0
    BY <1>10
  <2>2. Levels(met[k - 1], p, k - 1)
    BY <1>12
  <2> QED BY <2>1, <2>2, ClimbLevels
<1>13. 0..n \subseteq S
  <2> HIDE DEF S
  <2> QED BY <1>11, <1>12, UpTo
<1> QED BY <1>1, <1>9, <1>13

LEMMA BloodIsNearest ==
    ASSUME TreeOK, NEW a \in persons, NEW b \in persons, NEW meet,
           meet = {d \in Distances \X Distances :
                     Away(a, d[1], Above) \cap Away(b, d[2], Above) # {}}
    PROVE  /\ blood(a, b) \subseteq meet
           /\ meet # {} => blood(a, b) # {}
           /\ \A d \in meet, e \in blood(a, b) : e[1] + e[2] <= d[1] + d[2]
<1>1. PICK N \in Nat : N = Cardinality(persons) /\ Distances = 0..N
  BY PeopleCounted DEF Distances
<1>2. PICK up, across : up = ancestors(a) /\ across = ancestors(b)
  OBVIOUS
<1>3. /\ \A k \in 0..N : Away(a, k, Above) \subseteq DOMAIN up
      /\ \A x \in DOMAIN up : /\ up[x] \in 0..N /\ x \in Away(a, up[x], Above)
                              /\ \A k \in 0..N : x \in Away(a, k, Above) => up[x] <= k
  BY <1>1, <1>2, AncestorsHaveLevels DEF Levels
<1>4. /\ \A k \in 0..N : Away(b, k, Above) \subseteq DOMAIN across
      /\ \A x \in DOMAIN across : /\ across[x] \in 0..N /\ x \in Away(b, across[x], Above)
                                  /\ \A k \in 0..N : x \in Away(b, k, Above) => across[x] <= k
  BY <1>1, <1>2, AncestorsHaveLevels DEF Levels
<1> DEFINE common == DOMAIN up \cap DOMAIN across
           sum(c) == up[c] + across[c]
           far(c) == Larger(up[c], across[c])
           before(x, y) == sum(x) < sum(y) \/ (sum(x) = sum(y) /\ far(x) <= far(y))
           best == {x \in common : \A y \in common : before(x, y)}
<1>5. blood(a, b) = {<<up[c], across[c]>> : c \in best}
  BY <1>2 DEF blood
<1>6. \A c \in common : /\ up[c] \in 0..N /\ across[c] \in 0..N
                        /\ c \in Away(a, up[c], Above) \cap Away(b, across[c], Above)
                        /\ sum(c) \in Nat /\ far(c) \in Nat
  BY <1>3, <1>4 DEF Larger
<1>7. \A d \in meet : \E c \in common : sum(c) <= d[1] + d[2]
  <2> SUFFICES ASSUME NEW d \in meet PROVE \E c \in common : sum(c) <= d[1] + d[2]
    OBVIOUS
  <2>1. PICK i \in 0..N, j \in 0..N : d = <<i, j>>
    BY <1>1
  <2>2. PICK c : c \in Away(a, i, Above) /\ c \in Away(b, j, Above)
    BY <2>1
  <2>3. c \in common /\ up[c] <= i /\ across[c] <= j /\ up[c] \in 0..N /\ across[c] \in 0..N
    BY <1>3, <1>4, <2>2
  <2> QED BY <2>1, <2>3
<1>8. \A c \in best, y \in common : c \in common /\ sum(c) <= sum(y)
  <2> SUFFICES ASSUME NEW c \in best, NEW y \in common PROVE c \in common /\ sum(c) <= sum(y)
    OBVIOUS
  <2>1. c \in common /\ before(c, y) /\ sum(c) \in Nat /\ sum(y) \in Nat
    BY <1>6
  <2> HIDE DEF common, best, sum, far
  <2> QED BY <2>1
<1>9. common # {} => best # {}
  <2> SUFFICES ASSUME common # {} PROVE best # {}
    OBVIOUS
  <2> HIDE DEF common, sum, far
  <2> DEFINE T == {sum(x) : x \in common}
  <2>1. T \subseteq Nat /\ T # {}
    BY <1>6
  <2>2. PICK k \in T : \A m \in T : k <= m
    <3> HIDE DEF T
    <3> QED BY <2>1, Smallest
  <2> DEFINE near == {x \in common : sum(x) = k}
             U == {far(x) : x \in near}
  <2>3. U \subseteq Nat /\ U # {}
    BY <1>6, <2>2
  <2>4. PICK l \in U : \A m \in U : l <= m
    <3> HIDE DEF U
    <3> QED BY <2>3, Smallest
  <2>5. PICK x \in common : sum(x) = k /\ far(x) = l
    BY <2>4
  <2>6. ASSUME NEW y \in common PROVE before(x, y)
    <3>1. sum(x) <= sum(y) /\ sum(x) \in Nat /\ sum(y) \in Nat
      BY <1>6, <2>2, <2>5
    <3>2. sum(y) = sum(x) => far(x) <= far(y)
      BY <2>4, <2>5
    <3> QED BY <3>1, <3>2
  <2>7. x \in best
    BY <2>5, <2>6
  <2> QED BY <2>7
<1>10. blood(a, b) \subseteq meet
  <2> SUFFICES ASSUME NEW c \in best PROVE <<up[c], across[c]>> \in meet
    BY <1>5
  <2>1. c \in common
    OBVIOUS
  <2> HIDE DEF best, common
  <2>2. PICK i, j : i = up[c] /\ j = across[c]
    OBVIOUS
  <2>3. <<i, j>> \in Distances \X Distances /\ c \in Away(a, i, Above) \cap Away(b, j, Above)
    BY <1>1, <1>6, <2>1, <2>2
  <2> QED BY <2>2, <2>3
<1>11. meet # {} => blood(a, b) # {}
  <2> HIDE DEF best, common, sum
  <2> QED BY <1>5, <1>7, <1>9
<1>12. ASSUME NEW d \in meet, NEW e \in blood(a, b) PROVE e[1] + e[2] <= d[1] + d[2]
  <2>1. PICK c \in best : e = <<up[c], across[c]>>
    BY <1>5
  <2>2. PICK y \in common : sum(y) <= d[1] + d[2]
    BY <1>7
  <2>3. c \in common /\ sum(c) <= sum(y)
    BY <1>8
  <2>4. sum(c) \in Nat /\ sum(y) \in Nat /\ sum(c) = e[1] + e[2]
    BY <1>6, <2>1, <2>3
  <2>5. d[1] + d[2] \in Nat
    BY <1>1
  <2> HIDE DEF sum
  <2> QED BY <2>2, <2>3, <2>4, <2>5
<1> QED BY <1>10, <1>11, <1>12

LEMMA NearestFound == ASSUME TreeOK PROVE NearestAncestor
<1> SUFFICES ASSUME NEW a \in Compared, NEW b \in Compared, NEW meet,
                    meet = {d \in Distances \X Distances :
                              [p \in Compared |-> Pedigree(p)][a][d[1]]
                                \cap [p \in Compared |-> Pedigree(p)][b][d[2]] # {}}
             PROVE  /\ blood(a, b) \subseteq meet
                    /\ meet # {} => blood(a, b) # {}
                    /\ \A d \in meet, e \in blood(a, b) : e[1] + e[2] <= d[1] + d[2]
  BY DEF NearestAncestor
<1>1. a \in persons /\ b \in persons
  BY DEF Compared
<1>2. meet = {d \in Distances \X Distances : Away(a, d[1], Above) \cap Away(b, d[2], Above) # {}}
  BY DEF Pedigree
<1> QED BY <1>1, <1>2, BloodIsNearest

-----------------------------------------------------------------------------
\* The generations get_subgraph climbs are those above p, and it descends those below.
LEMMA BelowIsWithin == Below \in [persons -> SUBSET persons]
BY DEF Below, children

LEMMA UpAndDown ==
    ASSUME TreeOK, NEW S \in SUBSET persons
    PROVE  Up(S) = Onward(S, Above) /\ Down(S) = Onward(S, Below)
<1>1. Up(S) = Onward(S, Above)
  BY DEF Up, Onward, Above
<1>2. Down(S) \subseteq Onward(S, Below)
  <2> SUFFICES ASSUME NEW x \in S, NEW f \in SpouseIn(x), NEW c \in ChildrenOf(f) PROVE c \in children(x)
    BY DEF Down, Onward, Below
  <2>1. f \in family_rows /\ x \in {husband[f], wife[f]} /\ x # None /\ <<f, c>> \in child /\ c \in persons
    BY DEF SpouseIn, ChildrenOf, TreeOK
  <2>2. x \in Couple(f)
    BY <2>1 DEF Couple
  <2> QED BY <2>1, <2>2 DEF children, parents
<1>3. Onward(S, Below) \subseteq Down(S)
  <2> SUFFICES ASSUME NEW x \in S, NEW c \in children(x) PROVE c \in Down(S)
    BY DEF Onward, Below
  <2>1. PICK f \in family_rows : <<f, c>> \in child /\ x \in {husband[f], wife[f]} /\ c \in persons
    BY ParentsArePeople DEF children
  <2>2. f \in SpouseIn(x) /\ c \in ChildrenOf(f)
    BY <2>1 DEF SpouseIn, ChildrenOf
  <2> QED BY <2>2 DEF Down
<1> QED BY <1>1, <1>2, <1>3

Climbed(f, p, n)   == f = [k \in 0..n |-> IF k = 0 THEN {p} ELSE Up(f[k - 1])]
Descended(f, p, n) == f = [k \in 0..n |-> IF k = 0 THEN {p} ELSE Down(f[k - 1])]

LEMMA FrontiersAbove ==
    ASSUME TreeOK, NEW p \in persons, NEW n \in Nat
    PROVE  LET f == Frontiers(p, Up, n) IN f = [k \in 0..n |-> f[k]] /\ \A k \in 0..n : f[k] = Away(p, k, Above)
<1> DEFINE w == [k \in 0..n |-> Away(p, k, Above)]
<1>1. \A k \in 0..n : w[k] = IF k = 0 THEN {p} ELSE Up(w[k - 1])
  <2> TAKE k \in 0..n
  <2>1. Away(p, 0, Above) = {p}
    BY AboveIsWithin, AwaySteps
  <2>2. CASE k # 0
    <3>1. k - 1 \in Nat /\ k - 1 \in 0..n /\ (k - 1) + 1 = k
      BY <2>2
    <3>2. /\ Away(p, k - 1, Above) \in SUBSET persons
          /\ Away(p, k, Above) = Onward(Away(p, k - 1, Above), Above)
      BY <3>1, AboveIsWithin, AwaySteps
    <3>3. Away(p, k, Above) = Up(Away(p, k - 1, Above))
      BY <3>2, UpAndDown
    <3> QED BY <2>2, <3>1, <3>3
  <2> QED BY <2>1, <2>2
<1>2. w = [k \in 0..n |-> w[k]]
  OBVIOUS
<1>3. Climbed(w, p, n)
  <2> HIDE DEF w
  <2> QED BY <1>1, <1>2 DEF Climbed
<1> DEFINE h == CHOOSE f : Climbed(f, p, n)
<1>4. Climbed(h, p, n)
  BY <1>3
<1>5. Frontiers(p, Up, n) = h
  BY DEF Frontiers, Climbed
<1> HIDE DEF h
<1>6. h = [k \in 0..n |-> h[k]] /\ \A k \in 0..n : h[k] = IF k = 0 THEN {p} ELSE Up(h[k - 1])
  BY <1>4 DEF Climbed
<1> DEFINE S == {k \in 0..n : h[k] = w[k]}
<1>7. 0 \in S
  <2>1. h[0] = {p} /\ w[0] = {p} /\ 0 \in 0..n
    <3> HIDE DEF w
    <3>1. 0 \in 0..n
      OBVIOUS
    <3>2. \A k \in 0..n : k = 0 => h[k] = {p} /\ w[k] = {p}
      BY <1>1, <1>6
    <3> QED BY <3>1, <3>2
  <2> HIDE DEF w
  <2> QED BY <2>1
<1>8. ASSUME NEW k \in 1..n, k - 1 \in S PROVE k \in S
  <2> HIDE DEF w
  <2>1. h[k - 1] = w[k - 1] /\ k \in 0..n /\ k # 0
    BY <1>8
  <2>2. h[k] = Up(h[k - 1]) /\ w[k] = Up(w[k - 1])
    BY <1>1, <1>6, <2>1
  <2> QED BY <2>1, <2>2
<1>9. 0..n \subseteq S
  <2> HIDE DEF S
  <2> QED BY <1>7, <1>8, UpTo
<1> QED BY <1>5, <1>6, <1>9

LEMMA FrontiersBelow ==
    ASSUME TreeOK, NEW p \in persons, NEW n \in Nat
    PROVE  LET f == Frontiers(p, Down, n) IN f = [k \in 0..n |-> f[k]] /\ \A k \in 0..n : f[k] = Away(p, k, Below)
<1> DEFINE w == [k \in 0..n |-> Away(p, k, Below)]
<1>1. \A k \in 0..n : w[k] = IF k = 0 THEN {p} ELSE Down(w[k - 1])
  <2> TAKE k \in 0..n
  <2>1. Away(p, 0, Below) = {p}
    BY BelowIsWithin, AwaySteps
  <2>2. CASE k # 0
    <3>1. k - 1 \in Nat /\ k - 1 \in 0..n /\ (k - 1) + 1 = k
      BY <2>2
    <3>2. /\ Away(p, k - 1, Below) \in SUBSET persons
          /\ Away(p, k, Below) = Onward(Away(p, k - 1, Below), Below)
      BY <3>1, BelowIsWithin, AwaySteps
    <3>3. Away(p, k, Below) = Down(Away(p, k - 1, Below))
      BY <3>2, UpAndDown
    <3> QED BY <2>2, <3>1, <3>3
  <2> QED BY <2>1, <2>2
<1>2. w = [k \in 0..n |-> w[k]]
  OBVIOUS
<1>3. Descended(w, p, n)
  <2> HIDE DEF w
  <2> QED BY <1>1, <1>2 DEF Descended
<1> DEFINE h == CHOOSE f : Descended(f, p, n)
<1>4. Descended(h, p, n)
  BY <1>3
<1>5. Frontiers(p, Down, n) = h
  BY DEF Frontiers, Descended
<1> HIDE DEF h
<1>6. h = [k \in 0..n |-> h[k]] /\ \A k \in 0..n : h[k] = IF k = 0 THEN {p} ELSE Down(h[k - 1])
  BY <1>4 DEF Descended
<1> DEFINE S == {k \in 0..n : h[k] = w[k]}
<1>7. 0 \in S
  <2>1. h[0] = {p} /\ w[0] = {p} /\ 0 \in 0..n
    <3> HIDE DEF w
    <3>1. 0 \in 0..n
      OBVIOUS
    <3>2. \A k \in 0..n : k = 0 => h[k] = {p} /\ w[k] = {p}
      BY <1>1, <1>6
    <3> QED BY <3>1, <3>2
  <2> HIDE DEF w
  <2> QED BY <2>1
<1>8. ASSUME NEW k \in 1..n, k - 1 \in S PROVE k \in S
  <2> HIDE DEF w
  <2>1. h[k - 1] = w[k - 1] /\ k \in 0..n /\ k # 0
    BY <1>8
  <2>2. h[k] = Down(h[k - 1]) /\ w[k] = Down(w[k - 1])
    BY <1>1, <1>6, <2>1
  <2> QED BY <2>1, <2>2
<1>9. 0..n \subseteq S
  <2> HIDE DEF S
  <2> QED BY <1>7, <1>8, UpTo
<1> QED BY <1>5, <1>6, <1>9

LEMMA SubgraphWhole ==
    ASSUME TreeOK, NEW p \in persons, NEW depth \in Nat, depth > 0, NEW g, g = get_subgraph(p, depth)
    PROVE  /\ \A f \in DOMAIN g.families : Couple(f) \cup g.families[f] \subseteq g.persons
           /\ \A n \in 0..depth : Away(p, n, Above) \cup Away(p, n, Below) \subseteq g.persons
           /\ \A x \in g.persons : \/ x = p
                                   \/ \E f \in DOMAIN g.families : x \in Couple(f) \cup g.families[f]
           /\ \A f \in SpouseIn(p) : f \in DOMAIN g.families /\ g.families[f] = ChildrenOf(f)
<1>1. PICK above, below : above = Frontiers(p, Up, depth) /\ below = Frontiers(p, Down, depth)
  OBVIOUS
<1>2. \A k \in 0..depth : above[k] = Away(p, k, Above) /\ below[k] = Away(p, k, Below)
  BY <1>1, FrontiersAbove, FrontiersBelow
<1>3. PICK upper, lower, climbed :
          /\ upper = UNION {ChildIn(x) : x \in UNION {above[n] : n \in 0..(depth - 1)}}
          /\ lower = UNION {SpouseIn(x) : x \in UNION {below[n] : n \in 0..(depth - 1)}}
          /\ climbed = UNION {above[n] : n \in 0..(depth - 1)}
  OBVIOUS
<1>4. /\ g.persons = (UNION {above[n] \cup below[n] : n \in 0..depth}) \cup UNION {Couple(f) : f \in lower}
      /\ g.families = [f \in upper \cup lower |->
                          (ChildrenOf(f) \cap climbed) \cup {c \in ChildrenOf(f) : f \in lower}]
  BY <1>1, <1>3 DEF get_subgraph
<1>5. /\ above[0] = {p} /\ below[0] = {p}
      /\ \A k \in 0..depth : above[k] \subseteq persons /\ below[k] \subseteq persons
      /\ \A k \in 0..(depth - 1) : /\ k \in 0..depth /\ k + 1 \in 0..depth
                                   /\ above[k + 1] = Up(above[k]) /\ below[k + 1] = Down(below[k])
  <2>1. 0 \in 0..depth
    OBVIOUS
  <2>2. above[0] = {p} /\ below[0] = {p}
    BY <1>2, <2>1, AboveIsWithin, BelowIsWithin, AwaySteps
  <2>3. ASSUME NEW k \in 0..depth PROVE above[k] \subseteq persons /\ below[k] \subseteq persons
    BY <1>2, AboveIsWithin, BelowIsWithin, AwaySteps
  <2>4. ASSUME NEW k \in 0..(depth - 1)
        PROVE  /\ k \in 0..depth /\ k + 1 \in 0..depth
               /\ above[k + 1] = Up(above[k]) /\ below[k + 1] = Down(below[k])
    <3>1. k \in Nat /\ k \in 0..depth /\ k + 1 \in 0..depth
      OBVIOUS
    <3>2. above[k + 1] = Onward(above[k], Above) /\ below[k + 1] = Onward(below[k], Below)
      BY <1>2, <3>1, AboveIsWithin, BelowIsWithin, AwaySteps
    <3> QED BY <2>3, <3>1, <3>2, UpAndDown
  <2> QED BY <2>2, <2>3, <2>4
<1>6. /\ \A x : x \in climbed <=> \E k \in 0..(depth - 1) : x \in above[k]
      /\ \A f : f \in upper <=> \E k \in 0..(depth - 1) : \E x \in above[k] : f \in ChildIn(x)
      /\ \A f : f \in lower <=> \E k \in 0..(depth - 1) : \E x \in below[k] : f \in SpouseIn(x)
  BY <1>3
<1>40. g.persons = (UNION {above[n] \cup below[n] : n \in 0..depth}) \cup UNION {Couple(f) : f \in lower}
  BY <1>4, Zenon
<1>41. \A x : x \in g.persons <=> \/ \E k \in 0..depth : x \in above[k] \/ x \in below[k]
                                 \/ \E f \in lower : x \in Couple(f)
  <2>0. PICK U, V : U = UNION {above[n] \cup below[n] : n \in 0..depth} /\ V = UNION {Couple(f) : f \in lower}
    OBVIOUS
  <2>1. \A x : x \in U <=> \E k \in 0..depth : x \in above[k] \/ x \in below[k]
    BY <2>0
  <2>2. \A x : x \in V <=> \E f \in lower : x \in Couple(f)
    BY <2>0
  <2>3. g.persons = U \cup V
    BY <1>40, <2>0, Zenon
  <2> QED BY <2>1, <2>2, <2>3
<1>7. \A k \in 0..depth : above[k] \cup below[k] \subseteq g.persons
  BY <1>41
<1>8. \A k \in 0..depth : k = 0 \/ (k - 1 \in 0..(depth - 1) /\ (k - 1) + 1 = k)
  OBVIOUS
<1>9. /\ DOMAIN g.families = upper \cup lower
      /\ \A f \in lower : g.families[f] = ChildrenOf(f)
      /\ \A f \in upper : ChildrenOf(f) \cap climbed \subseteq g.families[f]
      /\ \A f \in upper \ lower : g.families[f] = ChildrenOf(f) \cap climbed
  BY <1>4
<1>10. ASSUME NEW f \in lower PROVE Couple(f) \cup ChildrenOf(f) \subseteq g.persons
  <2>1. PICK k \in 0..(depth - 1) : \E x \in below[k] : f \in SpouseIn(x)
    BY <1>6
  <2>2. ChildrenOf(f) \subseteq below[k + 1]
    BY <1>5, <2>1 DEF Down
  <2>3. ChildrenOf(f) \subseteq g.persons
    BY <1>5, <1>7, <2>2
  <2> QED BY <1>41, <2>3
<1>11. ASSUME NEW f \in upper PROVE Couple(f) \subseteq g.persons
  <2>0. PICK k \in 0..(depth - 1) : \E x \in above[k] : f \in ChildIn(x)
    BY <1>6
  <2>1. PICK x \in above[k] : f \in ChildIn(x)
    BY <2>0
  <2>2. Couple(f) \subseteq parents(x)
    BY <2>1 DEF ChildIn, parents
  <2>3. Couple(f) \subseteq above[k + 1]
    BY <1>5, <2>1, <2>2 DEF Up
  <2> QED BY <1>5, <1>7, <2>3
<1>12. climbed \subseteq g.persons
  BY <1>5, <1>6, <1>7
<1>13. \A f \in DOMAIN g.families : Couple(f) \cup g.families[f] \subseteq g.persons
  BY <1>9, <1>10, <1>11, <1>12
<1>14. ASSUME NEW x \in g.persons, x # p
       PROVE  \E f \in DOMAIN g.families : x \in Couple(f) \cup g.families[f]
  <2>1. (\E k \in 0..depth : x \in above[k] \/ x \in below[k]) \/ \E f \in lower : x \in Couple(f)
    BY <1>41, <1>14
  <2>2. ASSUME NEW k \in 0..depth, x \in above[k] PROVE \E f \in upper : x \in Couple(f)
    <3>1. k - 1 \in 0..(depth - 1) /\ above[k] = Up(above[k - 1])
      BY <1>5, <1>8, <1>14, <2>2
    <3>2. PICK y \in above[k - 1] : x \in parents(y)
      BY <2>2, <3>1 DEF Up
    <3>3. PICK f \in ChildIn(y) : x \in Couple(f)
      BY <3>2 DEF parents, ChildIn
    <3> QED BY <1>6, <3>1, <3>3
  <2>3. ASSUME NEW k \in 0..depth, x \in below[k] PROVE \E f \in lower : x \in ChildrenOf(f)
    <3>1. k - 1 \in 0..(depth - 1) /\ below[k] = Down(below[k - 1])
      BY <1>5, <1>8, <1>14, <2>3
    <3>2. PICK y, f : y \in below[k - 1] /\ f \in SpouseIn(y) /\ x \in ChildrenOf(f)
      BY <2>3, <3>1 DEF Down
    <3> QED BY <1>6, <3>1, <3>2
  <2> QED BY <1>9, <2>1, <2>2, <2>3
<1>15. \A f \in SpouseIn(p) : f \in lower
  <2>1. 0 \in 0..(depth - 1) /\ p \in below[0]
    BY <1>5
  <2> QED BY <1>6, <2>1
<1>16. \A n \in 0..depth : Away(p, n, Above) \cup Away(p, n, Below) \subseteq g.persons
  BY <1>2, <1>7
<1> QED BY <1>9, <1>13, <1>14, <1>15, <1>16

LEMMA DrawingIsWhole == ASSUME TreeOK PROVE SubgraphIsWhole
<1> SUFFICES ASSUME NEW p \in Compared, NEW depth \in {1, 2}, NEW g, g = get_subgraph(p, depth)
             PROVE  /\ \A f \in DOMAIN g.families : Couple(f) \cup g.families[f] \subseteq g.persons
                    /\ \A n \in 0..depth : Away(p, n, Above) \cup Away(p, n, Below) \subseteq g.persons
                    /\ \A x \in g.persons : \/ x = p
                                            \/ \E f \in DOMAIN g.families : x \in Couple(f) \cup g.families[f]
                    /\ \A f \in SpouseIn(p) : f \in DOMAIN g.families /\ g.families[f] = ChildrenOf(f)
  BY DEF SubgraphIsWhole
<1>1. p \in persons /\ depth \in Nat /\ depth > 0
  BY DEF Compared
<1> QED BY <1>1, SubgraphWhole

-----------------------------------------------------------------------------
\* Labels.
LEMMA LabelTurned ==
    ASSUME NEW a, NEW b, NEW i \in Nat, NEW j \in Nat
    PROVE  label(b, a, <<j, i>>) = turned(label(a, b, <<i, j>>))
<1>0. half(a, b) <=> half(b, a)
  <2>1. parents(a) \cap parents(b) = parents(b) \cap parents(a)
    OBVIOUS
  <2> QED BY <2>1 DEF half
<1>1. CASE i = 0 /\ j = 0
  <2>1. label(b, a, <<j, i>>) = <<"self", 0>> /\ label(a, b, <<i, j>>) = <<"self", 0>>
    BY <1>1 DEF label
  <2>2. turned(<<"self", 0>>) = <<"self", 0>>
    BY DEF turned
  <2> QED BY <2>1, <2>2
<1>2. CASE j = 0 /\ i # 0
  BY <1>2 DEF label, turned
<1>3. CASE i = 0 /\ j # 0
  BY <1>3 DEF label, turned
<1>4. CASE i = 1 /\ j = 1
  <2>1. PICK l : l = label(a, b, <<i, j>>)
    OBVIOUS
  <2>2. l \in {<<"half sibling", 1>>, <<"sibling", 1>>} /\ label(b, a, <<j, i>>) = l
    <3>1. label(a, b, <<1, 1>>) = IF half(a, b) THEN <<"half sibling", 1>> ELSE <<"sibling", 1>>
      BY DEF label
    <3>2. label(b, a, <<1, 1>>) = IF half(b, a) THEN <<"half sibling", 1>> ELSE <<"sibling", 1>>
      BY DEF label
    <3> QED BY <1>0, <1>4, <2>1, <3>1, <3>2
  <2>3. turned(<<"half sibling", 1>>) = <<"half sibling", 1>> /\ turned(<<"sibling", 1>>) = <<"sibling", 1>>
    BY DEF turned
  <2> QED BY <2>1, <2>2, <2>3
<1>5. CASE i # 0 /\ j = 1 /\ i # 1
  BY <1>5 DEF label, turned
<1>6. CASE j # 0 /\ i = 1 /\ j # 1
  BY <1>6 DEF label, turned
<1>7. CASE i \notin {0, 1} /\ j \notin {0, 1}
  BY <1>7 DEF label, turned
<1> QED BY <1>1, <1>2, <1>3, <1>4, <1>5, <1>6, <1>7

-----------------------------------------------------------------------------
\* f is a family of p in which q is the other one.
Wed(f, p, q) == IF husband[f] = p THEN wife[f] = q ELSE wife[f] = p /\ husband[f] = q

\* The panels of two people.
LEMMA PanelsTell ==
    ASSUME NEW a, NEW here, here = get_person_detail(a)
    PROVE  /\ \A b : b \in here.parents <=> b \in parents(a)
           /\ \A b : b \in here.siblings <=> b # a /\ \E f \in family_rows : <<f, a>> \in child /\ <<f, b>> \in child /\ b \in persons
           /\ \A b : b \in here.children <=> b \in persons /\ \E f \in family_rows : <<f, b>> \in child /\ a \in {husband[f], wife[f]}
           /\ \A b : b \in here.spouses <=> b # None /\ \E f \in family_rows : Wed(f, a, b)
<1>1. /\ here.parents = UNION {Couple(f) : f \in ChildIn(a)}
      /\ here.siblings = (UNION {ChildrenOf(f) : f \in ChildIn(a)}) \ {a}
      /\ here.spouses = {IF husband[f] = a THEN wife[f] ELSE husband[f] : f \in SpouseIn(a)} \ {None}
      /\ here.children = UNION {ChildrenOf(f) : f \in SpouseIn(a)}
  BY DEF get_person_detail
<1>2. \A b : b \in here.parents <=> b \in parents(a)
  BY <1>1 DEF ChildIn, parents
<1>3. \A b : b \in here.siblings <=> b # a /\ \E f \in family_rows : <<f, a>> \in child /\ <<f, b>> \in child /\ b \in persons
  <2>1. \A b : b \in here.siblings <=> b # a /\ \E f \in ChildIn(a) : b \in ChildrenOf(f)
    BY <1>1
  <2> QED BY <2>1 DEF ChildIn, ChildrenOf
<1>4. \A b : b \in here.children <=> b \in persons /\ \E f \in family_rows : <<f, b>> \in child /\ a \in {husband[f], wife[f]}
  <2>1. \A b : b \in here.children <=> \E f \in SpouseIn(a) : b \in ChildrenOf(f)
    BY <1>1
  <2> QED BY <2>1 DEF SpouseIn, ChildrenOf
<1>5. \A b : b \in here.spouses <=> b # None /\ \E f \in family_rows : Wed(f, a, b)
  <2>1. \A b : b \in here.spouses <=>
                  b # None /\ \E f \in SpouseIn(a) : b = IF husband[f] = a THEN wife[f] ELSE husband[f]
    BY <1>1
  <2>2. \A f : f \in SpouseIn(a) <=> f \in family_rows /\ (husband[f] = a \/ wife[f] = a)
    BY DEF SpouseIn
  <2>3. ASSUME NEW b, NEW f \in family_rows
        PROVE  (f \in SpouseIn(a) /\ b = IF husband[f] = a THEN wife[f] ELSE husband[f])
                  <=> Wed(f, a, b)
    BY <2>2 DEF Wed
  <2>4. \A f \in SpouseIn(a) : f \in family_rows
    BY <2>2
  <2>5. ASSUME NEW b
        PROVE  b \in here.spouses <=>
                  b # None /\ \E f \in family_rows : Wed(f, a, b)
    BY <2>1, <2>3, <2>4, Zenon
  <2> QED BY <2>5
<1> QED BY <1>2, <1>3, <1>4, <1>5

\* Who has a common ancestor no more than two generations away in all is called so.
LEMMA NearOnes ==
    ASSUME TreeOK, NEW a \in persons, NEW b \in persons, a # b,
           b \in parents(a) \/ parents(a) \cap parents(b) # {}
    PROVE  /\ blood(a, b) # {}
           /\ \A e \in blood(a, b) : e \in Nat \X Nat /\ e # <<0, 0>> /\ e[1] + e[2] <= 2
           /\ b \in parents(a) => \A e \in blood(a, b) : e[1] + e[2] <= 1
<1>1. PICK N \in Nat : N = Cardinality(persons) /\ Distances = 0..N
  BY PeopleCounted DEF Distances
<1>2. 0 \in Distances /\ 1 \in Distances /\ Distances \subseteq Nat
  <2>1. N # 0
    BY <1>1, FS_EmptySet DEF TreeOK
  <2> QED BY <1>1, <2>1
<1>3. /\ Away(a, 0, Above) = {a} /\ Away(b, 0, Above) = {b}
      /\ Away(a, 1, Above) = parents(a) /\ Away(b, 1, Above) = parents(b)
  <2> SUFFICES ASSUME NEW x \in persons PROVE Away(x, 0, Above) = {x} /\ Away(x, 1, Above) = parents(x)
    OBVIOUS
  <2>1. Away(x, 0, Above) = {x} /\ Away(x, 0 + 1, Above) = Onward(Away(x, 0, Above), Above)
    BY AboveIsWithin, AwaySteps, 0 \in Nat
  <2>2. Onward({x}, Above) = parents(x)
    BY DEF Onward, Above
  <2> QED BY <2>1, <2>2
<1>4. PICK meet : meet = {d \in Distances \X Distances : Away(a, d[1], Above) \cap Away(b, d[2], Above) # {}}
  OBVIOUS
<1>5. /\ blood(a, b) \subseteq meet
      /\ meet # {} => blood(a, b) # {}
      /\ \A d \in meet, e \in blood(a, b) : e[1] + e[2] <= d[1] + d[2]
  BY <1>4, BloodIsNearest
<1>6. b \in parents(a) => <<1, 0>> \in meet
  BY <1>2, <1>3, <1>4
<1>7. parents(a) \cap parents(b) # {} => <<1, 1>> \in meet
  BY <1>2, <1>3, <1>4
<1>8. <<0, 0>> \notin meet /\ meet \subseteq Nat \X Nat
  BY <1>2, <1>3, <1>4
<1>9. \A e \in blood(a, b) : e \in Nat \X Nat /\ e # <<0, 0>>
  BY <1>5, <1>8
<1>10. b \in parents(a) => \A e \in blood(a, b) : e[1] + e[2] <= 1
  <2> SUFFICES ASSUME b \in parents(a), NEW e \in blood(a, b) PROVE e[1] + e[2] <= 1
    OBVIOUS
  <2>1. e[1] + e[2] <= <<1, 0>>[1] + <<1, 0>>[2]
    BY <1>5, <1>6
  <2> QED BY <2>1
<1>11. parents(a) \cap parents(b) # {} => \A e \in blood(a, b) : e[1] + e[2] <= 2
  <2> SUFFICES ASSUME parents(a) \cap parents(b) # {}, NEW e \in blood(a, b) PROVE e[1] + e[2] <= 2
    OBVIOUS
  <2>1. e[1] + e[2] <= <<1, 1>>[1] + <<1, 1>>[2]
    BY <1>5, <1>7
  <2> QED BY <2>1
<1>12. \A e \in blood(a, b) : e[1] + e[2] <= 2
  <2> TAKE e \in blood(a, b)
  <2>1. e[1] \in Nat /\ e[2] \in Nat
    BY <1>9
  <2> QED BY <1>10, <1>11, <2>1
<1> QED BY <1>5, <1>6, <1>7, <1>9, <1>10, <1>12

LEMMA NearLabels ==
    ASSUME NEW a, NEW b, NEW i \in Nat, NEW j \in Nat, <<i, j>> # <<0, 0>>, i + j <= 2
    PROVE  /\ label(a, b, <<i, j>>)[1] \in {"ancestor", "descendant", "half sibling", "sibling"}
           /\ i + j <= 1 => label(a, b, <<i, j>>)[1] \in {"ancestor", "descendant"}
<1>1. CASE j = 0
  BY <1>1 DEF label
<1>2. CASE i = 0 /\ j # 0
  BY <1>2 DEF label
<1>3. CASE i = 1 /\ j = 1
  <2>1. label(a, b, <<1, 1>>) \in {<<"half sibling", 1>>, <<"sibling", 1>>}
    BY DEF label
  <2>2. PICK l : l = label(a, b, <<1, 1>>)
    OBVIOUS
  <2>3. l = <<"half sibling", 1>> \/ l = <<"sibling", 1>>
    BY <2>1, <2>2
  <2>6. <<"half sibling", 1>>[1] = "half sibling" /\ <<"sibling", 1>>[1] = "sibling"
    OBVIOUS
  <2>4. l[1] = "half sibling" \/ l[1] = "sibling"
    BY <2>3, <2>6, Zenon
  <2>5. label(a, b, <<i, j>>) = l /\ i + j = 2
    BY <1>3, <2>2
  <2>7. label(a, b, <<i, j>>)[1] = l[1]
    BY <2>5, Zenon
  <2>8. label(a, b, <<i, j>>)[1] \in {"ancestor", "descendant", "half sibling", "sibling"}
    BY <2>4, <2>7
  <2>9. ~(i + j <= 1)
    BY <2>5
  <2> QED BY <2>8, <2>9, Zenon
<1>4. j = 0 \/ (i = 0 /\ j # 0) \/ (i = 1 /\ j = 1)
  OBVIOUS
<1> QED BY <1>1, <1>2, <1>3, <1>4

LEMMA CalledByBlood ==
    ASSUME NEW a, NEW b, a # b, blood(a, b) # {}
    PROVE  get_relationship(a, b) = {label(a, b, d) : d \in blood(a, b)}
BY DEF get_relationship

Agree(a, b, here, there, called) ==
    /\ b \in here.parents <=> a \in there.children
    /\ b \in here.siblings <=> a \in there.siblings
    /\ b \in here.spouses <=> a \in there.spouses
    /\ b \in here.spouses => \E g \in get_person_families(a) : g.spouse = b
    /\ (a # b /\ b \in here.parents /\ a \notin here.parents) =>
            called \cap {"ancestor", "descendant"} # {}
    /\ (a # b /\ b \in here.siblings /\ here.parents # {} /\ there.parents # {}
         /\ {a, b} \cap OwnAncestors = {}) =>
            \/ called \cap {"sibling", "half sibling", "ancestor", "descendant"} # {}
            \/ \A f \in ChildIn(a) \cap ChildIn(b) : Couple(f) = {}

LEMMA TwoAgree ==
    ASSUME TreeOK, NEW a \in Compared, NEW b \in Compared, NEW here, NEW there, NEW called,
           here = get_person_detail(a), there = get_person_detail(b),
           called = {l[1] : l \in get_relationship(a, b)}
    PROVE  Agree(a, b, here, there, called)
<1>1. a \in persons /\ b \in persons /\ a # None /\ b # None
  BY DEF Compared, TreeOK
<1>2. b \in here.parents <=> a \in there.children
  <2>1. b \in here.parents <=> b \in parents(a)
    BY PanelsTell
  <2>2. a \in there.children <=> a \in persons /\ \E f \in family_rows : <<f, a>> \in child /\ b \in {husband[f], wife[f]}
    BY PanelsTell
  <2>3. b \in parents(a) <=> \E f \in family_rows : <<f, a>> \in child /\ b \in Couple(f)
    BY DEF parents
  <2> QED BY <1>1, <2>1, <2>2, <2>3 DEF Couple
<1>3. b \in here.siblings <=> a \in there.siblings
  <2>1. b \in here.siblings <=> b # a /\ \E f \in family_rows : <<f, a>> \in child /\ <<f, b>> \in child /\ b \in persons
    BY PanelsTell
  <2>2. a \in there.siblings <=> a # b /\ \E f \in family_rows : <<f, b>> \in child /\ <<f, a>> \in child /\ a \in persons
    BY PanelsTell
  <2> QED BY <1>1, <2>1, <2>2
<1>4. b \in here.spouses <=> a \in there.spouses
  <2>1. b \in here.spouses <=> b # None /\ \E f \in family_rows : Wed(f, a, b)
    BY PanelsTell
  <2>2. a \in there.spouses <=> a # None /\ \E f \in family_rows : Wed(f, b, a)
    BY PanelsTell
  <2>3. \A f : Wed(f, a, b) <=> Wed(f, b, a)
    BY DEF Wed
  <2> QED BY <1>1, <2>1, <2>2, <2>3
<1>5. b \in here.spouses => \E g \in get_person_families(a) : g.spouse = b
  <2> SUFFICES ASSUME b \in here.spouses PROVE \E g \in get_person_families(a) : g.spouse = b
    OBVIOUS
  <2>1. PICK f \in family_rows : Wed(f, a, b)
    BY PanelsTell
  <2>4. b = (IF husband[f] = a THEN wife[f] ELSE husband[f]) /\ (husband[f] = a \/ wife[f] = a)
    BY <2>1 DEF Wed
  <2>2. PICK g : g = [spouse |-> IF husband[f] = a THEN wife[f] ELSE husband[f],
                      children_count |-> Cardinality(ChildrenOf(f)), id |-> f]
    OBVIOUS
  <2>3. g \in get_person_families(a)
    BY <2>2, <2>4 DEF get_person_families, SpouseIn
  <2> QED BY <2>2, <2>3, <2>4
<1>6. ASSUME a # b, b \in parents(a) PROVE called \cap {"ancestor", "descendant"} # {}
  <2>1. PICK e \in blood(a, b) : e \in Nat \X Nat /\ e # <<0, 0>> /\ e[1] + e[2] <= 1
    BY <1>1, <1>6, NearOnes
  <2>2. PICK i \in Nat, j \in Nat : e = <<i, j>>
    BY <2>1
  <2>3. label(a, b, e)[1] \in {"ancestor", "descendant"}
    <3>1. i + j <= 1 /\ i + j <= 2 /\ <<i, j>> # <<0, 0>>
      BY <2>1, <2>2
    <3> QED BY <2>2, <3>1, NearLabels
  <2>4. label(a, b, e) \in get_relationship(a, b)
    BY <1>6, CalledByBlood
  <2> QED BY <2>3, <2>4
<1>7. ASSUME a # b, NEW f \in ChildIn(a) \cap ChildIn(b), Couple(f) # {}
      PROVE  called \cap {"sibling", "half sibling", "ancestor", "descendant"} # {}
  <2>0. parents(a) \cap parents(b) # {}
    BY <1>7 DEF ChildIn, parents
  <2>1. PICK e \in blood(a, b) : e \in Nat \X Nat /\ e # <<0, 0>> /\ e[1] + e[2] <= 2
    BY <1>1, <1>7, <2>0, NearOnes
  <2>2. PICK i \in Nat, j \in Nat : e = <<i, j>>
    BY <2>1
  <2>3. label(a, b, e)[1] \in {"ancestor", "descendant", "half sibling", "sibling"}
    BY <2>1, <2>2, NearLabels
  <2>4. label(a, b, e) \in get_relationship(a, b)
    BY <1>7, CalledByBlood
  <2> QED BY <2>3, <2>4
<1>8. b \in here.parents => b \in parents(a)
  BY PanelsTell
<1> QED BY <1>2, <1>3, <1>4, <1>5, <1>6, <1>7, <1>8 DEF Agree

LEMMA PanelsAgree == ASSUME TreeOK PROVE DetailsAgree
<1>1. ASSUME NEW a \in Compared, NEW b \in Compared
      PROVE  Agree(a, b, get_person_detail(a), get_person_detail(b), {l[1] : l \in get_relationship(a, b)})
  BY TwoAgree
<1> QED BY <1>1, Zenon DEF DetailsAgree, Agree

-----------------------------------------------------------------------------
\* The edges of a person are visited one after the other, in the order they are chosen in.
Chosen(X) == CHOOSE e \in X : TRUE
Visiting(f, s, from, E) ==
    f = [X \in SUBSET E |-> IF X = {} THEN s ELSE visit(f[X \ {Chosen(X)}], Chosen(X), from)]
Visited(f, s, from, E, n) ==
    \A X \in SUBSET E : Cardinality(X) <= n =>
        f[X] = IF X = {} THEN s ELSE visit(f[X \ {Chosen(X)}], Chosen(X), from)

visits(s, E, from) == FoldSet(LAMBDA edge, t : visit(t, edge, from), s, E)

LEMMA Folded ==
    ASSUME NEW s, NEW E, NEW from
    PROVE  visits(s, E, from) = (CHOOSE f : Visiting(f, s, from, E))[E]
BY DEF visits, FoldSet, MapThenFoldSet, Visiting, Chosen

\* The smaller sets of edges.
LEMMA OneLess ==
    ASSUME NEW E, IsFiniteSet(E), NEW X \in SUBSET E
    PROVE  /\ IsFiniteSet(X) /\ Cardinality(X) \in Nat /\ Cardinality(X) <= Cardinality(E)
           /\ X # {} => /\ Chosen(X) \in X /\ X \ {Chosen(X)} \in SUBSET E
                        /\ Cardinality(X \ {Chosen(X)}) = Cardinality(X) - 1
                        /\ Cardinality(X) # 0
           /\ X = {} => Cardinality(X) = 0
<1>1. IsFiniteSet(X) /\ Cardinality(X) \in Nat /\ Cardinality(X) <= Cardinality(E)
  BY FS_Subset, FS_CardinalityType
<1>2. ASSUME X # {} PROVE Chosen(X) \in X /\ X \ {Chosen(X)} \in SUBSET E
  BY <1>2 DEF Chosen
<1>3. ASSUME X # {} PROVE Cardinality(X \ {Chosen(X)}) = Cardinality(X) - 1 /\ Cardinality(X) # 0
  BY <1>1, <1>2, <1>3, FS_RemoveElement, FS_EmptySet
<1> QED BY <1>1, <1>2, <1>3, FS_EmptySet

LEMMA VisitsAreMade ==
    ASSUME NEW s, NEW E, IsFiniteSet(E), NEW from
    PROVE  \E f : /\ Visiting(f, s, from, E)
                  /\ visits(s, E, from) = f[E]
<1> DEFINE N == Cardinality(E)
           S == {n \in 0..N : \E f : f = [X \in SUBSET E |-> f[X]] /\ Visited(f, s, from, E, n)}
<1>0. N \in Nat
  BY FS_CardinalityType
<1>1. 0 \in S
  <2> DEFINE f == [X \in SUBSET E |-> s]
  <2>1. f = [X \in SUBSET E |-> f[X]]
    OBVIOUS
  <2>2. Visited(f, s, from, E, 0)
    BY OneLess DEF Visited
  <2> HIDE DEF f
  <2> QED BY <1>0, <2>1, <2>2
<1>2. ASSUME NEW n \in 1..N, n - 1 \in S PROVE n \in S
  <2>1. PICK f : f = [X \in SUBSET E |-> f[X]] /\ Visited(f, s, from, E, n - 1)
    BY <1>2
  <2> DEFINE h == [X \in SUBSET E |-> IF Cardinality(X) = n
                                      THEN visit(f[X \ {Chosen(X)}], Chosen(X), from) ELSE f[X]]
  <2>2. h = [X \in SUBSET E |-> h[X]]
    OBVIOUS
  <2>3. \A X \in SUBSET E : h[X] = IF Cardinality(X) = n
                                    THEN visit(f[X \ {Chosen(X)}], Chosen(X), from) ELSE f[X]
    OBVIOUS
  <2> HIDE DEF h
  <2>4. ASSUME NEW X \in SUBSET E, Cardinality(X) <= n
        PROVE  h[X] = IF X = {} THEN s ELSE visit(h[X \ {Chosen(X)}], Chosen(X), from)
    <3>0. /\ Cardinality(X) \in Nat
          /\ X # {} => X \ {Chosen(X)} \in SUBSET E /\ Cardinality(X \ {Chosen(X)}) = Cardinality(X) - 1
          /\ X = {} => Cardinality(X) = 0
      BY OneLess
    <3>1. CASE X = {}
      <4>1. Cardinality(X) # n /\ Cardinality(X) <= n - 1
        BY <3>0, <3>1
      <4> QED BY <2>1, <2>3, <3>1, <4>1 DEF Visited
    <3>2. CASE X # {} /\ Cardinality(X) = n
      <4>1. h[X \ {Chosen(X)}] = f[X \ {Chosen(X)}]
        <5>1. Cardinality(X \ {Chosen(X)}) # n
          BY <3>0, <3>2
        <5> QED BY <2>3, <3>0, <3>2, <5>1
      <4> QED BY <2>3, <3>2, <4>1
    <3>3. CASE X # {} /\ Cardinality(X) # n
      <4>1. h[X \ {Chosen(X)}] = f[X \ {Chosen(X)}]
        <5>1. Cardinality(X \ {Chosen(X)}) # n
          BY <2>4, <3>0, <3>3
        <5> QED BY <2>3, <3>0, <3>3, <5>1
      <4>2. h[X] = f[X]
        BY <2>3, <3>3
      <4>3. Cardinality(X) <= n - 1
        BY <2>4, <3>0, <3>3
      <4>4. f[X] = visit(f[X \ {Chosen(X)}], Chosen(X), from)
        BY <2>1, <3>3, <4>3 DEF Visited
      <4> QED BY <3>3, <4>1, <4>2, <4>4
    <3> QED BY <3>1, <3>2, <3>3
  <2>5. Visited(h, s, from, E, n)
    BY <2>4 DEF Visited
  <2> QED BY <2>2, <2>5
<1>3. N \in S
  <2> HIDE DEF S, N
  <2>1. 0..N \subseteq S
    BY <1>0, <1>1, <1>2, UpTo
  <2> QED BY <1>0, <2>1
<1>4. PICK f : f = [X \in SUBSET E |-> f[X]] /\ Visited(f, s, from, E, N)
  BY <1>3
<1>5. Visiting(f, s, from, E)
  <2>1. \A X \in SUBSET E : f[X] = IF X = {} THEN s ELSE visit(f[X \ {Chosen(X)}], Chosen(X), from)
    BY <1>4, OneLess DEF Visited
  <2> QED BY <1>4, <2>1 DEF Visiting
<1> DEFINE g == CHOOSE h : Visiting(h, s, from, E)
<1>6. Visiting(g, s, from, E)
  BY <1>5
<1> QED BY <1>6, Folded

\* What visiting the edges X of a person did to the queue and to prev.
Unseen(s, X) == {e[1] : e \in X} \ DOMAIN s.prev
AfterVisits(t, s, X, from) ==
    /\ t.queue \in Seq(persons) /\ Len(s.queue) <= Len(t.queue)
    /\ DOMAIN t.prev = DOMAIN s.prev \cup Unseen(s, X)
    /\ \A x \in DOMAIN s.prev : t.prev[x] = s.prev[x]
    /\ \A x \in Unseen(s, X) : t.prev[x][1] = from
    /\ \A i \in 1..Len(s.queue) : t.queue[i] = s.queue[i]
    /\ \A i \in (Len(s.queue) + 1)..Len(t.queue) : t.queue[i] \in Unseen(s, X)
    /\ \A i, j \in (Len(s.queue) + 1)..Len(t.queue) : i # j => t.queue[i] # t.queue[j]
    /\ \A x \in Unseen(s, X) : \E i \in (Len(s.queue) + 1)..Len(t.queue) : t.queue[i] = x

LEMMA OneVisit ==
    ASSUME NEW s, s.queue \in Seq(persons), NEW X, NEW e \in X, e[1] \in persons, NEW from, NEW t,
           AfterVisits(t, s, X \ {e}, from)
    PROVE  AfterVisits(visit(t, e, from), s, X, from)
<1> DEFINE Y == X \ {e}
<1>1. Unseen(s, X) = Unseen(s, Y) \cup ({e[1]} \ DOMAIN s.prev)
  BY DEF Unseen
<1>2. CASE e[1] \in DOMAIN t.prev
  <2>1. visit(t, e, from) = t
    BY <1>2 DEF visit
  <2>2. Unseen(s, X) = Unseen(s, Y)
    <3>1. e[1] \in DOMAIN s.prev \cup Unseen(s, Y)
      BY <1>2 DEF AfterVisits
    <3> QED BY <1>1, <3>1
  <2> QED BY <2>1, <2>2 DEF AfterVisits
<1>3. CASE e[1] \notin DOMAIN t.prev
  <2> DEFINE u == visit(t, e, from)
  <2>1. /\ u.queue = Append(t.queue, e[1])
        /\ u.prev = [x \in DOMAIN t.prev \cup {e[1]} |->
                        IF x \in DOMAIN t.prev THEN t.prev[x] ELSE <<from, e[2]>>]
    BY <1>3 DEF visit
  <2>2. /\ DOMAIN u.prev = DOMAIN t.prev \cup {e[1]}
        /\ \A x \in DOMAIN t.prev : u.prev[x] = t.prev[x]
        /\ u.prev[e[1]] = <<from, e[2]>>
    BY <1>3, <2>1
  <2> HIDE DEF u
  <2>3. /\ DOMAIN t.prev = DOMAIN s.prev \cup Unseen(s, Y)
        /\ Unseen(s, X) = Unseen(s, Y) \cup {e[1]} /\ e[1] \notin Unseen(s, Y) /\ e[1] \notin DOMAIN s.prev
    BY <1>1, <1>3 DEF AfterVisits
  <2>4. PICK m \in Nat, n \in Nat : m = Len(s.queue) /\ n = Len(t.queue) /\ m <= n /\ t.queue \in Seq(persons)
    BY DEF AfterVisits
  <2>5. /\ u.queue \in Seq(persons) /\ Len(u.queue) = n + 1
        /\ \A i \in 1..n : u.queue[i] = t.queue[i]
        /\ u.queue[n + 1] = e[1]
    BY <2>1, <2>4
  <2>6. /\ \A i \in 1..m : t.queue[i] = s.queue[i]
        /\ \A i \in (m + 1)..n : t.queue[i] \in Unseen(s, Y)
        /\ \A i, j \in (m + 1)..n : i # j => t.queue[i] # t.queue[j]
        /\ \A x \in Unseen(s, Y) : \E i \in (m + 1)..n : t.queue[i] = x
    BY <2>4 DEF AfterVisits
  <2>7. \A i \in (m + 1)..(n + 1) : i = n + 1 \/ (i \in (m + 1)..n /\ i \in 1..n)
    BY <2>4
  <2>8. /\ DOMAIN u.prev = DOMAIN s.prev \cup Unseen(s, X)
        /\ \A x \in DOMAIN s.prev : u.prev[x] = s.prev[x]
    BY <2>2, <2>3 DEF AfterVisits
  <2>9. \A x \in Unseen(s, X) : u.prev[x][1] = from
    <3>1. \A x \in Unseen(s, Y) : t.prev[x][1] = from
      BY DEF AfterVisits
    <3>2. \A x \in Unseen(s, Y) : u.prev[x] = t.prev[x]
      BY <2>2, <2>3
    <3>3. u.prev[e[1]][1] = from
      BY <2>2
    <3>4. \A x \in Unseen(s, Y) : u.prev[x][1] = from
      BY <3>1, <3>2, Zenon
    <3>5. \A x \in Unseen(s, X) : x \in Unseen(s, Y) \/ x = e[1]
      BY <2>3
    <3> QED BY <3>3, <3>4, <3>5, Zenon
  <2>10. \A i \in 1..m : u.queue[i] = s.queue[i]
    BY <2>4, <2>5, <2>6
  <2>11. \A i \in (m + 1)..(n + 1) : u.queue[i] \in Unseen(s, X)
    BY <2>3, <2>5, <2>6, <2>7
  <2>12. \A i, j \in (m + 1)..(n + 1) : i # j => u.queue[i] # u.queue[j]
    BY <2>3, <2>5, <2>6, <2>7
  <2>13. \A x \in Unseen(s, X) : \E i \in (m + 1)..(n + 1) : u.queue[i] = x
    <3> TAKE x \in Unseen(s, X)
    <3>1. CASE x = e[1]
      <4>1. n + 1 \in (m + 1)..(n + 1)
        BY <2>4
      <4> QED BY <2>5, <3>1, <4>1
    <3>2. CASE x # e[1]
      <4>1. PICK i \in (m + 1)..n : t.queue[i] = x
        BY <2>3, <2>6, <3>2
      <4>2. i \in (m + 1)..(n + 1) /\ i \in 1..n
        BY <2>4
      <4> QED BY <2>5, <4>1, <4>2
    <3> QED BY <3>1, <3>2
  <2>14. m <= n + 1
    BY <2>4
  <2>15. AfterVisits(u, s, X, from)
    BY <2>4, <2>5, <2>8, <2>9, <2>10, <2>11, <2>12, <2>13, <2>14 DEF AfterVisits
  <2> QED BY <2>15 DEF u
<1> QED BY <1>2, <1>3

LEMMA VisitsDo ==
    ASSUME NEW s, s.queue \in Seq(persons), NEW E, IsFiniteSet(E), \A e \in E : e[1] \in persons, NEW from
    PROVE  AfterVisits(visits(s, E, from), s, E, from)
<1>1. PICK f : Visiting(f, s, from, E) /\ visits(s, E, from) = f[E]
  BY VisitsAreMade
<1>2. \A X \in SUBSET E : f[X] = IF X = {} THEN s ELSE visit(f[X \ {Chosen(X)}], Chosen(X), from)
  BY <1>1 DEF Visiting
<1> DEFINE N == Cardinality(E)
           S == {n \in 0..N : \A X \in SUBSET E : Cardinality(X) = n => AfterVisits(f[X], s, X, from)}
<1>0. N \in Nat
  BY FS_CardinalityType
<1>3. 0 \in S
  <2> SUFFICES ASSUME NEW X \in SUBSET E, Cardinality(X) = 0 PROVE AfterVisits(f[X], s, X, from)
    BY <1>0
  <2>1. X = {}
    BY OneLess
  <2>2. f[X] = s
    BY <1>2, <2>1
  <2>3. Unseen(s, X) = {}
    BY <2>1 DEF Unseen
  <2>4. Len(s.queue) \in Nat
    OBVIOUS
  <2> QED BY <2>2, <2>3, <2>4 DEF AfterVisits
<1>4. ASSUME NEW n \in 1..N, n - 1 \in S PROVE n \in S
  <2> SUFFICES ASSUME NEW X \in SUBSET E, Cardinality(X) = n PROVE AfterVisits(f[X], s, X, from)
    OBVIOUS
  <2>1. /\ X # {} /\ Chosen(X) \in X /\ X \ {Chosen(X)} \in SUBSET E
        /\ Cardinality(X \ {Chosen(X)}) = n - 1
    BY OneLess
  <2>2. AfterVisits(f[X \ {Chosen(X)}], s, X \ {Chosen(X)}, from)
    BY <1>4, <2>1
  <2>3. f[X] = visit(f[X \ {Chosen(X)}], Chosen(X), from)
    BY <1>2, <2>1
  <2>4. Chosen(X)[1] \in persons
    BY <2>1
  <2> QED BY <2>1, <2>2, <2>3, <2>4, OneVisit
<1>5. 0..N \subseteq S
  <2> HIDE DEF S, N
  <2> QED BY <1>0, <1>3, <1>4, UpTo
<1> QED BY <1>0, <1>1, <1>5

-----------------------------------------------------------------------------
\* The search: s after n people were taken from the queue, lv the steps they were found at.
LEMMA StepsBothWays ==
    ASSUME TreeOK
    PROVE  /\ Adjacent \in [persons -> SUBSET persons]
           /\ \A x \in persons : \A y \in Adjacent[x] : x \in Adjacent[y]
<1>1. \A x \in persons : parents(x) \subseteq persons
  BY ParentsArePeople
<1>2. \A x \in persons : children(x) \subseteq persons /\ spouses(x) \subseteq persons
  BY DEF children, spouses
<1>3. \A x : UNION {next_to(x, step) : step \in Steps} = parents(x) \cup children(x) \cup spouses(x)
  <2> TAKE x
  <2>1. next_to(x, "parent") = parents(x) /\ next_to(x, "child") = children(x) /\ next_to(x, "spouse") = spouses(x)
    BY DEF next_to
  <2>2. \A y : y \in UNION {next_to(x, step) : step \in Steps} <=> \E step \in Steps : y \in next_to(x, step)
    OBVIOUS
  <2>3. \A y : (\E step \in Steps : y \in next_to(x, step)) <=> y \in parents(x) \cup children(x) \cup spouses(x)
    BY <2>1 DEF Steps
  <2> HIDE DEF next_to
  <2> QED BY <2>2, <2>3
<1>4. \A x \in persons : Adjacent[x] = parents(x) \cup children(x) \cup spouses(x)
  BY <1>3 DEF Adjacent
<1>5. Adjacent \in [persons -> SUBSET persons]
  <2>1. Adjacent = [x \in persons |-> Adjacent[x]]
    BY DEF Adjacent
  <2>2. \A x \in persons : Adjacent[x] \in SUBSET persons
    BY <1>1, <1>2, <1>4
  <2> QED BY <2>1, <2>2
<1>6. \A x \in persons : \A y \in parents(x) : x \in children(y)
  BY DEF children
<1>7. \A x \in persons : \A y \in children(x) : x \in parents(y)
  BY DEF children
<1>8. \A x \in persons : \A y \in spouses(x) : x \in spouses(y)
  BY DEF spouses
<1>9. ASSUME NEW x \in persons, NEW y \in Adjacent[x] PROVE x \in Adjacent[y]
  <2>1. y \in persons /\ (y \in parents(x) \/ y \in children(x) \/ y \in spouses(x))
    BY <1>1, <1>2, <1>4
  <2>2. x \in children(y) \/ x \in parents(y) \/ x \in spouses(y)
    BY <1>6, <1>7, <1>8, <2>1
  <2> QED BY <1>4, <2>1, <2>2
<1> QED BY <1>5, <1>9

LEMMA NeighborsAre ==
    ASSUME TreeOK, NEW p \in persons
    PROVE  /\ IsFiniteSet(neighbors(p))
           /\ \A e \in neighbors(p) : e[1] \in persons
           /\ {e[1] : e \in neighbors(p)} = Adjacent[p]
<1>1. IsFiniteSet(Steps)
  <2>1. Steps = {"parent"} \cup {"child"} \cup {"spouse"}
    BY DEF Steps
  <2> QED BY <2>1, FS_Singleton, FS_Union
<1>2. IsFiniteSet(persons \X Steps)
  BY <1>1, FS_Product DEF TreeOK
<1>3. neighbors(p) \subseteq persons \X Steps
  BY DEF neighbors
<1>4. IsFiniteSet(neighbors(p))
  BY <1>2, <1>3, FS_Subset
<1>5. \A x : x \in Adjacent[p] <=> \E step \in Steps : x \in next_to(p, step)
  BY DEF Adjacent
<1>6. \A x : x \in {e[1] : e \in neighbors(p)} <=> \E e \in neighbors(p) : x = e[1]
  OBVIOUS
<1>7. ASSUME NEW x \in Adjacent[p] PROVE \E e \in neighbors(p) : x = e[1]
  <2>1. PICK step \in Steps : x \in next_to(p, step)
    BY <1>5
  <2>2. x \in persons
    BY StepsBothWays
  <2>3. <<x, step>> \in neighbors(p)
    <3>1. <<x, step>> \in persons \X Steps /\ <<x, step>>[1] = x /\ <<x, step>>[2] = step
      BY <2>2
    <3> QED BY <2>1, <3>1 DEF neighbors
  <2> QED BY <2>3
<1>8. ASSUME NEW e \in neighbors(p) PROVE e[1] \in Adjacent[p]
  <2>1. e[2] \in Steps /\ e[1] \in next_to(p, e[2])
    BY DEF neighbors
  <2> QED BY <1>5, <2>1
<1> QED BY <1>3, <1>4, <1>6, <1>7, <1>8

\* What is true after n people were taken from the queue, lv being the distances from a.
Waiting(s) == {s.queue[i] : i \in 1..Len(s.queue)}
Taken(s)   == DOMAIN s.prev \ Waiting(s)
Reached(s, a, lv, n) ==
    /\ s.queue \in Seq(persons) /\ DOMAIN s.prev \subseteq persons /\ a \in DOMAIN s.prev
    /\ lv[a] = 0
    /\ \A x \in DOMAIN s.prev : lv[x] \in Nat /\ lv[x] <= n
    /\ \A x \in DOMAIN s.prev \ {a} : /\ s.prev[x][1] \in DOMAIN s.prev
                                      /\ x \in Adjacent[s.prev[x][1]]
                                      /\ lv[x] = lv[s.prev[x][1]] + 1
    /\ Waiting(s) \subseteq DOMAIN s.prev
    /\ \A i, j \in 1..Len(s.queue) : i # j => s.queue[i] # s.queue[j]
    /\ \A i, j \in 1..Len(s.queue) : /\ lv[s.queue[j]] <= lv[s.queue[i]] + 1
                                     /\ i <= j => lv[s.queue[i]] <= lv[s.queue[j]]
    /\ \A u \in Taken(s) : \A i \in 1..Len(s.queue) : lv[u] <= lv[s.queue[i]]
    /\ \A u \in Taken(s) : \A x \in Adjacent[u] : x \in DOMAIN s.prev /\ lv[x] <= lv[u] + 1
    /\ s.queue # <<>> => Cardinality(Taken(s)) = n

LEMMA SearchStarts ==
    ASSUME TreeOK, NEW a \in persons, NEW s,
           s = [queue |-> <<a>>, prev |-> [x \in {a} |-> <<None, "none">>]]
    PROVE  \E lv : Reached(s, a, lv, 0)
<1>1. /\ s.queue = <<a>> /\ s.queue \in Seq(persons) /\ Len(s.queue) = 1 /\ s.queue[1] = a
      /\ DOMAIN s.prev = {a}
  OBVIOUS
<1>2. Waiting(s) = {a}
  BY <1>1 DEF Waiting
<1>3. Taken(s) = {} /\ Cardinality(Taken(s)) = 0
  BY <1>1, <1>2, FS_EmptySet DEF Taken
<1> DEFINE lv == [x \in persons |-> 0]
<1>4. \A x \in persons : lv[x] = 0
  OBVIOUS
<1> HIDE DEF lv
<1>5. \A i \in 1..Len(s.queue) : s.queue[i] = a /\ i = 1
  BY <1>1
<1>6. Reached(s, a, lv, 0)
  BY <1>1, <1>2, <1>3, <1>4, <1>5 DEF Reached
<1> QED BY <1>6

LEMMA PopIsVisits ==
    ASSUME NEW s, s.queue # <<>>
    PROVE  pop(s) = visits([queue |-> Tail(s.queue), prev |-> s.prev], neighbors(Head(s.queue)), Head(s.queue))
BY DEF pop, visits

\* What taking h from a queue of L people does to it, U being those it finds.
Shifted(t, s, h, U, L) ==
    /\ h \in persons /\ L \in Nat \ {0} /\ t.queue \in Seq(persons) /\ L <= Len(t.queue) + 1
    /\ DOMAIN t.prev = DOMAIN s.prev \cup U
    /\ \A x \in DOMAIN s.prev : t.prev[x] = s.prev[x]
    /\ \A x \in U : t.prev[x][1] = h
    /\ \A i \in 1..(L - 1) : t.queue[i] = s.queue[i + 1]
    /\ \A i \in L..Len(t.queue) : t.queue[i] \in U
    /\ \A i, j \in L..Len(t.queue) : i # j => t.queue[i] # t.queue[j]
    /\ \A x \in U : \E i \in L..Len(t.queue) : t.queue[i] = x

LEMMA PopMoves ==
    ASSUME TreeOK, NEW s, s.queue \in Seq(persons), s.queue # <<>>
    PROVE  Shifted(pop(s), s, s.queue[1], Adjacent[s.queue[1]] \ DOMAIN s.prev, Len(s.queue))
<1> DEFINE h == s.queue[1]
           U == Adjacent[h] \ DOMAIN s.prev
           L == Len(s.queue)
           t == pop(s)
<1> DEFINE z == [queue |-> Tail(s.queue), prev |-> s.prev]
<1>1. h = Head(s.queue) /\ h \in persons /\ L \in Nat \ {0}
  OBVIOUS
<1>2. /\ z.queue = Tail(s.queue) /\ z.queue \in Seq(persons) /\ Len(z.queue) = L - 1 /\ z.prev = s.prev
      /\ \A i \in 1..(L - 1) : z.queue[i] = s.queue[i + 1]
  OBVIOUS
<1>3. /\ IsFiniteSet(neighbors(h))
      /\ \A e \in neighbors(h) : e[1] \in persons
      /\ {e[1] : e \in neighbors(h)} = Adjacent[h]
  BY <1>1, NeighborsAre
<1>4. t = visits(z, neighbors(h), h)
  BY <1>1, PopIsVisits
<1>11. U = Adjacent[h] \ DOMAIN s.prev
  OBVIOUS
<1> HIDE DEF z, h, U, L, t
<1>5. AfterVisits(t, z, neighbors(h), h)
  <2>1. AfterVisits(visits(z, neighbors(h), h), z, neighbors(h), h)
    BY <1>2, <1>3, VisitsDo
  <2> QED BY <1>4, <2>1
<1>6. Unseen(z, neighbors(h)) = U
  BY <1>2, <1>3, <1>11 DEF Unseen
<1>7. (L - 1) + 1 = L
  BY <1>1
<1>8. /\ t.queue \in Seq(persons) /\ L - 1 <= Len(t.queue)
      /\ DOMAIN t.prev = DOMAIN s.prev \cup U
      /\ \A x \in DOMAIN s.prev : t.prev[x] = s.prev[x]
      /\ \A x \in U : t.prev[x][1] = h
      /\ \A i \in 1..(L - 1) : t.queue[i] = z.queue[i]
      /\ \A i \in L..Len(t.queue) : t.queue[i] \in U
      /\ \A i, j \in L..Len(t.queue) : i # j => t.queue[i] # t.queue[j]
      /\ \A x \in U : \E i \in L..Len(t.queue) : t.queue[i] = x
  BY <1>2, <1>5, <1>6, <1>7 DEF AfterVisits
<1>9. L <= Len(t.queue) + 1
  <2>1. Len(t.queue) \in Nat
    BY <1>8
  <2> QED BY <1>1, <1>8, <2>1
<1>10. Shifted(t, s, h, U, L)
  BY <1>1, <1>2, <1>8, <1>9 DEF Shifted
<1> QED BY <1>10 DEF t, h, U, L

LEMMA SearchSteps ==
    ASSUME TreeOK, NEW a \in persons, NEW n \in Nat, NEW s, NEW lv, Reached(s, a, lv, n), s.queue # <<>>
    PROVE  \E w : Reached(pop(s), a, w, n + 1)
<1> DEFINE t == pop(s)
           h == s.queue[1]
           U == Adjacent[h] \ DOMAIN s.prev
           L == Len(s.queue)
           M == Len(t.queue)
           D == DOMAIN s.prev
           w == [x \in persons |-> IF x \in D THEN lv[x] ELSE lv[h] + 1]
<1>1. s.queue \in Seq(persons) /\ D \subseteq persons /\ a \in D
  BY DEF Reached
<1>2. /\ h \in persons /\ L \in Nat \ {0} /\ t.queue \in Seq(persons) /\ L <= M + 1
      /\ DOMAIN t.prev = D \cup U
      /\ \A x \in D : t.prev[x] = s.prev[x]
      /\ \A x \in U : t.prev[x][1] = h
      /\ \A i \in 1..(L - 1) : t.queue[i] = s.queue[i + 1]
      /\ \A i \in L..M : t.queue[i] \in U
      /\ \A i, j \in L..M : i # j => t.queue[i] # t.queue[j]
      /\ \A x \in U : \E i \in L..M : t.queue[i] = x
  <2>1. Shifted(t, s, h, U, L)
    BY <1>1, PopMoves
  <2>2. M = Len(t.queue) /\ D = DOMAIN s.prev
    OBVIOUS
  <2> HIDE DEF t, h, U, L, M, D
  <2> QED BY <2>1, <2>2 DEF Shifted
<1>3. M \in Nat
  BY <1>2
<1>4. /\ Adjacent[h] \subseteq persons /\ U \subseteq persons
      /\ U \cap D = {} /\ Adjacent[h] \subseteq D \cup U /\ U \subseteq Adjacent[h]
  <2>1. Adjacent[h] \subseteq persons
    BY <1>2, StepsBothWays
  <2> QED BY <2>1
<1>5. /\ \A x \in D : w[x] = lv[x]
      /\ \A x \in U : w[x] = lv[h] + 1
  BY <1>1, <1>4
<1>6. /\ \A x \in D : lv[x] \in Nat /\ lv[x] <= n
      /\ \A i \in 1..L : s.queue[i] \in D
      /\ \A i, j \in 1..L : i # j => s.queue[i] # s.queue[j]
      /\ \A i, j \in 1..L : lv[s.queue[j]] <= lv[s.queue[i]] + 1
      /\ \A i, j \in 1..L : i <= j => lv[s.queue[i]] <= lv[s.queue[j]]
      /\ \A u \in Taken(s) : \A i \in 1..L : lv[u] <= lv[s.queue[i]]
      /\ \A u \in Taken(s) : \A x \in Adjacent[u] : x \in D /\ lv[x] <= lv[u] + 1
  BY DEF Reached, Waiting
<1>7. h \in D /\ lv[h] \in Nat /\ lv[h] <= n /\ 1 \in 1..L
  BY <1>2, <1>6
<1> HIDE DEF t, h, U, L, M, D, w
<1>10. \A i \in 1..M : \/ i \in 1..(L - 1) /\ i + 1 \in 1..L
                       \/ i \in L..M
  BY <1>2, <1>3
<1>11. \A x \in DOMAIN t.prev : w[x] \in Nat /\ w[x] <= n + 1
  BY <1>2, <1>5, <1>6, <1>7
<1>12. ASSUME NEW x \in DOMAIN t.prev \ {a}
       PROVE  t.prev[x][1] \in DOMAIN t.prev /\ x \in Adjacent[t.prev[x][1]] /\ w[x] = w[t.prev[x][1]] + 1
  <2>1. CASE x \in D
    <3>1. s.prev[x][1] \in D /\ x \in Adjacent[s.prev[x][1]] /\ lv[x] = lv[s.prev[x][1]] + 1
      BY <1>12, <2>1 DEF Reached, D
    <3>2. t.prev[x][1] = s.prev[x][1]
      BY <1>2, <2>1
    <3> QED BY <1>2, <1>5, <2>1, <3>1, <3>2
  <2>2. CASE x \in U
    <3>1. t.prev[x][1] = h
      BY <1>2, <2>2
    <3> QED BY <1>2, <1>4, <1>5, <1>7, <2>2, <3>1
  <2> QED BY <1>2, <2>1, <2>2
\* the places of the queue
<1>13. /\ \A i \in 1..(L - 1) : /\ t.queue[i] = s.queue[i + 1] /\ t.queue[i] \in D
                                /\ w[t.queue[i]] = lv[s.queue[i + 1]]
                                /\ lv[h] <= w[t.queue[i]] /\ w[t.queue[i]] <= lv[h] + 1
                                /\ w[t.queue[i]] \in Nat
       /\ \A i \in L..M : t.queue[i] \in U /\ w[t.queue[i]] = lv[h] + 1
  <2>1. ASSUME NEW i \in 1..(L - 1)
        PROVE  /\ t.queue[i] = s.queue[i + 1] /\ t.queue[i] \in D
               /\ w[t.queue[i]] = lv[s.queue[i + 1]]
               /\ lv[h] <= w[t.queue[i]] /\ w[t.queue[i]] <= lv[h] + 1
               /\ w[t.queue[i]] \in Nat
    <3>1. i + 1 \in 1..L /\ 1 <= i + 1
      BY <1>2
    <3>2. t.queue[i] = s.queue[i + 1] /\ t.queue[i] \in D
      BY <1>2, <1>6, <3>1
    <3>3. lv[s.queue[1]] <= lv[s.queue[i + 1]] /\ lv[s.queue[i + 1]] <= lv[s.queue[1]] + 1
      BY <1>6, <1>7, <3>1
    <3> QED BY <1>5, <1>6, <3>2, <3>3 DEF h
  <2> QED BY <1>2, <1>5, <2>1
<1>14. ASSUME NEW i \in 1..M, NEW j \in 1..M
       PROVE  /\ w[t.queue[j]] <= w[t.queue[i]] + 1
              /\ i <= j => w[t.queue[i]] <= w[t.queue[j]]
  <2>1. CASE i \in 1..(L - 1) /\ j \in 1..(L - 1)
    <3>1. i + 1 \in 1..L /\ j + 1 \in 1..L /\ (i <= j => i + 1 <= j + 1)
      BY <1>2, <2>1
    <3>2. w[t.queue[i]] = lv[s.queue[i + 1]] /\ w[t.queue[j]] = lv[s.queue[j + 1]]
      BY <1>13, <2>1
    <3>3. /\ lv[s.queue[j + 1]] <= lv[s.queue[i + 1]] + 1
          /\ i + 1 <= j + 1 => lv[s.queue[i + 1]] <= lv[s.queue[j + 1]]
      BY <1>6, <3>1
    <3> QED BY <3>1, <3>2, <3>3
  <2>2. CASE i \in 1..(L - 1) /\ j \in L..M
    BY <1>7, <1>13, <2>2
  <2>3. CASE i \in L..M /\ j \in 1..(L - 1)
    <3>1. ~(i <= j)
      BY <1>2, <1>3, <2>3
    <3> QED BY <1>7, <1>13, <2>3, <3>1
  <2>4. CASE i \in L..M /\ j \in L..M
    BY <1>7, <1>13, <2>4
  <2> QED BY <1>10, <2>1, <2>2, <2>3, <2>4
<1>15. ASSUME NEW i \in 1..M, NEW j \in 1..M, i # j PROVE t.queue[i] # t.queue[j]
  <2>1. CASE i \in 1..(L - 1) /\ j \in 1..(L - 1)
    <3>1. i + 1 \in 1..L /\ j + 1 \in 1..L /\ i + 1 # j + 1
      BY <1>2, <1>15, <2>1
    <3> QED BY <1>2, <1>6, <2>1, <3>1
  <2>2. CASE i \in 1..(L - 1) /\ j \in L..M
    BY <1>4, <1>13, <2>2
  <2>3. CASE i \in L..M /\ j \in 1..(L - 1)
    BY <1>4, <1>13, <2>3
  <2>4. CASE i \in L..M /\ j \in L..M
    BY <1>2, <1>15, <2>4
  <2> QED BY <1>10, <2>1, <2>2, <2>3, <2>4
<1>16. Waiting(t) \subseteq DOMAIN t.prev
  <2>1. \A i \in 1..M : t.queue[i] \in D \cup U
    BY <1>10, <1>13
  <2> QED BY <1>2, <2>1 DEF Waiting, M
<1>17. Taken(t) = Taken(s) \cup {h} /\ h \notin Taken(s)
  <2>1. h \in Waiting(s)
    BY <1>7 DEF Waiting, h, L
  <2>2. \A x \in D : x \in Waiting(s) <=> x = h \/ x \in Waiting(t)
    <3> TAKE x \in D
    <3>1. ASSUME x \in Waiting(s), x # h PROVE x \in Waiting(t)
      <4>1. PICK i \in 1..L : s.queue[i] = x
        BY <3>1 DEF Waiting, L
      <4>2. i # 1
        BY <3>1, <4>1 DEF h
      <4>3. i - 1 \in 1..(L - 1) /\ (i - 1) + 1 = i /\ i - 1 \in 1..M
        BY <1>2, <1>3, <4>2
      <4>4. t.queue[i - 1] = x
        BY <1>2, <4>1, <4>3
      <4> QED BY <4>3, <4>4 DEF Waiting, M
    <3>2. ASSUME x \in Waiting(t) PROVE x \in Waiting(s)
      <4>1. PICK i \in 1..M : t.queue[i] = x
        BY <3>2 DEF Waiting, M
      <4>2. i \in 1..(L - 1) /\ i + 1 \in 1..L
        BY <1>4, <1>10, <1>13, <4>1
      <4>3. s.queue[i + 1] = x
        BY <1>2, <4>1, <4>2
      <4> QED BY <4>2, <4>3 DEF Waiting, L
    <3> QED BY <2>1, <3>1, <3>2
  <2>3. h \notin Waiting(t)
    <3> SUFFICES ASSUME NEW i \in 1..M, t.queue[i] = h PROVE FALSE
      BY DEF Waiting, M
    <3>1. i \in 1..(L - 1) /\ i + 1 \in 1..L /\ i + 1 # 1
      BY <1>2, <1>4, <1>7, <1>10, <1>13
    <3>2. s.queue[i + 1] = h
      BY <1>2, <3>1
    <3> QED BY <1>6, <1>7, <3>1, <3>2 DEF h
  <2>4. U \subseteq Waiting(t)
    <3> SUFFICES ASSUME NEW x \in U PROVE x \in Waiting(t)
      OBVIOUS
    <3>1. PICK i \in L..M : t.queue[i] = x
      BY <1>2
    <3>2. i \in 1..M
      BY <1>2, <1>3
    <3> QED BY <3>1, <3>2 DEF Waiting, M
  <2>5. Taken(t) = D \ Waiting(t)
    BY <1>2, <2>4 DEF Taken
  <2> QED BY <1>7, <2>1, <2>2, <2>3, <2>5 DEF Taken, D
<1>18. ASSUME NEW u \in Taken(t) PROVE \A i \in 1..M : w[u] <= w[t.queue[i]]
  <2> TAKE i \in 1..M
  <2>1. u \in D /\ w[u] = lv[u] /\ lv[u] \in Nat
    BY <1>5, <1>6, <1>7, <1>17, <1>18 DEF Taken, D
  <2>2. lv[u] <= lv[h]
    BY <1>6, <1>7, <1>17, <1>18 DEF h
  <2>3. lv[h] <= w[t.queue[i]] /\ w[t.queue[i]] \in Nat
    BY <1>7, <1>10, <1>13
  <2> QED BY <1>7, <2>1, <2>2, <2>3
<1>19. ASSUME NEW u \in Taken(t) PROVE \A x \in Adjacent[u] : x \in DOMAIN t.prev /\ w[x] <= w[u] + 1
  <2> TAKE x \in Adjacent[u]
  <2>1. CASE u \in Taken(s)
    <3>1. u \in D /\ w[u] = lv[u]
      BY <1>5, <2>1 DEF Taken, D
    <3>2. x \in D /\ lv[x] <= lv[u] + 1
      BY <1>6, <2>1
    <3> QED BY <1>2, <1>5, <3>1, <3>2
  <2>2. CASE u = h /\ x \in U
    BY <1>2, <1>5, <1>7, <2>2
  <2>3. CASE u = h /\ x \in D
    <3>1. lv[x] <= lv[h] + 1
      <4>1. CASE x \in Taken(s)
        <5>1. lv[x] <= lv[h] /\ lv[x] \in Nat
          BY <1>6, <1>7, <2>3, <4>1 DEF h
        <5> QED BY <1>7, <5>1
      <4>2. CASE x \in Waiting(s)
        <5>1. PICK i \in 1..L : s.queue[i] = x
          BY <4>2 DEF Waiting, L
        <5> QED BY <1>6, <1>7, <5>1 DEF h
      <4> QED BY <2>3, <4>1, <4>2 DEF Taken, D
    <3> QED BY <1>2, <1>5, <1>7, <2>3, <3>1
  <2> QED BY <1>4, <1>17, <1>19, <2>1, <2>2, <2>3
<1>20. Cardinality(Taken(t)) = n + 1
  <2>1. IsFiniteSet(Taken(s))
    <3>1. Taken(s) \subseteq persons
      BY <1>1 DEF Taken, D
    <3> QED BY <3>1, FS_Subset DEF TreeOK
  <2>2. Cardinality(Taken(s)) = n
    BY DEF Reached
  <2> QED BY <1>17, <2>1, <2>2, FS_AddElement
<1>21. w[a] = 0 /\ a \in DOMAIN t.prev
  <2>1. lv[a] = 0
    BY DEF Reached
  <2> QED BY <1>1, <1>2, <1>5, <2>1
<1>22. t.queue \in Seq(persons) /\ DOMAIN t.prev \subseteq persons
  BY <1>1, <1>2, <1>4
<1>23. /\ \A x \in DOMAIN t.prev \ {a} : /\ t.prev[x][1] \in DOMAIN t.prev
                                         /\ x \in Adjacent[t.prev[x][1]]
                                         /\ w[x] = w[t.prev[x][1]] + 1
       /\ \A i, j \in 1..M : i # j => t.queue[i] # t.queue[j]
       /\ \A i, j \in 1..M : /\ w[t.queue[j]] <= w[t.queue[i]] + 1
                             /\ i <= j => w[t.queue[i]] <= w[t.queue[j]]
       /\ \A u \in Taken(t) : \A i \in 1..M : w[u] <= w[t.queue[i]]
       /\ \A u \in Taken(t) : \A x \in Adjacent[u] : x \in DOMAIN t.prev /\ w[x] <= w[u] + 1
  BY <1>12, <1>14, <1>15, <1>18, <1>19
<1>24. Reached(t, a, w, n + 1)
  BY <1>11, <1>16, <1>20, <1>21, <1>22, <1>23 DEF Reached, M
<1> QED BY <1>24 DEF t

\* The search from a ends with an empty queue.
Searching(f, a, n) ==
    f = [k \in 0..n |-> IF k = 0 THEN [queue |-> <<a>>, prev |-> [x \in {a} |-> <<None, "none">>]]
                        ELSE pop(f[k - 1])]

LEMMA SearchIsMade ==
    ASSUME NEW a, NEW n \in Nat
    PROVE  \E f : Searching(f, a, n)
<1> DEFINE S == {m \in 0..n : \E f : Searching(f, a, m)}
           start == [queue |-> <<a>>, prev |-> [x \in {a} |-> <<None, "none">>]]
<1>1. 0 \in S
  <2> DEFINE f == [k \in 0..0 |-> start]
  <2>1. f = [k \in 0..0 |-> IF k = 0 THEN start ELSE pop(f[k - 1])]
    OBVIOUS
  <2> HIDE DEF f
  <2>2. Searching(f, a, 0)
    BY <2>1 DEF Searching
  <2> QED BY <2>2
<1>2. ASSUME NEW m \in 1..n, m - 1 \in S PROVE m \in S
  <2>1. PICK f : Searching(f, a, m - 1)
    BY <1>2
  <2>0. \A k \in 0..(m - 1) : f[k] = IF k = 0 THEN start ELSE pop(f[k - 1])
    BY <2>1 DEF Searching
  <2> DEFINE h == [k \in 0..m |-> IF k = m THEN pop(f[m - 1]) ELSE f[k]]
  <2>2. /\ h = [k \in 0..m |-> h[k]]
        /\ \A k \in 0..m : h[k] = IF k = m THEN pop(f[m - 1]) ELSE f[k]
    OBVIOUS
  <2> HIDE DEF h, start
  <2>3. \A k \in 0..m : h[k] = IF k = 0 THEN start ELSE pop(h[k - 1])
    <3> TAKE k \in 0..m
    <3>1. CASE k = m
      <4>1. k # 0 /\ k - 1 \in 0..m /\ k - 1 # m /\ h[k] = pop(f[m - 1])
        BY <2>2, <3>1
      <4>2. h[k - 1] = f[k - 1]
        BY <2>2, <4>1
      <4> QED BY <3>1, <4>1, <4>2
    <3>2. CASE k # m
      <4>1. k \in 0..(m - 1) /\ h[k] = f[k]
        BY <2>2, <3>2
      <4>2. k # 0 => h[k - 1] = f[k - 1]
        <5>1. k # 0 => k - 1 \in 0..m /\ k - 1 # m
          BY <3>2
        <5> QED BY <2>2, <5>1
      <4> QED BY <2>0, <4>1, <4>2
    <3> QED BY <3>1, <3>2
  <2>4. Searching(h, a, m)
    BY <2>2, <2>3 DEF Searching, start
  <2> QED BY <2>4
<1>3. 0..n \subseteq S
  <2> HIDE DEF S
  <2> QED BY <1>1, <1>2, UpTo
<1> QED BY <1>3

LEMMA SearchEnds ==
    ASSUME TreeOK, NEW a \in persons, NEW N \in Nat, N = Cardinality(persons)
    PROVE  \E s, lv : Reached(s, a, lv, N) /\ s.queue = <<>> /\ search(a) = s.prev
<1>1. PICK f : Searching(f, a, N)
  BY SearchIsMade
<1> DEFINE g == CHOOSE h : Searching(h, a, N)
<1>2. Searching(g, a, N)
  BY <1>1
<1>3. search(a) = g[N].prev
  BY DEF search, Searching
<1> HIDE DEF g
<1>4. \A k \in 0..N : g[k] = IF k = 0 THEN [queue |-> <<a>>, prev |-> [x \in {a} |-> <<None, "none">>]]
                             ELSE pop(g[k - 1])
  BY <1>2 DEF Searching
<1> DEFINE S == {k \in 0..N : \E lv : Reached(g[k], a, lv, k)}
<1>5. 0 \in S
  <2>1. g[0] = [queue |-> <<a>>, prev |-> [x \in {a} |-> <<None, "none">>]]
    BY <1>4
  <2> QED BY <2>1, SearchStarts
<1>6. ASSUME NEW k \in 1..N, k - 1 \in S PROVE k \in S
  <2>1. PICK lv : Reached(g[k - 1], a, lv, k - 1)
    BY <1>6
  <2>2. g[k] = pop(g[k - 1])
    BY <1>4
  <2>3. CASE g[k - 1].queue # <<>>
    <3>1. k - 1 \in Nat /\ (k - 1) + 1 = k
      OBVIOUS
    <3>2. \E w : Reached(pop(g[k - 1]), a, w, (k - 1) + 1)
      BY <2>1, <2>3, <3>1, SearchSteps
    <3> QED BY <2>2, <3>1, <3>2
  <2>4. CASE g[k - 1].queue = <<>>
    <3>1. g[k] = g[k - 1]
      BY <2>2, <2>4 DEF pop
    <3>2. \A x \in DOMAIN g[k - 1].prev : lv[x] \in Nat /\ lv[x] <= k - 1
      BY <2>1 DEF Reached
    <3>3. \A x \in DOMAIN g[k - 1].prev : lv[x] \in Nat /\ lv[x] <= k
      BY <3>2
    <3>4. Reached(g[k - 1], a, lv, k)
      BY <2>1, <2>4, <3>3 DEF Reached
    <3> QED BY <3>1, <3>4
  <2> QED BY <2>3, <2>4
<1>7. 0..N \subseteq S
  <2> HIDE DEF S
  <2> QED BY <1>5, <1>6, UpTo
<1>8. PICK lv : Reached(g[N], a, lv, N)
  BY <1>7
<1>9. g[N].queue = <<>>
  <2> SUFFICES ASSUME g[N].queue # <<>> PROVE FALSE
    OBVIOUS
  <2>1. /\ Cardinality(Taken(g[N])) = N /\ DOMAIN g[N].prev \subseteq persons
        /\ g[N].queue \in Seq(persons) /\ Waiting(g[N]) \subseteq DOMAIN g[N].prev
    BY <1>8 DEF Reached
  <2>2. Taken(g[N]) \subseteq persons
    BY <2>1 DEF Taken
  <2>3. Taken(g[N]) = persons
    BY <2>1, <2>2, FS_Subset DEF TreeOK
  <2>4. 1 \in 1..Len(g[N].queue)
    BY <2>1
  <2>5. g[N].queue[1] \in Waiting(g[N])
    BY <2>4 DEF Waiting
  <2> QED BY <2>1, <2>3, <2>5 DEF Taken
<1> QED BY <1>3, <1>8, <1>9

\* What the search found: everyone it can reach, at their distance.
Found(prev, a, lv, N) ==
    /\ DOMAIN prev \subseteq persons /\ a \in DOMAIN prev /\ lv[a] = 0
    /\ \A x \in DOMAIN prev : lv[x] \in Nat /\ lv[x] <= N
    /\ \A x \in DOMAIN prev \ {a} : /\ prev[x][1] \in DOMAIN prev
                                    /\ x \in Adjacent[prev[x][1]]
                                    /\ lv[x] = lv[prev[x][1]] + 1
    /\ \A u \in DOMAIN prev : \A x \in Adjacent[u] : x \in DOMAIN prev /\ lv[x] <= lv[u] + 1

LEMMA SearchFinds ==
    ASSUME TreeOK, NEW a \in persons, NEW N \in Nat, N = Cardinality(persons)
    PROVE  \E lv : Found(search(a), a, lv, N)
<1>1. PICK s, lv : Reached(s, a, lv, N) /\ s.queue = <<>> /\ search(a) = s.prev
  BY SearchEnds
<1>2. Waiting(s) = {}
  <2>1. Len(s.queue) = 0
    BY <1>1
  <2>2. \A i : i \notin 1..Len(s.queue)
    BY <2>1
  <2> QED BY <2>2 DEF Waiting
<1>3. Taken(s) = DOMAIN s.prev
  BY <1>2 DEF Taken
<1>4. Found(s.prev, a, lv, N)
  BY <1>1, <1>3 DEF Reached, Found
<1> QED BY <1>1, <1>4

LEMMA FoundAway ==
    ASSUME TreeOK, NEW a \in persons, NEW N, NEW prev, NEW lv, Found(prev, a, lv, N), NEW n \in Nat
    PROVE  \A x \in Away(a, n, Adjacent) : x \in DOMAIN prev /\ lv[x] <= n
<1> DEFINE S == {k \in 0..n : \A x \in Away(a, k, Adjacent) : x \in DOMAIN prev /\ lv[x] <= k}
<1>1. /\ Away(a, 0, Adjacent) = {a}
      /\ \A k \in Nat : Away(a, k + 1, Adjacent) = Onward(Away(a, k, Adjacent), Adjacent)
  BY StepsBothWays, AwaySteps
<1>2. 0 \in S
  BY <1>1 DEF Found
<1>3. ASSUME NEW k \in 1..n, k - 1 \in S PROVE k \in S
  <2> SUFFICES ASSUME NEW x \in Away(a, k, Adjacent) PROVE x \in DOMAIN prev /\ lv[x] <= k
    OBVIOUS
  <2>1. k - 1 \in Nat /\ (k - 1) + 1 = k
    OBVIOUS
  <2>2. Away(a, k, Adjacent) = Onward(Away(a, k - 1, Adjacent), Adjacent)
    BY <1>1, <2>1
  <2>3. PICK y \in Away(a, k - 1, Adjacent) : x \in Adjacent[y]
    BY <2>2 DEF Onward
  <2>4. y \in DOMAIN prev /\ lv[y] <= k - 1
    BY <1>3
  <2>5. x \in DOMAIN prev /\ lv[x] <= lv[y] + 1 /\ lv[x] \in Nat /\ lv[y] \in Nat
    BY <2>3, <2>4 DEF Found
  <2> QED BY <2>4, <2>5
<1>4. 0..n \subseteq S
  <2> HIDE DEF S
  <2> QED BY <1>2, <1>3, UpTo
<1> QED BY <1>4

\* The path back from b, after k steps.
Trail(p, b, prev, lv) ==
    /\ p \in Seq(DOMAIN prev) /\ p # <<>>
    /\ p[Len(p)] = b /\ lv[p[1]] + Len(p) = lv[b] + 1
    /\ \A i \in 1..(Len(p) - 1) : p[i + 1] \in Adjacent[p[i]]

LEMMA OneBack ==
    ASSUME NEW a, NEW N, NEW prev, NEW lv, Found(prev, a, lv, N), NEW b \in DOMAIN prev,
           NEW p, Trail(p, b, prev, lv), p[1] # a
    PROVE  /\ Trail(step_back(prev, a, p), b, prev, lv)
           /\ Len(step_back(prev, a, p)) = Len(p) + 1
<1> DEFINE x == prev[p[1]][1]
           q == <<x>> \o p
<1>1. p \in Seq(DOMAIN prev) /\ p # <<>> /\ Len(p) \in Nat \ {0} /\ p[1] \in DOMAIN prev /\ Head(p) = p[1]
  BY DEF Trail
<1>2. step_back(prev, a, p) = q
  BY <1>1 DEF step_back
<1>3. x \in DOMAIN prev /\ p[1] \in Adjacent[x] /\ lv[p[1]] = lv[x] + 1 /\ lv[x] \in Nat
  BY <1>1 DEF Found
<1> HIDE DEF x
<1>4. /\ q \in Seq(DOMAIN prev) /\ q # <<>> /\ Len(q) = Len(p) + 1 /\ q[1] = x
      /\ \A i \in 1..Len(p) : q[i + 1] = p[i]
  BY <1>1, <1>3
<1> HIDE DEF q
<1>5. q[Len(q)] = b
  <2>1. Len(p) \in 1..Len(p)
    BY <1>1
  <2> QED BY <1>4, <2>1 DEF Trail
<1>6. lv[q[1]] + Len(q) = lv[b] + 1
  <2>1. lv[p[1]] + Len(p) = lv[b] + 1 /\ lv[b] \in Nat
    BY DEF Trail, Found
  <2> QED BY <1>1, <1>3, <1>4, <2>1
<1>7. ASSUME NEW i \in 1..(Len(q) - 1) PROVE q[i + 1] \in Adjacent[q[i]]
  <2>1. i \in 1..Len(p)
    BY <1>1, <1>4
  <2>2. q[i + 1] = p[i]
    BY <1>4, <2>1
  <2>3. CASE i = 1
    BY <1>3, <1>4, <2>2, <2>3
  <2>4. CASE i # 1
    <3>1. i - 1 \in 1..(Len(p) - 1) /\ i - 1 \in 1..Len(p) /\ (i - 1) + 1 = i
      BY <1>1, <2>1, <2>4
    <3>2. q[i] = p[i - 1] /\ p[i] \in Adjacent[p[i - 1]]
      BY <1>4, <3>1 DEF Trail
    <3> QED BY <2>2, <3>2
  <2> QED BY <2>3, <2>4
<1> QED BY <1>2, <1>4, <1>5, <1>6, <1>7 DEF Trail

Backing(f, prev, a, b, n) == f = [k \in 0..n |-> IF k = 0 THEN <<b>> ELSE step_back(prev, a, f[k - 1])]

LEMMA BackIsMade ==
    ASSUME NEW a, NEW N \in Nat, NEW prev, NEW lv, Found(prev, a, lv, N), NEW b \in DOMAIN prev
    PROVE  \E f : Backing(f, prev, a, b, N)
<1> DEFINE D == {p \in Seq(DOMAIN prev) : p # <<>>}
           g == [y \in Nat \X D |-> step_back(prev, a, y[2])]
<1>1. <<b>> \in D
  OBVIOUS
<1>2. ASSUME NEW p \in D PROVE step_back(prev, a, p) \in D
  <2>1. Head(p) \in DOMAIN prev
    OBVIOUS
  <2>2. CASE Head(p) = a
    BY <2>2 DEF step_back
  <2>3. CASE Head(p) # a
    <3>1. prev[Head(p)][1] \in DOMAIN prev
      BY <2>1, <2>3 DEF Found
    <3>2. step_back(prev, a, p) = <<prev[Head(p)][1]>> \o p
      BY <2>3 DEF step_back
    <3>3. \A x \in DOMAIN prev : <<x>> \o p \in D
      OBVIOUS
    <3> QED BY <3>1, <3>2, <3>3
  <2> QED BY <2>2, <2>3
<1>3. g \in [Nat \X D -> D]
  <2> HIDE DEF D
  <2> QED BY <1>2
<1>4. \A k \in Nat, p \in D : g[<<k, p>>] = step_back(prev, a, p)
  <2> HIDE DEF D
  <2> QED OBVIOUS
<1> HIDE DEF g, D
<1>5. PICK f : Built(f, N, <<b>>, D, g)
  BY <1>1, <1>3, StepByStep
<1>6. \A k \in 0..N : f[k] = IF k = 0 THEN <<b>> ELSE step_back(prev, a, f[k - 1])
  <2> TAKE k \in 0..N
  <2>1. CASE k = 0
    BY <1>5, <2>1 DEF Built
  <2>2. CASE k # 0
    <3>1. k \in Nat /\ k - 1 \in 0..N
      BY <2>2
    <3>2. f[k - 1] \in D
      BY <1>5, <3>1 DEF Built
    <3>3. f[k] = g[<<k, f[k - 1]>>]
      BY <1>5, <2>2 DEF Built
    <3> QED BY <1>4, <2>2, <3>1, <3>2, <3>3
  <2> QED BY <2>1, <2>2
<1>7. Backing(f, prev, a, b, N)
  BY <1>5, <1>6 DEF Built, Backing
<1> QED BY <1>7

LEMMA PathBack ==
    ASSUME TreeOK, NEW a \in persons, NEW N \in Nat, N = Cardinality(persons), NEW prev, NEW lv,
           Found(prev, a, lv, N), NEW b \in DOMAIN prev
    PROVE  /\ Trail(path_back(prev, a, b), b, prev, lv)
           /\ path_back(prev, a, b)[1] = a
<1>1. PICK f : Backing(f, prev, a, b, N)
  BY BackIsMade
<1> DEFINE g == CHOOSE h : Backing(h, prev, a, b, N)
<1>2. Backing(g, prev, a, b, N)
  BY <1>1
<1>3. path_back(prev, a, b) = g[N]
  BY DEF path_back, Backing
<1> HIDE DEF g
<1>4. \A k \in 0..N : g[k] = IF k = 0 THEN <<b>> ELSE step_back(prev, a, g[k - 1])
  BY <1>2 DEF Backing
<1> DEFINE S == {k \in 0..N : Trail(g[k], b, prev, lv) /\ (g[k][1] = a \/ Len(g[k]) = k + 1)}
<1>5. 0 \in S
  <2>1. g[0] = <<b>>
    BY <1>4
  <2>2. lv[b] \in Nat
    BY DEF Found
  <2>3. <<b>> \in Seq(DOMAIN prev) /\ <<b>> # <<>> /\ Len(<<b>>) = 1 /\ <<b>>[1] = b
    OBVIOUS
  <2>4. Trail(<<b>>, b, prev, lv)
    BY <2>2, <2>3 DEF Trail
  <2>5. Len(<<b>>) = 0 + 1
    OBVIOUS
  <2> QED BY <2>1, <2>4, <2>5
<1>6. ASSUME NEW k \in 1..N, k - 1 \in S PROVE k \in S
  <2>1. Trail(g[k - 1], b, prev, lv) /\ (g[k - 1][1] = a \/ Len(g[k - 1]) = k)
    BY <1>6
  <2>2. g[k] = step_back(prev, a, g[k - 1])
    BY <1>4
  <2>3. CASE g[k - 1][1] = a
    <3>1. g[k - 1] \in Seq(DOMAIN prev) /\ g[k - 1] # <<>>
      BY <2>1 DEF Trail
    <3>2. Head(g[k - 1]) = a
      BY <2>3, <3>1
    <3>3. g[k] = g[k - 1]
      BY <2>2, <3>2 DEF step_back
    <3> QED BY <2>1, <2>3, <3>3
  <2>4. CASE g[k - 1][1] # a
    <3>1. /\ Trail(step_back(prev, a, g[k - 1]), b, prev, lv)
          /\ Len(step_back(prev, a, g[k - 1])) = Len(g[k - 1]) + 1
      BY <2>1, <2>4, OneBack
    <3> QED BY <2>1, <2>2, <2>4, <3>1
  <2> QED BY <2>3, <2>4
<1>7. N \in S
  <2> HIDE DEF S
  <2>1. 0..N \subseteq S
    BY <1>5, <1>6, UpTo
  <2> QED BY <2>1
<1>8. Trail(g[N], b, prev, lv) /\ (g[N][1] = a \/ Len(g[N]) = N + 1)
  BY <1>7
<1>9. g[N][1] = a
  <2> SUFFICES ASSUME g[N][1] # a PROVE FALSE
    OBVIOUS
  <2>1. g[N][1] \in DOMAIN prev
    BY <1>8 DEF Trail
  <2>2. lv[g[N][1]] + (N + 1) = lv[b] + 1 /\ lv[b] \in Nat /\ lv[b] <= N
    BY <1>8 DEF Trail, Found
  <2>3. PICK y : y = prev[g[N][1]][1]
    OBVIOUS
  <2>4. lv[g[N][1]] = lv[y] + 1 /\ lv[y] \in Nat
    BY <2>1, <2>3 DEF Found
  <2> QED BY <2>2, <2>4
<1> QED BY <1>3, <1>8, <1>9

LEMMA PathShort ==
    ASSUME TreeOK, NEW a \in persons, NEW b \in persons, NEW path, path = path_back(search(a), a, b)
    PROVE  /\ path = <<>> <=> b \notin DOMAIN search(a)
           /\ path = <<>> => \A n \in Distances : b \notin Away(a, n, Adjacent)
           /\ path # <<>> =>
                 /\ Head(path) = a /\ path[Len(path)] = b
                 /\ \A i \in 1..(Len(path) - 1) : path[i + 1] \in Adjacent[path[i]]
                 /\ \A n \in 0..(Len(path) - 2) : b \notin Away(a, n, Adjacent)
<1>1. PICK N \in Nat : N = Cardinality(persons) /\ Distances = 0..N
  BY PeopleCounted DEF Distances
<1>2. PICK prev : prev = search(a)
  OBVIOUS
<1>3. PICK lv : Found(prev, a, lv, N)
  BY <1>1, <1>2, SearchFinds
<1>4. \A n \in Nat : \A x \in Away(a, n, Adjacent) : x \in DOMAIN prev /\ lv[x] <= n
  BY <1>3, FoundAway
<1>5. CASE b \notin DOMAIN prev
  <2>1. path = <<>>
    BY <1>2, <1>5 DEF path_back
  <2> QED BY <1>1, <1>2, <1>4, <1>5, <2>1
<1>6. CASE b \in DOMAIN prev
  <2>1. Trail(path, b, prev, lv) /\ path[1] = a
    BY <1>1, <1>2, <1>3, <1>6, PathBack
  <2>2. /\ path \in Seq(DOMAIN prev) /\ path # <<>> /\ path[Len(path)] = b
        /\ lv[a] + Len(path) = lv[b] + 1 /\ lv[a] = 0 /\ lv[b] \in Nat
        /\ \A i \in 1..(Len(path) - 1) : path[i + 1] \in Adjacent[path[i]]
    BY <1>3, <1>6, <2>1 DEF Trail, Found
  <2>3. Head(path) = a
    BY <2>1, <2>2
  <2>4. \A n \in 0..(Len(path) - 2) : b \notin Away(a, n, Adjacent)
    <3> TAKE n \in 0..(Len(path) - 2)
    <3>1. n \in Nat /\ ~(lv[b] <= n)
      BY <2>2
    <3> QED BY <1>4, <3>1
  <2> QED BY <1>2, <1>6, <2>2, <2>3, <2>4
<1> QED BY <1>5, <1>6

LEMMA PathsAreShortest == ASSUME TreeOK PROVE PathIsShortest
<1> SUFFICES ASSUME NEW a \in Compared, NEW b \in Compared, NEW path, path = path_back(search(a), a, b)
             PROVE  IF path = <<>> THEN \A n \in Distances : b \notin Away(a, n, Adjacent)
                    ELSE /\ Head(path) = a /\ path[Len(path)] = b
                         /\ \A i \in 1..(Len(path) - 1) : path[i + 1] \in Adjacent[path[i]]
                         /\ \A n \in 0..(Len(path) - 2) : b \notin Away(a, n, Adjacent)
  BY DEF PathIsShortest
<1>1. a \in persons /\ b \in persons
  BY DEF Compared
<1> QED BY <1>1, PathShort

\* Whoever is found from a finds a.
LEMMA FoundBothWays ==
    ASSUME TreeOK, NEW a \in persons, NEW b \in DOMAIN search(a)
    PROVE  a \in DOMAIN search(b)
<1>1. PICK N \in Nat : N = Cardinality(persons)
  BY PeopleCounted
<1>2. PICK lv : Found(search(a), a, lv, N)
  BY <1>1, SearchFinds
<1>3. b \in persons
  BY <1>2 DEF Found
<1>4. PICK lw : Found(search(b), b, lw, N)
  BY <1>1, <1>3, SearchFinds
<1> SUFFICES ASSUME a \notin DOMAIN search(b) PROVE FALSE
  OBVIOUS
<1> DEFINE A == DOMAIN search(a)
           B == DOMAIN search(b)
           S == {k \in 0..N : \A x \in A : lv[x] <= k => x \notin B}
<1>5. /\ A \subseteq persons /\ B \subseteq persons /\ b \in B /\ a \notin B
      /\ \A x \in A : lv[x] \in Nat /\ lv[x] <= N
      /\ \A x \in A \ {a} : \E y \in A : x \in Adjacent[y] /\ lv[x] = lv[y] + 1
      /\ \A u \in B : \A x \in Adjacent[u] : x \in B
  BY <1>2, <1>4 DEF Found
<1> HIDE DEF A, B
<1>6. \A x \in persons : \A y \in Adjacent[x] : x \in Adjacent[y]
  BY StepsBothWays
<1>7. 0 \in S
  <2> SUFFICES ASSUME NEW x \in A, lv[x] <= 0, x # a PROVE FALSE
    BY <1>5
  <2>1. PICK y \in A : x \in Adjacent[y] /\ lv[x] = lv[y] + 1
    BY <1>5
  <2> QED BY <1>5, <2>1
<1>8. ASSUME NEW k \in 1..N, k - 1 \in S PROVE k \in S
  <2> SUFFICES ASSUME NEW x \in A, lv[x] <= k, x # a, x \in B PROVE FALSE
    BY <1>5
  <2>1. PICK y \in A : x \in Adjacent[y] /\ lv[x] = lv[y] + 1
    BY <1>5
  <2>2. lv[y] <= k - 1
    BY <1>5, <2>1
  <2>3. y \notin B
    BY <1>8, <2>2
  <2>4. y \in Adjacent[x]
    BY <1>5, <1>6, <2>1
  <2> QED BY <1>5, <2>3, <2>4
<1>9. N \in S
  <2> HIDE DEF S
  <2>1. 0..N \subseteq S
    BY <1>7, <1>8, UpTo
  <2> QED BY <2>1
<1>10. b \in A
  BY DEF A
<1> QED BY <1>5, <1>9, <1>10

LEMMA PathsBothWays ==
    ASSUME TreeOK, NEW a \in persons, NEW b \in persons
    PROVE  shortest_path(a, b) # <<>> <=> shortest_path(b, a) # <<>>
<1>1. shortest_path(a, b) # <<>> <=> b \in DOMAIN search(a)
  BY PathShort DEF shortest_path
<1>2. shortest_path(b, a) # <<>> <=> a \in DOMAIN search(b)
  BY PathShort DEF shortest_path
<1> QED BY <1>1, <1>2, FoundBothWays

LEMMA NothingIsNearer == ASSUME TreeOK PROVE NothingNearer
BY NearestFound, PathsAreShortest DEF NothingNearer

-----------------------------------------------------------------------------
\* The common ancestors of a and b are those of b and a.
LEMMA BloodTurned ==
    ASSUME TreeOK, NEW a \in persons, NEW b \in persons
    PROVE  /\ blood(a, b) \subseteq Nat \X Nat
           /\ blood(b, a) = {<<d[2], d[1]>> : d \in blood(a, b)}
<1>1. PICK N \in Nat : N = Cardinality(persons)
  BY PeopleCounted
<1>2. PICK up, across : up = ancestors(a) /\ across = ancestors(b)
  OBVIOUS
<1>3. /\ \A x \in DOMAIN up : up[x] \in 0..N
      /\ \A x \in DOMAIN across : across[x] \in 0..N
  BY <1>1, <1>2, AncestorsHaveLevels DEF Levels
<1> DEFINE common == DOMAIN up \cap DOMAIN across
           before(x, y) == \/ up[x] + across[x] < up[y] + across[y]
                           \/ /\ up[x] + across[x] = up[y] + across[y]
                              /\ Larger(up[x], across[x]) <= Larger(up[y], across[y])
           best == {x \in common : \A y \in common : before(x, y)}
           common2 == DOMAIN across \cap DOMAIN up
           before2(x, y) == \/ across[x] + up[x] < across[y] + up[y]
                            \/ /\ across[x] + up[x] = across[y] + up[y]
                               /\ Larger(across[x], up[x]) <= Larger(across[y], up[y])
           best2 == {x \in common2 : \A y \in common2 : before2(x, y)}
<1>4. blood(a, b) = {<<up[c], across[c]>> : c \in best}
  BY <1>2 DEF blood
<1>5. blood(b, a) = {<<across[c], up[c]>> : c \in best2}
  BY <1>2 DEF blood
<1>6. \A x \in common : up[x] \in Nat /\ across[x] \in Nat
  BY <1>3
<1>7. \A x, y \in common : before(x, y) <=> before2(x, y)
  BY <1>6 DEF Larger
<1>8. common = common2
  OBVIOUS
<1>9. best = best2 /\ best \subseteq common
  <2> HIDE DEF before, before2, common, common2
  <2> QED BY <1>7, <1>8
<1> HIDE DEF best, best2, common, common2, before, before2
<1>10. \A c \in best : <<up[c], across[c]>> \in Nat \X Nat
  BY <1>6, <1>9
<1>11. blood(a, b) \subseteq Nat \X Nat
  BY <1>4, <1>10
<1>12. ASSUME NEW e \in blood(b, a) PROVE \E d \in blood(a, b) : e = <<d[2], d[1]>>
  <2>1. PICK c \in best : e = <<across[c], up[c]>>
    BY <1>5, <1>9
  <2>2. PICK d : d = <<up[c], across[c]>>
    OBVIOUS
  <2>3. d \in blood(a, b) /\ e = <<d[2], d[1]>>
    BY <1>4, <2>1, <2>2
  <2> QED BY <2>3
<1>13. ASSUME NEW d \in blood(a, b) PROVE <<d[2], d[1]>> \in blood(b, a)
  <2>1. PICK c \in best : d = <<up[c], across[c]>>
    BY <1>4
  <2>2. <<d[2], d[1]>> = <<across[c], up[c]>>
    BY <2>1
  <2> QED BY <1>5, <1>9, <2>2
<1> QED BY <1>11, <1>12, <1>13

LEMMA SpousesBothWays ==
    ASSUME NEW a \in persons, NEW b \in persons
    PROVE  b \in spouses(a) <=> a \in spouses(b)
BY DEF spouses

\* What one is of the other through a spouse of one of them.
LEMMA InLawTurned ==
    ASSUME NEW s, NEW b, NEW i \in Nat, NEW j \in Nat
    PROVE  \/ /\ their_in_law(b, s, <<j, i>>) = turned(in_law(s, b, <<i, j>>))
              /\ in_law(s, b, <<i, j>>) = turned(their_in_law(b, s, <<j, i>>))
           \/ /\ in_law(s, b, <<i, j>>)[1] \in Remote
              /\ their_in_law(b, s, <<j, i>>)[1] \in Remote
<1>1. CASE i = 1 /\ j = 0
  <2>1. in_law(s, b, <<1, 0>>) = <<"parent in law", 1>> /\ their_in_law(b, s, <<0, 1>>) = <<"child in law", 1>>
    BY DEF in_law, their_in_law
  <2>2. /\ turned(<<"parent in law", 1>>) = <<"child in law", 1>>
        /\ turned(<<"child in law", 1>>) = <<"parent in law", 1>>
    BY DEF turned
  <2> QED BY <1>1, <2>1, <2>2
<1>2. CASE i = 1 /\ j = 1
  <2>1. /\ in_law(s, b, <<1, 1>>) = <<"sibling in law", 1>>
        /\ their_in_law(b, s, <<1, 1>>) = <<"sibling in law", 1>>
    BY DEF in_law, their_in_law
  <2>2. turned(<<"sibling in law", 1>>) = <<"sibling in law", 1>>
    BY DEF turned
  <2> QED BY <1>2, <2>1, <2>2
<1>3. CASE i = 0 /\ j = 1
  BY <1>3 DEF in_law, their_in_law, turned
<1>4. CASE <<i, j>> \notin {<<1, 0>>, <<1, 1>>, <<0, 1>>}
  BY <1>4 DEF in_law, their_in_law, Remote
<1> QED BY <1>1, <1>2, <1>3, <1>4

LEMMA MarriagesTurned ==
    ASSUME TreeOK, NEW a \in persons, NEW b \in persons
    PROVE  /\ by_marriage(a, b) = {} <=> by_their_marriage(b, a) = {}
           /\ \/ /\ by_their_marriage(b, a) = {turned(l) : l \in by_marriage(a, b)}
                 /\ by_marriage(a, b) = {turned(l) : l \in by_their_marriage(b, a)}
              \/ /\ \E l \in by_marriage(a, b) : l[1] \in Remote
                 /\ \E l \in by_their_marriage(b, a) : l[1] \in Remote
<1> DEFINE E == UNION {{<<s, d>> : d \in blood(s, b)} : s \in spouses(a)}
           one(e) == in_law(e[1], b, e[2])
           other(e) == their_in_law(b, e[1], <<e[2][2], e[2][1]>>)
<1>1. spouses(a) \subseteq persons
  BY DEF spouses
<1>2. \A s \in spouses(a) : /\ blood(s, b) \subseteq Nat \X Nat
                            /\ blood(b, s) = {<<d[2], d[1]>> : d \in blood(s, b)}
  BY <1>1, BloodTurned
<1>3. by_marriage(a, b) = {one(e) : e \in E}
  <2>1. \A l : l \in by_marriage(a, b) <=> \E s \in spouses(a) : \E d \in blood(s, b) : l = in_law(s, b, d)
    BY DEF by_marriage
  <2>2. \A e : e \in E <=> \E s \in spouses(a) : \E d \in blood(s, b) : e = <<s, d>>
    OBVIOUS
  <2>3. \A s, d : one(<<s, d>>) = in_law(s, b, d)
    OBVIOUS
  <2> HIDE DEF E, one
  <2>4. ASSUME NEW l \in by_marriage(a, b) PROVE \E e \in E : l = one(e)
    <3>1. PICK s \in spouses(a) : \E d \in blood(s, b) : l = in_law(s, b, d)
      BY <2>1
    <3>2. PICK d \in blood(s, b) : l = in_law(s, b, d)
      BY <3>1
    <3> QED BY <2>2, <2>3, <3>2
  <2>5. ASSUME NEW e \in E PROVE one(e) \in by_marriage(a, b)
    <3>1. PICK s \in spouses(a) : \E d \in blood(s, b) : e = <<s, d>>
      BY <2>2
    <3>2. PICK d \in blood(s, b) : e = <<s, d>>
      BY <3>1
    <3> QED BY <2>1, <2>3, <3>2
  <2> QED BY <2>4, <2>5
<1>4. by_their_marriage(b, a) = {other(e) : e \in E}
  <2>1. \A l : l \in by_their_marriage(b, a) <=> \E s \in spouses(a) : \E d \in blood(b, s) : l = their_in_law(b, s, d)
    BY DEF by_their_marriage
  <2>2. \A e : e \in E <=> \E s \in spouses(a) : \E d \in blood(s, b) : e = <<s, d>>
    OBVIOUS
  <2>3. \A s, d : other(<<s, d>>) = their_in_law(b, s, <<d[2], d[1]>>)
    OBVIOUS
  <2> HIDE DEF E, other
  <2>4. \A s \in spouses(a) : \A l : (\E d \in blood(b, s) : l = their_in_law(b, s, d))
                                       <=> \E d \in blood(s, b) : l = their_in_law(b, s, <<d[2], d[1]>>)
    BY <1>2
  <2>5. ASSUME NEW l \in by_their_marriage(b, a) PROVE \E e \in E : l = other(e)
    <3>1. PICK s \in spouses(a) : \E d \in blood(b, s) : l = their_in_law(b, s, d)
      BY <2>1
    <3>2. PICK d \in blood(s, b) : l = their_in_law(b, s, <<d[2], d[1]>>)
      BY <2>4, <3>1
    <3> QED BY <2>2, <2>3, <3>2
  <2>6. ASSUME NEW e \in E PROVE other(e) \in by_their_marriage(b, a)
    <3>1. PICK s \in spouses(a) : \E d \in blood(s, b) : e = <<s, d>>
      BY <2>2
    <3>2. PICK d \in blood(s, b) : e = <<s, d>>
      BY <3>1
    <3>3. other(e) = their_in_law(b, s, <<d[2], d[1]>>)
      BY <2>3, <3>2
    <3>4. <<d[2], d[1]>> \in blood(b, s)
      BY <1>2
    <3> QED BY <2>1, <3>3, <3>4
  <2> QED BY <2>5, <2>6
<1>5. \A e \in E : \/ other(e) = turned(one(e)) /\ one(e) = turned(other(e))
                   \/ one(e)[1] \in Remote /\ other(e)[1] \in Remote
  <2> SUFFICES ASSUME NEW e \in E
               PROVE  \/ other(e) = turned(one(e)) /\ one(e) = turned(other(e))
                      \/ one(e)[1] \in Remote /\ other(e)[1] \in Remote
    OBVIOUS
  <2>1. PICK s \in spouses(a) : \E d \in blood(s, b) : e = <<s, d>>
    OBVIOUS
  <2>2. PICK d \in blood(s, b) : e = <<s, d>>
    BY <2>1
  <2>3. PICK i \in Nat, j \in Nat : d = <<i, j>>
    BY <1>2
  <2>4. one(e) = in_law(s, b, <<i, j>>) /\ other(e) = their_in_law(b, s, <<j, i>>)
    BY <2>2, <2>3
  <2> HIDE DEF one, other, E
  <2> QED BY <2>4, InLawTurned
<1> HIDE DEF E, one, other
<1>6. by_marriage(a, b) = {} <=> by_their_marriage(b, a) = {}
  BY <1>3, <1>4
<1>7. CASE \E e \in E : one(e)[1] \in Remote /\ other(e)[1] \in Remote
  BY <1>3, <1>4, <1>6, <1>7
<1>8. CASE \A e \in E : other(e) = turned(one(e)) /\ one(e) = turned(other(e))
  BY <1>3, <1>4, <1>6, <1>8
<1> QED BY <1>5, <1>7, <1>8

\* A relation and the one back, when nobody or only one of the two has married.
LEMMA SelfTurned ==
    /\ turned(<<"self", 0>>) = <<"self", 0>> /\ turned(<<"spouse", 1>>) = <<"spouse", 1>>
    /\ turned(<<"by alliances", 0>>) = <<"by alliances", 0>> /\ turned(<<"unrelated", 0>>) = <<"unrelated", 0>>
BY DEF turned

ByPath(a, b) == IF shortest_path(a, b) # <<>> THEN {<<"by alliances", 0>>} ELSE {<<"unrelated", 0>>}

LEMMA PathsTurned ==
    ASSUME TreeOK, NEW a \in persons, NEW b \in persons
    PROVE  ByPath(b, a) = ByPath(a, b) /\ ByPath(b, a) = {turned(l) : l \in ByPath(a, b)}
<1>1. ByPath(b, a) = ByPath(a, b)
  BY PathsBothWays DEF ByPath
<1>2. CASE shortest_path(a, b) # <<>>
  <2>1. ByPath(a, b) = {<<"by alliances", 0>>}
    BY <1>2 DEF ByPath
  <2> QED BY <1>1, <2>1, SelfTurned
<1>3. CASE shortest_path(a, b) = <<>>
  <2>1. ByPath(a, b) = {<<"unrelated", 0>>}
    BY <1>3 DEF ByPath
  <2> QED BY <1>1, <2>1, SelfTurned
<1> QED BY <1>1, <1>2, <1>3

Mutual(a, b, there, back) ==
    \/ back = {turned(l) : l \in there}
    \/ \E l \in there \cup back : l[1] \in Remote
    \/ blood(a, b) = {} /\ spouses(a) # {} /\ spouses(b) # {}

LEMMA TwoAreMutual ==
    ASSUME TreeOK, NEW a \in persons, NEW b \in persons
    PROVE  Mutual(a, b, get_relationship(a, b), get_relationship(b, a))
<1> DEFINE there == get_relationship(a, b)
           back == get_relationship(b, a)
<1>1. CASE a = b
  <2>1. there = {<<"self", 0>>} /\ back = {<<"self", 0>>}
    BY <1>1 DEF get_relationship
  <2> HIDE DEF there, back
  <2>2. Mutual(a, b, there, back)
    BY <2>1, SelfTurned DEF Mutual
  <2> QED BY <2>2 DEF there, back
<1>2. blood(a, b) \subseteq Nat \X Nat /\ blood(b, a) = {<<d[2], d[1]>> : d \in blood(a, b)}
  BY BloodTurned
<1>3. blood(b, a) = {} <=> blood(a, b) = {}
  BY <1>2
<1>4. CASE a # b /\ blood(a, b) # {}
  <2>1. there = {label(a, b, d) : d \in blood(a, b)} /\ back = {label(b, a, d) : d \in blood(b, a)}
    BY <1>3, <1>4, CalledByBlood
  <2> HIDE DEF there, back
  <2>2. \A d \in blood(a, b) : label(b, a, <<d[2], d[1]>>) = turned(label(a, b, d))
    <3> SUFFICES ASSUME NEW d \in blood(a, b) PROVE label(b, a, <<d[2], d[1]>>) = turned(label(a, b, d))
      OBVIOUS
    <3>1. PICK i \in Nat, j \in Nat : d = <<i, j>>
      BY <1>2
    <3>2. label(b, a, <<j, i>>) = turned(label(a, b, <<i, j>>))
      BY LabelTurned
    <3>3. <<d[2], d[1]>> = <<j, i>>
      BY <3>1
    <3> QED BY <3>1, <3>2, <3>3
  <2>3. ASSUME NEW l \in back PROVE l \in {turned(x) : x \in there}
    <3>1. PICK e \in blood(b, a) : l = label(b, a, e)
      BY <2>1
    <3>2. PICK d \in blood(a, b) : e = <<d[2], d[1]>>
      BY <1>2
    <3> QED BY <2>1, <2>2, <3>1, <3>2
  <2>4. ASSUME NEW x \in there PROVE turned(x) \in back
    <3>1. PICK d \in blood(a, b) : x = label(a, b, d)
      BY <2>1
    <3>2. <<d[2], d[1]>> \in blood(b, a)
      BY <1>2
    <3> QED BY <2>1, <2>2, <3>1, <3>2
  <2>5. Mutual(a, b, there, back)
    BY <2>3, <2>4 DEF Mutual
  <2> QED BY <2>5 DEF there, back
<1>5. CASE a # b /\ blood(a, b) = {} /\ b \in spouses(a)
  <2>1. there = {<<"spouse", 1>>} /\ back = {<<"spouse", 1>>}
    BY <1>3, <1>5, SpousesBothWays DEF get_relationship
  <2> HIDE DEF there, back
  <2>2. Mutual(a, b, there, back)
    BY <2>1, SelfTurned DEF Mutual
  <2> QED BY <2>2 DEF there, back
<1>6. CASE a # b /\ blood(a, b) = {} /\ b \notin spouses(a) /\ spouses(b) = {}
  <2>1. by_marriage(b, a) = {} /\ by_their_marriage(a, b) = {}
    BY <1>6 DEF by_marriage, by_their_marriage
  <2>2. /\ there = IF by_marriage(a, b) # {} THEN by_marriage(a, b) ELSE ByPath(a, b)
        /\ back = IF by_their_marriage(b, a) # {} THEN by_their_marriage(b, a) ELSE ByPath(b, a)
    BY <1>3, <1>6, <2>1, SpousesBothWays DEF get_relationship, ByPath
  <2> HIDE DEF there, back
  <2>3. CASE by_marriage(a, b) = {}
    <3>1. there = ByPath(a, b) /\ back = ByPath(b, a)
      BY <2>2, <2>3, MarriagesTurned
    <3>2. Mutual(a, b, there, back)
      BY <3>1, PathsTurned DEF Mutual
    <3> QED BY <3>2 DEF there, back
  <2>4. CASE by_marriage(a, b) # {}
    <3>1. there = by_marriage(a, b) /\ back = by_their_marriage(b, a)
      BY <2>2, <2>4, MarriagesTurned
    <3>2. \/ back = {turned(l) : l \in there}
          \/ \E l \in there : l[1] \in Remote
      BY <3>1, MarriagesTurned
    <3>3. Mutual(a, b, there, back)
      BY <3>2 DEF Mutual
    <3> QED BY <3>3 DEF there, back
  <2> QED BY <2>3, <2>4
<1>7. CASE a # b /\ blood(a, b) = {} /\ b \notin spouses(a) /\ spouses(a) = {}
  <2>1. by_marriage(a, b) = {} /\ by_their_marriage(b, a) = {}
    BY <1>7 DEF by_marriage, by_their_marriage
  <2>2. /\ there = IF by_their_marriage(a, b) # {} THEN by_their_marriage(a, b) ELSE ByPath(a, b)
        /\ back = IF by_marriage(b, a) # {} THEN by_marriage(b, a) ELSE ByPath(b, a)
    BY <1>3, <1>7, <2>1, SpousesBothWays DEF get_relationship, ByPath
  <2> HIDE DEF there, back
  <2>3. CASE by_marriage(b, a) = {}
    <3>1. there = ByPath(a, b) /\ back = ByPath(b, a)
      BY <2>2, <2>3, MarriagesTurned
    <3>2. Mutual(a, b, there, back)
      BY <3>1, PathsTurned DEF Mutual
    <3> QED BY <3>2 DEF there, back
  <2>4. CASE by_marriage(b, a) # {}
    <3>1. there = by_their_marriage(a, b) /\ back = by_marriage(b, a)
      BY <2>2, <2>4, MarriagesTurned
    <3>2. \/ back = {turned(l) : l \in there}
          \/ \E l \in there : l[1] \in Remote
      BY <3>1, MarriagesTurned
    <3>3. Mutual(a, b, there, back)
      BY <3>2 DEF Mutual
    <3> QED BY <3>3 DEF there, back
  <2> QED BY <2>3, <2>4
<1>8. CASE blood(a, b) = {} /\ spouses(a) # {} /\ spouses(b) # {}
  BY <1>8 DEF Mutual
<1> QED BY <1>1, <1>4, <1>5, <1>6, <1>7, <1>8

LEMMA RelationsAreMutual == ASSUME TreeOK PROVE RelationIsMutual
<1> SUFFICES ASSUME NEW a \in Compared, NEW b \in Compared
             PROVE  Mutual(a, b, get_relationship(a, b), get_relationship(b, a))
  BY DEF RelationIsMutual, Mutual
<1>1. a \in persons /\ b \in persons
  BY DEF Compared
<1> QED BY <1>1, TwoAreMutual

LEMMA ViewsAgreeHere == ASSUME TreeOK PROVE ViewsAgree
BY RelationsAreMutual, PanelsAgree, DrawingIsWhole DEF ViewsAgree

-----------------------------------------------------------------------------
(***************************************************************************)
(* Kinship over the rows of Tree.                                          *)
(***************************************************************************)

\* The graph is what _load_graph, and the queries of tree/service.py and
\* consistency.py, read from the tables.
slots(column) == [f \in Ids(Of(rows, "families")) |-> At(rows, f).ref[column]]
GraphIsRead ==
    /\ persons = Ids(Of(rows, "persons"))
    /\ husband = slots("husband") /\ wife = slots("wife")
    /\ child = {<<r.ref.family, r.ref.person>> : r \in Of(rows, "family_children")}

\* Rows that satisfy their keys are a tree.
LEMMA RowsAreTree ==
    ASSUME RowsOK, IsFiniteSet(rows), GraphIsRead
    PROVE  TreeOK
<1>1. /\ \A r \in rows : WellFormed(r)
      /\ \A r \in rows, c \in Columns :
            r.t # "citations" /\ r.ref[c] # None => r.ref[c] \in Ids(Of(rows, Refers[c]))
      /\ \A a, b \in rows : a.id = b.id => a = b
  BY DEF RowsOK, Valid, Keyed
<1>2. /\ Refers["husband"] = "persons" /\ Refers["wife"] = "persons"
      /\ Refers["person"] = "persons" /\ Refers["family"] = "families"
  BY DEF Refers
<1>3. IsFiniteSet(persons)
  <2> DEFINE P == Of(rows, "persons")
             key == [r \in P |-> r.id]
  <2>1. IsFiniteSet(P)
    BY FS_Subset DEF Of
  <2>2. \A x \in persons : \E r \in P : key[r] = x
    BY DEF GraphIsRead, Ids
  <2>3. key \in Surjection(P, persons)
    BY <2>2 DEF Surjection, GraphIsRead, Ids
  <2> QED BY <2>1, <2>3, FS_Surjection
<1>4. None \notin persons
  <2> SUFFICES ASSUME NEW r \in rows, r.t = "persons" PROVE r.id # None
    BY DEF GraphIsRead, Ids, Of
  <2> QED BY <1>1, IdIs
<1>5. ASSUME NEW f \in family_rows, NEW c \in {"husband", "wife"}
      PROVE  slots(c)[f] \in persons \cup {None}
  <2>1. PICK r \in rows : r.t = "families" /\ r.id = f
    BY DEF GraphIsRead, family_rows, slots, Ids, Of
  <2>2. At(rows, f) = r
    BY <1>1, <2>1, AtOnly
  <2>3. slots(c)[f] = r.ref[c]
    BY <2>1, <2>2 DEF slots, Ids, Of
  <2>4. c \in Columns /\ Refers[c] = "persons"
    BY <1>2 DEF Columns
  <2> QED BY <1>1, <2>1, <2>3, <2>4 DEF GraphIsRead
<1>6. child \subseteq family_rows \X persons
  <2> SUFFICES ASSUME NEW r \in rows, r.t = "family_children"
               PROVE  r.ref.family \in family_rows /\ r.ref.person \in persons
    BY DEF GraphIsRead, Of
  <2>1. r.ref["family"] # None /\ r.ref["person"] # None
    BY <1>1, ChildIs
  <2>2. "family" \in Columns /\ "person" \in Columns
    BY DEF Columns
  <2>3. r.ref.family \in Ids(Of(rows, "families")) /\ r.ref.person \in Ids(Of(rows, "persons"))
    BY <1>1, <1>2, <2>1, <2>2
  <2> QED BY <2>3 DEF GraphIsRead, family_rows, slots
<1>7. \A f \in family_rows : {husband[f], wife[f]} \subseteq persons \cup {None}
  BY <1>5 DEF GraphIsRead
<1> QED BY <1>3, <1>4, <1>6, <1>7 DEF TreeOK

-----------------------------------------------------------------------------
\* A finite tree stays finite: a request writes finitely many rows.
LEMMA FiniteImage ==
    ASSUME NEW S, IsFiniteSet(S), NEW g, NEW T, T = {g[x] : x \in S}
    PROVE  IsFiniteSet(T)
<1> DEFINE f == [x \in S |-> g[x]]
<1>1. f \in Surjection(S, T)
  BY DEF Surjection
<1> QED BY <1>1, FS_Surjection

LEMMA OneOrTwo ==
    ASSUME NEW x, NEW y
    PROVE  IsFiniteSet({x}) /\ IsFiniteSet({x, y})
<1>1. IsFiniteSet({x}) /\ IsFiniteSet({y})
  BY FS_Singleton
<1>2. {x, y} = {x} \cup {y}
  OBVIOUS
<1> QED BY <1>1, <1>2, FS_Union

LEMMA FiniteApply ==
    ASSUME IsFiniteSet(rows), NEW W, IsFiniteSet(W)
    PROVE  IsFiniteSet(Apply(rows, W))
<1> DEFINE over == [w \in Updates(W) |-> Overlay(w, At(rows, w.old.id))]
           made == {w.new : w \in Inserts(W)}
           new == [w \in Inserts(W) |-> w.new]
           all == Flushed(rows, W)
           owned == Belonging(all, Gone(W))
           gone == Gone(W) \cup Ids(owned)
           left == {x \in all : x.id \notin Gone(W) /\ x \notin owned}
           forget == [r \in left |-> Forgetting(r, gone)]
<1>1. IsFiniteSet(Updates(W)) /\ IsFiniteSet(Inserts(W))
  BY FS_Subset DEF Updates, Inserts
<1>2. Changed(rows, W) = {over[w] : w \in Updates(W)}
  BY DEF Changed
<1>3. made = {new[w] : w \in Inserts(W)}
  OBVIOUS
<1>4. IsFiniteSet(Changed(rows, W)) /\ IsFiniteSet(made)
  <2> HIDE DEF over, made, new
  <2> QED BY <1>1, <1>2, <1>3, FiniteImage
<1>5. IsFiniteSet({r \in rows : r.id \notin Touched(W)})
  BY FS_Subset
<1>6. IsFiniteSet(all)
  <2>1. all = {r \in rows : r.id \notin Touched(W)} \cup Changed(rows, W) \cup made
    BY DEF Flushed
  <2> HIDE DEF all, made
  <2> QED BY <1>4, <1>5, <2>1, FS_Union
<1>7. IsFiniteSet(left)
  <2> HIDE DEF all, owned
  <2> QED BY <1>6, FS_Subset
<1>8. Apply(rows, W) = {forget[r] : r \in left}
  <2>1. Apply(rows, W) = Remove(all, Gone(W))
    BY AppliedIs
  <2>2. Remove(all, Gone(W)) = {Forgetting(r, gone) : r \in left}
    BY DEF Remove
  <2> HIDE DEF all, gone, left
  <2> QED BY <2>1, <2>2
<1> HIDE DEF left, forget
<1> QED BY <1>7, <1>8, FiniteImage

\* The rows of a request, action by action.
FiniteRequest(w) == \E a, W : audited(w, a, W) /\ IsFiniteSet(W)

LEMMA FinitePlainly ==
    ASSUME NEW w, \/ create_person(w) \/ update_person(w) \/ add_event(w) \/ edit_event(w)
                  \/ delete_event(w) \/ create_citation(w) \/ delete_citation(w)
    PROVE  FiniteRequest(w)
<1>0. \A x, y : IsFiniteSet({x}) /\ IsFiniteSet({x, y})
  BY OneOrTwo
<1>1. CASE create_person(w)
  <2>1. PICK p, n, sex, sig : audited(w, "person_create", {ins(Person(p, sex)), ins(Name(n, p, sig, TRUE))})
    BY <1>1 DEF create_person
  <2> QED BY <1>0, <2>1 DEF FiniteRequest
<1>2. CASE update_person(w)
  <2>1. \E x : audited(w, "person_update", {x})
    BY <1>2 DEF update_person
  <2> QED BY <1>0, <2>1 DEF FiniteRequest
<1>3. CASE add_event(w)
  <2>1. \E x : audited(w, "event_add", {x})
    BY <1>3 DEF add_event
  <2> QED BY <1>0, <2>1 DEF FiniteRequest
<1>4. CASE edit_event(w)
  <2>1. \E x : audited(w, "event_edit", {x})
    BY <1>4 DEF edit_event
  <2> QED BY <1>0, <2>1 DEF FiniteRequest
<1>5. CASE delete_event(w)
  <2>1. \E x : audited(w, "event_delete", {x})
    BY <1>5 DEF delete_event
  <2> QED BY <1>0, <2>1 DEF FiniteRequest
<1>6. CASE create_citation(w)
  <2>1. \E x : audited(w, "citation_add", {x})
    BY <1>6 DEF create_citation
  <2> QED BY <1>0, <2>1 DEF FiniteRequest
<1>7. CASE delete_citation(w)
  <2>1. \E x : audited(w, "citation_delete", {x})
    BY <1>7 DEF delete_citation
  <2> QED BY <1>0, <2>1 DEF FiniteRequest
<1> QED BY <1>1, <1>2, <1>3, <1>4, <1>5, <1>6, <1>7

\* A link writes a row or two.
Few(S) == \A W \in S : \E x, y : W = {x} \/ W = {x, y}

LEMMA LinksAreFew ==
    ASSUME NEW p, NEW q, NEW relation
    PROVE  Few(link_parent(p, q, relation)) /\ Few(link_spouse(p, q)) /\ Few(link_child(p, q))
<1>1. Few(link_parent(p, q, relation))
  <2>1. CASE ParentFamilies(p) = {}
    BY <2>1 DEF link_parent, Few
  <2>2. CASE ParentFamilies(p) # {}
    BY <2>2 DEF link_parent, Few
  <2> QED BY <2>1, <2>2
<1>2. Few(link_spouse(p, q))
  <2> SUFFICES ASSUME NEW W \in link_spouse(p, q) PROVE \E x : W = {x}
    BY DEF Few
  <2> DEFINE free(f) == IF f.ref.husband = p THEN "wife" ELSE "husband"
             open == {f \in FamiliesOf(p) : f.ref[free(f)] = None}
  <2>1. CASE \E f \in FamiliesOf(p) : q \in Spouses(f)
    BY <2>1 DEF link_spouse
  <2>2. CASE (\A f \in FamiliesOf(p) : q \notin Spouses(f)) /\ open # {}
    <3>1. link_spouse(p, q) = {{upd(f, Filled(f, free(f), q))} : f \in open}
      BY <2>2 DEF link_spouse
    <3> HIDE DEF open, free
    <3> QED BY <3>1
  <2>3. CASE (\A f \in FamiliesOf(p) : q \notin Spouses(f)) /\ open = {}
    <3>1. link_spouse(p, q) =
             {{ins(Filled(Filled(Family(f, None, None), SlotFor(p), p), Other(SlotFor(p)), q))} : f \in Fresh(Families)}
      BY <2>3 DEF link_spouse
    <3> QED BY <3>1
  <2> QED BY <2>1, <2>2, <2>3
<1>3. Few(link_child(p, q))
  <2>1. CASE FamiliesOf(p) = {}
    BY <2>1 DEF link_child, Few
  <2>2. CASE FamiliesOf(p) # {}
    BY <2>2 DEF link_child, Few
  <2> QED BY <2>1, <2>2
<1> QED BY <1>1, <1>2, <1>3

LEMMA FewAreFinite ==
    ASSUME NEW S, Few(S), NEW W \in S
    PROVE  IsFiniteSet(W)
<1>1. PICK x, y : W = {x} \/ W = {x, y}
  BY DEF Few
<1>2. IsFiniteSet({x}) /\ IsFiniteSet({x, y})
  BY OneOrTwo
<1> QED BY <1>1, <1>2

LEMMA FiniteLink ==
    ASSUME NEW w, link_relative(w)
    PROVE  FiniteRequest(w)
<1>1. PICK p \in Ids(Of(rows, "persons")), q \in Ids(Of(rows, "persons")), relation \in Relations :
        \E W \in CASE relation \in {"father", "mother", "parent"} -> link_parent(p, q, relation)
                   [] relation = "spouse" -> link_spouse(p, q)
                   [] relation = "child"  -> link_child(p, q) :
           audited(w, "relative_add", W)
  BY DEF link_relative
<1>2. Few(link_parent(p, q, relation)) /\ Few(link_spouse(p, q)) /\ Few(link_child(p, q))
  BY LinksAreFew
<1>3. CASE relation \in {"father", "mother", "parent"}
  <2>1. PICK W \in link_parent(p, q, relation) : audited(w, "relative_add", W)
    BY <1>1, <1>3
  <2> QED BY <1>2, <2>1, FewAreFinite DEF FiniteRequest
<1>4. CASE relation = "spouse"
  <2>1. PICK W \in link_spouse(p, q) : audited(w, "relative_add", W)
    BY <1>1, <1>4
  <2> QED BY <1>2, <2>1, FewAreFinite DEF FiniteRequest
<1>5. CASE relation = "child"
  <2>1. PICK W \in link_child(p, q) : audited(w, "relative_add", W)
    BY <1>1, <1>5
  <2> QED BY <1>2, <2>1, FewAreFinite DEF FiniteRequest
<1> QED BY <1>1, <1>3, <1>4, <1>5 DEF Relations

LEMMA FiniteParts ==
    ASSUME IsFiniteSet(rows), NEW p
    PROVE  /\ \A t : IsFiniteSet(About(rows, t, p))
           /\ IsFiniteSet(FamiliesOf(p)) /\ IsFiniteSet(ParentFamilies(p))
<1>1. \A t : About(rows, t, p) \subseteq rows
  BY DEF About, Of
<1>2. FamiliesOf(p) \subseteq rows
  BY DEF FamiliesOf, Of
<1>3. \A S : S \subseteq rows => IsFiniteSet(S)
  BY FS_Subset
<1> DEFINE C == About(rows, "family_children", p)
           g == [c \in C |-> At(rows, c.ref.family)]
<1>4. ParentFamilies(p) = {g[c] : c \in C}
  BY DEF ParentFamilies
<1>5. IsFiniteSet(C)
  BY <1>1, <1>3
<1>6. IsFiniteSet(ParentFamilies(p))
  <2> HIDE DEF C, g
  <2> QED BY <1>4, <1>5, FiniteImage
<1> QED BY <1>1, <1>2, <1>3, <1>6

LEMMA FiniteUnlink ==
    ASSUME IsFiniteSet(rows), NEW w, unlink_relative(w)
    PROVE  FiniteRequest(w)
<1>1. PICK p \in Ids(Of(rows, "persons")), q \in Ids(Of(rows, "persons")) :
        \/ audited(w, "relative_unlink",
                   {upd(f, Cleared(f, q)) : f \in {x \in ParentFamilies(p) : q \in Spouses(x)}})
        \/ \E x : audited(w, "relative_unlink", {x})
  BY DEF unlink_relative
<1> DEFINE S == {x \in ParentFamilies(p) : q \in Spouses(x)}
           g == [f \in S |-> upd(f, Cleared(f, q))]
           W == {upd(f, Cleared(f, q)) : f \in S}
<1>2. IsFiniteSet(S)
  BY FiniteParts, FS_Subset
<1>3. W = {g[f] : f \in S}
  OBVIOUS
<1>4. IsFiniteSet(W)
  <2> HIDE DEF S, g, W
  <2> QED BY <1>2, <1>3, FiniteImage
<1> HIDE DEF W
<1>5. audited(w, "relative_unlink", W) \/ \E x : audited(w, "relative_unlink", {x})
  BY <1>1 DEF W
<1> QED BY <1>4, <1>5, OneOrTwo DEF FiniteRequest

LEMMA FiniteMerge ==
    ASSUME IsFiniteSet(rows), NEW w, merge_persons(w)
    PROVE  FiniteRequest(w)
<1>1. PICK keep, dup, M :
        audited(w, "person_merge",
                merge_names(M, keep, dup) \cup merge_anchored(keep, dup)
                \cup merge_children(keep, dup) \cup merge_slots(keep, dup)
                \cup merge_candidates(keep, dup) \cup merge_sex(keep, dup)
                \cup {del(At(rows, dup))})
  BY DEF merge_persons
<1>2. IsFiniteSet(merge_names(M, keep, dup))
  <2> DEFINE S == About(rows, "names", dup)
             g == [n \in S |-> IF n \in M THEN upd(n, [Moved(n, keep) EXCEPT !.primary = FALSE]) ELSE del(n)]
  <2>1. merge_names(M, keep, dup) = {g[n] : n \in S}
    BY DEF merge_names
  <2>2. IsFiniteSet(S)
    BY FiniteParts
  <2> HIDE DEF S, g
  <2> QED BY <2>1, <2>2, FiniteImage
<1>3. IsFiniteSet(merge_anchored(keep, dup))
  <2> DEFINE S == UNION {About(rows, t, dup) : t \in {"events", "citations", "person_mentions"}}
             g == [r \in S |-> upd(r, Moved(r, keep))]
  <2>1. merge_anchored(keep, dup) = {g[r] : r \in S}
    BY DEF merge_anchored
  <2>2. S \subseteq rows
    BY DEF About, Of
  <2> HIDE DEF S, g
  <2>3. IsFiniteSet(S)
    BY <2>2, FS_Subset
  <2> QED BY <2>1, <2>3, FiniteImage
<1>4. IsFiniteSet(merge_children(keep, dup))
  <2> DEFINE S == About(rows, "family_children", dup)
             g == [c \in S |-> IF <<c.ref.family, keep>> \in Ids(Of(rows, "family_children"))
                               THEN del(c) ELSE upd(c, Child(c.ref.family, keep))]
  <2>1. merge_children(keep, dup) = {g[n] : n \in S}
    BY DEF merge_children
  <2>2. IsFiniteSet(S)
    BY FiniteParts
  <2> HIDE DEF S, g
  <2> QED BY <2>1, <2>2, FiniteImage
<1>5. IsFiniteSet(merge_slots(keep, dup))
  <2> DEFINE S == FamiliesOf(dup)
             g == [f \in S |-> upd(f, [f EXCEPT !.ref = [c \in Columns |->
                                                            IF f.ref[c] = dup THEN keep ELSE f.ref[c]]])]
  <2>1. merge_slots(keep, dup) = {g[n] : n \in S}
    BY DEF merge_slots
  <2>2. IsFiniteSet(S)
    BY FiniteParts
  <2> HIDE DEF S, g
  <2> QED BY <2>1, <2>2, FiniteImage
<1>6. IsFiniteSet(merge_candidates(keep, dup))
  <2> DEFINE S == About(rows, "match_candidates", dup)
             g == [c \in S |-> IF \E k \in About(rows, "match_candidates", keep) : k.ref.mention = c.ref.mention
                               THEN del(c) ELSE upd(c, Moved(c, keep))]
  <2>1. merge_candidates(keep, dup) = {g[n] : n \in S}
    BY DEF merge_candidates
  <2>2. IsFiniteSet(S)
    BY FiniteParts
  <2> HIDE DEF S, g
  <2> QED BY <2>1, <2>2, FiniteImage
<1>7. IsFiniteSet(merge_sex(keep, dup))
  <2>1. merge_sex(keep, dup) = {} \/ \E x : merge_sex(keep, dup) = {x}
    BY DEF merge_sex
  <2> QED BY <2>1, OneOrTwo, FS_EmptySet
<1>8. IsFiniteSet({del(At(rows, dup))})
  BY OneOrTwo
<1> DEFINE W == merge_names(M, keep, dup) \cup merge_anchored(keep, dup)
                \cup merge_children(keep, dup) \cup merge_slots(keep, dup)
                \cup merge_candidates(keep, dup) \cup merge_sex(keep, dup)
                \cup {del(At(rows, dup))}
<1>9. IsFiniteSet(W)
  BY <1>2, <1>3, <1>4, <1>5, <1>6, <1>7, <1>8, FS_Union
<1> QED BY <1>1, <1>9 DEF FiniteRequest

LEMMA FiniteDelete ==
    ASSUME IsFiniteSet(rows), NEW w, delete_person(w)
    PROVE  FiniteRequest(w)
<1>1. PICK p \in Of(rows, "persons") :
        audited(w, "person_delete",
            {del(r) : r \in UNION {About(rows, t, p.id) : t \in {"names", "events", "family_children", "citations"}}}
            \cup {upd(f, [f EXCEPT !.ref = [c \in Columns |-> IF f.ref[c] = p.id THEN None ELSE f.ref[c]]])
                    : f \in FamiliesOf(p.id)}
            \cup {del(p)})
  BY DEF delete_person
<1> DEFINE S == UNION {About(rows, t, p.id) : t \in {"names", "events", "family_children", "citations"}}
           g == [r \in S |-> del(r)]
           A == {del(r) : r \in S}
           T == FamiliesOf(p.id)
           h == [f \in T |-> upd(f, [f EXCEPT !.ref = [c \in Columns |->
                                                          IF f.ref[c] = p.id THEN None ELSE f.ref[c]]])]
           B == {upd(f, [f EXCEPT !.ref = [c \in Columns |-> IF f.ref[c] = p.id THEN None ELSE f.ref[c]]]) : f \in T}
<1>2. S \subseteq rows
  BY DEF About, Of
<1>3. IsFiniteSet(T)
  BY FiniteParts
<1>4. A = {g[r] : r \in S}
  OBVIOUS
<1>5. B = {h[f] : f \in T}
  OBVIOUS
<1>6. audited(w, "person_delete", A \cup B \cup {del(p)})
  BY <1>1
<1> HIDE DEF S, g, A, T, h, B
<1>7. IsFiniteSet(A) /\ IsFiniteSet(B)
  <2>1. IsFiniteSet(S)
    BY <1>2, FS_Subset
  <2>2. IsFiniteSet(A)
    BY <1>4, <2>1, FiniteImage
  <2> QED BY <1>3, <1>5, <2>2, FiniteImage
<1>8. IsFiniteSet(A \cup B \cup {del(p)})
  BY <1>7, OneOrTwo, FS_Union
<1> QED BY <1>6, <1>8 DEF FiniteRequest

-----------------------------------------------------------------------------
(***************************************************************************)
(* The rows, the images of every change and the writes of every request    *)
(* are finitely many.                                                      *)
(***************************************************************************)
FiniteInv ==
    /\ IsFiniteSet(rows)
    /\ \A n \in 1..Len(log) : IsFiniteSet(log[n].rows)
    /\ \A w \in Writers : req[w] # None => IsFiniteSet(req[w].writes)

LEMMA FiniteAsked ==
    ASSUME TreeInv, FiniteInv, NEW w \in Writers,
           \/ create_person(w) \/ update_person(w) \/ add_event(w) \/ edit_event(w) \/ delete_event(w)
           \/ create_citation(w) \/ delete_citation(w) \/ link_relative(w) \/ unlink_relative(w)
           \/ merge_persons(w) \/ delete_person(w)
    PROVE  FiniteInv'
<1>1. IsFiniteSet(rows)
  BY DEF FiniteInv
<1>2. FiniteRequest(w)
  BY <1>1, FinitePlainly, FiniteLink, FiniteUnlink, FiniteMerge, FiniteDelete
<1>3. PICK a, W : audited(w, a, W) /\ IsFiniteSet(W)
  BY <1>2 DEF FiniteRequest
<1>4. /\ req' = [req EXCEPT ![w] = [action |-> a, writes |-> W, reverts |-> 0]]
      /\ rows' = rows /\ log' = log
  BY <1>3 DEF audited
<1>5. DOMAIN req = Writers
  BY DEF TreeInv, ReqInv
<1>6. \A v \in Writers : req'[v] # None => IsFiniteSet(req'[v].writes)
  <2> SUFFICES ASSUME NEW v \in Writers, req'[v] # None PROVE IsFiniteSet(req'[v].writes)
    OBVIOUS
  <2>1. CASE v = w
    <3>1. req'[v].writes = W
      BY <1>4, <1>5, <2>1
    <3> QED BY <1>3, <3>1
  <2>2. CASE v # w
    <3>1. req'[v] = req[v]
      BY <1>4, <1>5, <2>2
    <3> QED BY <3>1 DEF FiniteInv
  <2> QED BY <2>1, <2>2
<1> QED BY <1>4, <1>6 DEF FiniteInv

LEMMA FiniteRevert ==
    ASSUME TreeInv, FiniteInv, NEW w \in Writers, revert_change(w)
    PROVE  FiniteInv'
<1>1. DOMAIN log = 1..Len(log) /\ DOMAIN req = Writers
  BY DEF TreeInv, LogInv, ReqInv
<1>2. PICK n \in 1..Len(log) :
        /\ req' = [req EXCEPT ![w] = [action |-> "revert", writes |-> inverse(log[n]), reverts |-> n]]
        /\ rows' = rows /\ log' = log
  BY <1>1 DEF revert_change
<1>3. IsFiniteSet(inverse(log[n]))
  <2> DEFINE g == [i \in log[n].rows |-> CASE i.before = None -> del(i.after)
                                           [] i.after = None  -> ins(Living(i.before, rows \cup Restored(log[n])))
                                           [] i.before # None /\ i.after # None -> upd(i.after, i.before)]
  <2>1. inverse(log[n]) = {g[i] : i \in log[n].rows}
    BY DEF inverse
  <2>2. IsFiniteSet(log[n].rows)
    BY DEF FiniteInv
  <2> HIDE DEF g
  <2> QED BY <2>1, <2>2, FiniteImage
<1>4. \A v \in Writers : req'[v] # None => IsFiniteSet(req'[v].writes)
  <2> SUFFICES ASSUME NEW v \in Writers, req'[v] # None PROVE IsFiniteSet(req'[v].writes)
    OBVIOUS
  <2>1. CASE v = w
    <3>1. req'[v].writes = inverse(log[n])
      BY <1>1, <1>2, <2>1
    <3> QED BY <1>3, <3>1
  <2>2. CASE v # w
    <3>1. req'[v] = req[v]
      BY <1>1, <1>2, <2>2
    <3> QED BY <3>1 DEF FiniteInv
  <2> QED BY <2>1, <2>2
<1> QED BY <1>2, <1>4 DEF FiniteInv

LEMMA FiniteCommit ==
    ASSUME TreeInv, FiniteInv, NEW w \in Writers, commit(w)
    PROVE  FiniteInv'
<1> DEFINE W == req[w].writes
           e == [action |-> req[w].action, rows |-> capture_changes(W),
                 reverts |-> req[w].reverts, reverted |-> FALSE]
<1>1. LogInv /\ DOMAIN req = Writers /\ req[w].reverts \in 0..Len(log) /\ IsFiniteSet(W)
  BY DEF TreeInv, FiniteInv, ReqInv, commit, Decided
<1>2. /\ rows' = Apply(rows, W)
      /\ log' = Append(mark_reverted(log, req[w].reverts), e)
      /\ req' = [req EXCEPT ![w] = None]
  BY DEF commit
<1>3. e.rows = capture_changes(W)
  OBVIOUS
<1> HIDE DEF W, e
<1>4. IsFiniteSet(rows')
  BY <1>1, <1>2, FiniteApply DEF FiniteInv
<1>5. IsFiniteSet(capture_changes(W))
  <2> DEFINE g == [x \in W |-> [before |-> x.old, after |-> x.logged]]
  <2>1. capture_changes(W) = {g[x] : x \in W}
    BY DEF capture_changes
  <2> HIDE DEF g
  <2> QED BY <1>1, <2>1, FiniteImage
<1>6. /\ Len(log') = Len(log) + 1 /\ log'[Len(log) + 1] = e
      /\ \A m \in 1..Len(log) : log'[m].rows = log[m].rows
  BY <1>1, <1>2, LogGrows
<1>7. \A m \in 1..Len(log') : IsFiniteSet(log'[m].rows)
  <2> SUFFICES ASSUME NEW m \in 1..Len(log') PROVE IsFiniteSet(log'[m].rows)
    OBVIOUS
  <2>1. Len(log) \in Nat
    BY DEF TreeInv, LogInv
  <2>2. CASE m \in 1..Len(log)
    BY <1>6, <2>2 DEF FiniteInv
  <2>3. CASE m = Len(log) + 1
    BY <1>3, <1>5, <1>6, <2>3
  <2> QED BY <1>6, <2>1, <2>2, <2>3
<1>8. \A v \in Writers : req'[v] # None => req'[v] = req[v]
  BY <1>1, <1>2
<1>9. \A v \in Writers : req'[v] # None => IsFiniteSet(req'[v].writes)
  BY <1>8 DEF FiniteInv
<1> QED BY <1>4, <1>7, <1>9 DEF FiniteInv

LEMMA FiniteRollback ==
    ASSUME TreeInv, FiniteInv, NEW w \in Writers, rollback(w)
    PROVE  FiniteInv'
<1>1. DOMAIN req = Writers
  BY DEF TreeInv, ReqInv
<1>2. \A v \in Writers : req'[v] # None => req'[v] = req[v]
  BY <1>1 DEF rollback
<1>3. rows' = rows /\ log' = log
  BY DEF rollback
<1> QED BY <1>2, <1>3 DEF FiniteInv

LEMMA FiniteStep ==
    ASSUME TreeInv, FiniteInv, [Next]_vars
    PROVE  FiniteInv'
<1>1. CASE UNCHANGED vars
  BY <1>1 DEF vars, FiniteInv
<1>2. CASE Next
  <2>1. PICK w \in Writers : Step(w)
    BY <1>2 DEF Next
  <2> QED BY <2>1, FiniteAsked, FiniteRevert, FiniteCommit, FiniteRollback DEF Step
<1> QED BY <1>1, <1>2

\* Every tree a request leaves is one that Kinship can be asked about.
AnswersInv == TreeInv /\ FiniteInv

LEMMA AnswersStart ==
    ASSUME NoRowIsNone, IsFiniteSet(InitRows), Init
    PROVE  AnswersInv
<1>1. TreeInv
  BY InvStart
<1>2. rows = InitRows /\ Len(log) = 0 /\ req = [w \in Writers |-> None]
  BY DEF Init
<1>3. FiniteInv
  BY <1>2 DEF FiniteInv
<1> QED BY <1>1, <1>3 DEF AnswersInv

LEMMA AnswersStep ==
    ASSUME NoRowIsNone, AnswersInv, [Next]_vars
    PROVE  AnswersInv'
BY InvStep, FiniteStep DEF AnswersInv

LEMMA AnswersTree ==
    ASSUME AnswersInv, GraphIsRead
    PROVE  TreeOK
BY RowsAreTree DEF AnswersInv, TreeInv, FiniteInv

\* Whatever edits, merges, deletions and reverts leave, the report of
\* persons above themselves names everyone who is an ancestor of theirs
\* (_parental_cycles, consistency.py 56-84).
THEOREM CirclesAreFound ==
    ASSUME NoRowIsNone, IsFiniteSet(InitRows), Years \subseteq Int
    PROVE  Spec /\ []GraphIsRead => []CirclesAreReported
<1>1. Init => AnswersInv
  BY AnswersStart
<1>2. AnswersInv /\ [Next]_vars => AnswersInv'
  BY AnswersStep
<1>3. AnswersInv /\ GraphIsRead => CirclesAreReported
  BY AnswersTree, CirclesFound
<1> QED BY <1>1, <1>2, <1>3, PTL DEF Spec

\* The relationship of two persons is drawn over their nearest common
\* ancestors, and the path between them is as short as any
\* (get_relationship and _shortest_path, kinship.py).
THEOREM NearestIsShown ==
    ASSUME NoRowIsNone, IsFiniteSet(InitRows)
    PROVE  Spec /\ []GraphIsRead => []NothingNearer
<1>1. Init => AnswersInv
  BY AnswersStart
<1>2. AnswersInv /\ [Next]_vars => AnswersInv'
  BY AnswersStep
<1>3. AnswersInv /\ GraphIsRead => NothingNearer
  BY AnswersTree, NothingIsNearer
<1> QED BY <1>1, <1>2, <1>3, PTL DEF Spec

\* The relationship of a to b is the converse of that of b to a, the
\* relatives a person's page lists list that person back, and the drawn part
\* of the tree has all its links (get_relationship, get_person, get_graph).
THEOREM OneTreeIsSeen ==
    ASSUME NoRowIsNone, IsFiniteSet(InitRows)
    PROVE  Spec /\ []GraphIsRead => []ViewsAgree
<1>1. Init => AnswersInv
  BY AnswersStart
<1>2. AnswersInv /\ [Next]_vars => AnswersInv'
  BY AnswersStep
<1>3. AnswersInv /\ GraphIsRead => ViewsAgree
  BY AnswersTree, ViewsAgreeHere
<1> QED BY <1>1, <1>2, <1>3, PTL DEF Spec

-----------------------------------------------------------------------------
(***************************************************************************)
(* Trees made row by row, in any order.                                    *)
(***************************************************************************)
RowByRow == TreeInit /\ [][TreeNext]_tree

DrawnInv == TreeOK /\ family_rows = Families

LEMMA DrawnStart ==
    ASSUME TreeInit
    PROVE  DrawnInv
<1>1. IsFiniteSet(persons) /\ None \notin persons
  BY TreeAssumption, FS_Subset DEF TreeInit
<1>2. family_rows = Families /\ \A f \in Families : husband[f] = None /\ wife[f] = None
  BY DEF TreeInit, family_rows
<1>3. child = {}
  BY DEF TreeInit
<1> QED BY <1>1, <1>2, <1>3 DEF DrawnInv, TreeOK

LEMMA DrawnStep ==
    ASSUME DrawnInv, [TreeNext]_tree
    PROVE  DrawnInv'
<1>1. CASE UNCHANGED tree
  BY <1>1 DEF tree, DrawnInv, TreeOK, family_rows
<1>2. CASE TreeNext
  <2>1. PICK f \in Families, p \in persons : set_slot(f, p) \/ add_child(f, p)
    BY <1>2 DEF TreeNext
  <2>2. /\ IsFiniteSet(persons) /\ None \notin persons /\ family_rows = Families
        /\ \A g \in Families : {husband[g], wife[g]} \subseteq persons \cup {None}
        /\ child \subseteq Families \X persons
    BY DEF DrawnInv, TreeOK
  <2>3. persons' = persons
    BY <2>1 DEF set_slot, add_child
  <2>4. /\ DOMAIN husband' = DOMAIN husband
        /\ \A g \in DOMAIN husband : husband'[g] \in {p, husband[g]} /\ wife'[g] \in {p, wife[g]}
    <3>1. CASE husband' = [husband EXCEPT ![f] = p] /\ wife' = wife
      BY <3>1
    <3>2. CASE wife' = [wife EXCEPT ![f] = p] /\ husband' = husband
      BY <3>2
    <3>3. CASE husband' = husband /\ wife' = wife
      BY <3>3
    <3> QED BY <2>1, <3>1, <3>2, <3>3 DEF set_slot, add_child
  <2>5. child' \subseteq Families \X persons
    BY <2>1, <2>2 DEF set_slot, add_child
  <2>6. family_rows' = Families
    BY <2>2, <2>4 DEF family_rows
  <2>7. \A g \in Families : {husband'[g], wife'[g]} \subseteq persons \cup {None}
    BY <2>2, <2>4 DEF family_rows
  <2> QED BY <2>2, <2>3, <2>5, <2>6, <2>7 DEF DrawnInv, TreeOK
<1> QED BY <1>1, <1>2

\* Whatever tree is entered row by row, circles included, each of its
\* persons above themselves is reported, nothing nearer is left out and all
\* views agree (kinship.py, tree/service.py, consistency.py).
THEOREM AnyTreeIsAnswered ==
    ASSUME Years \subseteq Int
    PROVE  RowByRow => [](CirclesAreReported /\ NothingNearer /\ ViewsAgree)
<1>1. TreeInit => DrawnInv
  BY DrawnStart
<1>2. DrawnInv /\ [TreeNext]_tree => DrawnInv'
  BY DrawnStep
<1>3. DrawnInv => CirclesAreReported /\ NothingNearer /\ ViewsAgree
  BY CirclesFound, NothingIsNearer, ViewsAgreeHere DEF DrawnInv
<1> QED BY <1>1, <1>2, <1>3, PTL DEF RowByRow
=============================================================================
