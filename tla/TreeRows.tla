------------------------------ MODULE TreeRows ------------------------------
(***************************************************************************)
(* The rows of the family tree, the foreign keys between them and what     *)
(* PostgreSQL does to the rest when one of them goes (models/person.py,    *)
(* family.py, event.py, mention.py, match_candidate.py, citation.py).      *)
(* A row is its table, its id, its references (None in the columns a table *)
(* does not have), one datum and, for names, is_primary.  The id of a      *)
(* child row is the pair of its composite key.                             *)
(***************************************************************************)
EXTENDS FiniteSets, TreeIds

CONSTANTS Names, Events, Citations, Mentions, Candidates    \* ids, as People and Families

\* The ids of each table; no two tables share one, as UUIDs are unique.
Pool ==
    [persons |-> People, names |-> Names, events |-> Events, families |-> Families,
     family_children |-> Families \X People, citations |-> Citations,
     person_mentions |-> Mentions, match_candidates |-> Candidates]

ASSUME IdsAssumption ==
    \A t, u \in DOMAIN Pool : None \notin Pool[t] /\ (t # u => Pool[t] \cap Pool[u] = {})

Columns == {"person", "family", "husband", "wife", "mention", "candidate"}
Bare    == [c \in Columns |-> None]

Row(t, id, ref, data, primary) ==
    [t |-> t, id |-> id, ref |-> ref, data |-> data, primary |-> primary]
IsRow(r) == r = Row(r.t, r.id, [c \in Columns |-> r.ref[c]], r.data, r.primary)

\* The columns of each table and the table that each of them refers to.
Has ==
    [persons |-> {}, names |-> {"person"}, events |-> {"person", "family"},
     families |-> {"husband", "wife"}, family_children |-> {"family", "person"},
     citations |-> {"person", "mention", "candidate"}, person_mentions |-> {"person"},
     match_candidates |-> {"person", "mention"}]
Refers ==
    [person |-> "persons", family |-> "families", husband |-> "persons",
     wife |-> "persons", mention |-> "person_mentions", candidate |-> "match_candidates"]

WellFormed(r) ==
    /\ IsRow(r)
    /\ r.t \in DOMAIN Has
    /\ r.id \in Pool[r.t]
    /\ \A c \in Columns : r.ref[c] # None => c \in Has[r.t]
    /\ r.t = "family_children" => r.id = <<r.ref.family, r.ref.person>>

Person(p, sex)          == Row("persons", p, Bare, sex, FALSE)
Name(n, p, sig, prim)   == Row("names", n, [Bare EXCEPT !.person = p], sig, prim)
Event(e, p, d)          == Row("events", e, [Bare EXCEPT !.person = p], d, FALSE)
CoupleEvent(e, f, d)    == Row("events", e, [Bare EXCEPT !.family = f], d, FALSE)
Family(f, h, w)         == Row("families", f, [Bare EXCEPT !.husband = h, !.wife = w], None, FALSE)
Child(f, p)             == Row("family_children", <<f, p>>,
                               [Bare EXCEPT !.family = f, !.person = p], None, FALSE)
Citation(k, p, m, c)    == Row("citations", k,
                               [Bare EXCEPT !.person = p, !.mention = m, !.candidate = c], None, FALSE)
Mention(m, p)           == Row("person_mentions", m, [Bare EXCEPT !.person = p], None, FALSE)
Candidate(c, p, m)      == Row("match_candidates", c,
                               [Bare EXCEPT !.person = p, !.mention = m], None, FALSE)

Of(s, t)         == {r \in s : r.t = t}
About(s, t, p)   == {r \in Of(s, t) : r.ref.person = p}
Ids(s)           == {r.id : r \in s}
At(s, id)        == CHOOSE r \in s : r.id = id
Targets(r)       == {r.ref[c] : c \in Columns} \ {None}
Dependents(s, id) == {r \in s : id \in Targets(r)}
Spouses(fam)     == {fam.ref.husband, fam.ref.wife} \ {None}

(***************************************************************************)
(* ON DELETE CASCADE for the tables whose rows belong to a person, a       *)
(* family or a mention, ON DELETE SET NULL for parent slots, resolved      *)
(* mentions and what a citation cites; the target of a citation is a soft  *)
(* reference without a key.                                                *)
(***************************************************************************)
Owned == {"names", "events", "family_children", "match_candidates"}

Keyed(r, c) == r.t = "citations" => c # "person"

\* SET NULL in the columns of r that refer to one of ids.
Forgetting(r, ids) ==
    [r EXCEPT !.ref = [c \in Columns |-> IF Keyed(r, c) /\ r.ref[c] \in ids THEN None ELSE r.ref[c]]]

\* The rows that the keys delete with those of ids.
Belonging(s, ids) == {x \in s : x.t \in Owned /\ Targets(x) \cap ids # {}}

Remove(s, ids) ==
    LET owned == Belonging(s, ids)
        gone  == ids \cup Ids(owned)
    IN  {Forgetting(r, gone) : r \in {x \in s : x.id \notin ids /\ x \notin owned}}

(***************************************************************************)
(* Foreign keys, primary keys and the unique pair of a match candidate.    *)
(***************************************************************************)
Valid(s) ==
    /\ \A r \in s, c \in Columns :
          Keyed(r, c) /\ r.ref[c] # None => r.ref[c] \in Ids(Of(s, Refers[c]))
    /\ \A a, b \in s : a.id = b.id => a = b
    /\ \A a, b \in Of(s, "match_candidates") :
          a.ref.person = b.ref.person /\ a.ref.mention = b.ref.mention => a = b

(***************************************************************************)
(* What a transaction writes: the row it read (None for an INSERT), the    *)
(* row it leaves (None for a DELETE) and the image of the new row that the *)
(* flush listeners keep, which is the row as it was first flushed.         *)
(***************************************************************************)
ins(r)      == [old |-> None, new |-> r, logged |-> r]
upd(r, r2)  == [old |-> r, new |-> r2, logged |-> r2]
del(r)      == [old |-> r, new |-> None, logged |-> None]

Updates(W)  == {w \in W : w.old # None /\ w.new # None}
Inserts(W)  == {w \in W : w.old = None}
Deletes(W)  == {w \in W : w.new = None}

(***************************************************************************)
(* An UPDATE sets only the columns that changed since the row was loaded;  *)
(* what others committed to the remaining ones in between stays.           *)
(***************************************************************************)
Overlay(w, cur) ==
    [w.new EXCEPT
        !.ref  = [c \in Columns |-> IF w.new.ref[c] = w.old.ref[c]
                                    THEN cur.ref[c] ELSE w.new.ref[c]],
        !.data = IF w.new.data = w.old.data THEN cur.data ELSE w.new.data,
        !.primary = IF w.new.primary = w.old.primary THEN cur.primary ELSE w.new.primary]

Apply(s, W) ==
    LET touched == {w.old.id : w \in Updates(W)}
        changed == {Overlay(w, At(s, w.old.id)) : w \in Updates(W)}
    IN  Remove({r \in s : r.id \notin touched} \cup changed \cup {w.new : w \in Inserts(W)},
               {w.old.id : w \in Deletes(W)})

(***************************************************************************)
(* The flush fails when a row to update is gone, when a row takes the key  *)
(* of one that is there, or when a constraint is broken.                   *)
(***************************************************************************)
Applies(s, W) ==
    /\ \A w \in Updates(W) : w.old.id \in Ids(s) /\ (w.new.id # w.old.id => w.new.id \notin Ids(s))
    /\ \A w \in Inserts(W) : w.new.id \notin Ids(s)
    /\ Valid(Apply(s, W))
=============================================================================
