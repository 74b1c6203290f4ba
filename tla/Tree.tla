-------------------------------- MODULE Tree --------------------------------
(***************************************************************************)
(* The audited editing of the tree: the operations of tree/editing.py and  *)
(* citations.py, each run inside audited() (tree/audit.py), the change log *)
(* they leave, and revert_change.                                          *)
(*                                                                         *)
(* A request is one transaction.  It reads the rows and computes what to   *)
(* write in one step and its writes land in a later one, so that two       *)
(* requests may interleave as they do under READ COMMITTED.  Of the data   *)
(* only what decisions depend on is kept: the sex of a person, the         *)
(* signature of a name, whether an event was edited.                       *)
(***************************************************************************)
EXTENDS Naturals, Sequences, TreeRows

CONSTANTS Writers,              \* requests that may be open at a time
          Signatures,           \* what makes two names equal
          InitRows,             \* the tree an import and the linkage left
          MaxChanges            \* bound: entries of the change log

Sexes == {"M", "F", "U"}

ASSUME WritersAssumption == IsFiniteSet(Writers) /\ Writers # {}
ASSUME RowsAssumption    == Valid(InitRows) /\ \A r \in InitRows : WellFormed(r)
ASSUME BoundAssumption   == MaxChanges \in Nat

VARIABLES rows,     \* the tree
          log,      \* change_log, in order of commit
          req,      \* the open request of a writer, None when there is none
          \* History variables.
          overtaken,    \* open requests that read the tree before the last change of it
          prior         \* rows before the last change, None when its request was overtaken

vars == <<rows, log, req, overtaken, prior>>

Actions == {"person_create", "person_update", "event_add", "event_edit", "event_delete",
            "relative_add", "relative_unlink", "person_merge", "person_delete",
            "citation_add", "citation_delete", "revert"}

(***************************************************************************)
(* A fresh UUID: one that no row, image or open request has used.          *)
(***************************************************************************)
Used ==
    Ids(rows)
    \cup UNION {{i.before.id : i \in {x \in log[n].rows : x.before # None}}
                \cup {i.after.id : i \in {x \in log[n].rows : x.after # None}} : n \in DOMAIN log}
    \cup UNION {{x.new.id : x \in Inserts(req[w].writes)} : w \in {v \in Writers : req[v] # None}}

Fresh(pool) == LET free == pool \ Used
               IN  IF free = {} THEN {} ELSE {CHOOSE x \in free : TRUE}

(***************************************************************************)
(* audited(): the images of what the flushes of the request wrote.  A      *)
(* request that wrote nothing leaves no entry and is not modelled.         *)
(***************************************************************************)
capture_changes(W) == {[before |-> w.old, after |-> w.logged] : w \in W}

audited(w, action, W) ==
    /\ req[w] = None
    /\ W # {}
    /\ Len(log) < MaxChanges
    /\ req' = [req EXCEPT ![w] = [action |-> action, writes |-> W, reverts |-> 0]]
    /\ UNCHANGED <<rows, log, overtaken, prior>>

(***************************************************************************)
(* editing.py: persons, names and events.                                  *)
(***************************************************************************)
create_person(w) ==
    \E p \in Fresh(People), n \in Fresh(Names), sex \in Sexes, sig \in Signatures :
        audited(w, "person_create", {ins(Person(p, sex)), ins(Name(n, p, sig, TRUE))})

\* The first name by is_primary DESC is the one that is edited.
EditedName(p) ==
    LET mine == About(rows, "names", p) IN
    {n \in mine : n.primary \/ \A x \in mine : ~x.primary}

update_person(w) ==
    \E p \in Of(rows, "persons") :
        \/ \E sex \in Sexes \ {p.data} :
              audited(w, "person_update", {upd(p, [p EXCEPT !.data = sex])})
        \/ \E n \in EditedName(p.id) : \E sig \in Signatures \ {n.data} :
              audited(w, "person_update", {upd(n, [n EXCEPT !.data = sig])})

add_event(w) ==
    \E e \in Fresh(Events) :
        \/ \E p \in Of(rows, "persons") :
              audited(w, "event_add", {ins(Event(e, p.id, "raw"))})
        \/ \E f \in Of(rows, "families") :
              audited(w, "event_add", {ins(CoupleEvent(e, f.id, "raw"))})

edit_event(w) ==
    \E e \in Of(rows, "events") : \E d \in {"raw", "edited"} \ {e.data} :
        audited(w, "event_edit", {upd(e, [e EXCEPT !.data = d])})

delete_event(w) ==
    \E e \in Of(rows, "events") : audited(w, "event_delete", {del(e)})

create_citation(w) ==
    \E k \in Fresh(Citations), p \in Of(rows, "persons") :
        audited(w, "citation_add", {ins(Citation(k, p.id, None, None))})

delete_citation(w) ==
    \E k \in Of(rows, "citations") : audited(w, "citation_delete", {del(k)})

(***************************************************************************)
(* link_relative.  Where the code takes the first of several rows without  *)
(* an order, any of them may be it.                                        *)
(***************************************************************************)
SlotFor(p)   == IF At(rows, p).data = "F" THEN "wife" ELSE "husband"
Other(slot)  == IF slot = "wife" THEN "husband" ELSE "wife"
Filled(fam, slot, p) == [fam EXCEPT !.ref = [fam.ref EXCEPT ![slot] = p]]

FamiliesOf(p)       == {f \in Of(rows, "families") : p \in Spouses(f)}
ParentFamilies(p)   == {At(rows, c.ref.family) : c \in About(rows, "family_children", p)}

ParentSlot(fam, q, relation) ==
    CASE relation = "father" -> "husband"
      [] relation = "mother" -> "wife"
      [] relation = "parent" -> IF fam.ref[SlotFor(q)] # None THEN Other(SlotFor(q)) ELSE SlotFor(q)

(***************************************************************************)
(* _parent_family flushes a new family before its slot is set.  The slot   *)
(* then has no loaded value, its history no deleted part, and the listener *)
(* skips the update: the log keeps the family as it was inserted, empty.   *)
(***************************************************************************)
link_parent(p, q, relation) ==
    IF ParentFamilies(p) = {}
    THEN {{[ins(Family(f, None, None)) EXCEPT
               !.new = Filled(Family(f, None, None), ParentSlot(Family(f, None, None), q, relation), q)],
           ins(Child(f, p))} : f \in Fresh(Families)}
    ELSE {{upd(fam, Filled(fam, ParentSlot(fam, q, relation), q))} : fam \in
            {x \in ParentFamilies(p) : q \notin Spouses(x) /\ x.ref[ParentSlot(x, q, relation)] = None}}

link_spouse_anywhere(p, q) ==
    {{upd(f, Filled(f, IF f.ref.husband = p THEN "wife" ELSE "husband", q))}
        : f \in {x \in FamiliesOf(p) : q \notin Spouses(x)}}

link_spouse(p, q) ==
    LET free(f) == IF f.ref.husband = p THEN "wife" ELSE "husband"
        open    == {f \in FamiliesOf(p) : f.ref[free(f)] = None}
    IN  CASE \E f \in FamiliesOf(p) : q \in Spouses(f) -> {}
          [] (\A f \in FamiliesOf(p) : q \notin Spouses(f)) /\ open # {} ->
                {{upd(f, Filled(f, free(f), q))} : f \in open}
          [] (\A f \in FamiliesOf(p) : q \notin Spouses(f)) /\ open = {} ->
                {{ins(Filled(Filled(Family(f, None, None), SlotFor(p), p), Other(SlotFor(p)), q))}
                    : f \in Fresh(Families)}

link_child(p, q) ==
    IF FamiliesOf(p) = {}
    THEN {{ins(Filled(Family(f, None, None), SlotFor(p), p)), ins(Child(f, q))} : f \in Fresh(Families)}
    ELSE {{ins(Child(f.id, q))} : f \in {x \in FamiliesOf(p) : <<x.id, q>> \notin Ids(rows)}}

Relations == {"father", "mother", "parent", "spouse", "child"}

link_relative(w) ==
    \E p, q \in Ids(Of(rows, "persons")), relation \in Relations :
        /\ p # q
        /\ \E W \in CASE relation \in {"father", "mother", "parent"} -> link_parent(p, q, relation)
                      [] relation = "spouse" -> link_spouse(p, q)
                      [] relation = "child"  -> link_child(p, q) :
              audited(w, "relative_add", W)

(***************************************************************************)
(* unlink_relative.                                                        *)
(***************************************************************************)
Cleared(fam, q) == Filled(fam, IF fam.ref.husband = q THEN "husband" ELSE "wife", None)

unlink_relative(w) ==
    \E p, q \in Ids(Of(rows, "persons")) :
        \/ audited(w, "relative_unlink",
                   {upd(f, Cleared(f, q)) : f \in {x \in ParentFamilies(p) : q \in Spouses(x)}})
        \/ \E f \in Of(rows, "families") :
              /\ <<f.ref.husband, f.ref.wife>> \in {<<p, q>>, <<q, p>>}
              /\ audited(w, "relative_unlink", {upd(f, Cleared(f, q))})
        \/ \E f \in FamiliesOf(p) : \E c \in About(rows, "family_children", q) :
              c.ref.family = f.id /\ audited(w, "relative_unlink", {del(c)})

(***************************************************************************)
(* merge_persons: everything that points at dup is repointed to keep or,   *)
(* where keep has the like of it, deleted; then dup goes.                  *)
(***************************************************************************)
Moved(r, q) == [r EXCEPT !.ref = [r.ref EXCEPT !.person = q]]

\* Of dup's names one per signature that keep lacks survives.
MovedNames(keep, dup) ==
    LET new == {n \in About(rows, "names", dup) :
                   \A k \in About(rows, "names", keep) : k.data # n.data}
    IN  {M \in SUBSET new : /\ \A a, b \in M : a.data = b.data => a = b
                            /\ {n.data : n \in M} = {n.data : n \in new}}

merge_names(M, keep, dup) ==
    {IF n \in M THEN upd(n, [Moved(n, keep) EXCEPT !.primary = FALSE]) ELSE del(n)
        : n \in About(rows, "names", dup)}

merge_no_mentions(keep, dup) ==
    {upd(r, Moved(r, keep)) : r \in UNION {About(rows, t, dup) : t \in {"events", "citations"}}}

merge_anchored(keep, dup) ==
    {upd(r, Moved(r, keep)) : r \in UNION {About(rows, t, dup) : t \in {"events", "citations", "person_mentions"}}}

merge_children(keep, dup) ==
    {IF <<c.ref.family, keep>> \in Ids(Of(rows, "family_children")) THEN del(c) ELSE upd(c, Child(c.ref.family, keep))
        : c \in About(rows, "family_children", dup)}

merge_slots(keep, dup) ==
    {upd(f, [f EXCEPT !.ref = [c \in Columns |-> IF f.ref[c] = dup THEN keep ELSE f.ref[c]]])
        : f \in FamiliesOf(dup)}

merge_no_candidates(keep, dup) == {}

merge_candidates(keep, dup) ==
    {IF \E k \in About(rows, "match_candidates", keep) : k.ref.mention = c.ref.mention
     THEN del(c) ELSE upd(c, Moved(c, keep)) : c \in About(rows, "match_candidates", dup)}

merge_sex(keep, dup) ==
    LET k == At(rows, keep) d == At(rows, dup) IN
    IF k.data = "U" /\ d.data # "U" THEN {upd(k, [k EXCEPT !.data = d.data])} ELSE {}

merge_persons(w) ==
    \E keep, dup \in Ids(Of(rows, "persons")) :
        /\ keep # dup
        /\ \E M \in MovedNames(keep, dup) :
              audited(w, "person_merge",
                  merge_names(M, keep, dup) \cup merge_anchored(keep, dup)
                  \cup merge_children(keep, dup) \cup merge_slots(keep, dup)
                  \cup merge_candidates(keep, dup) \cup merge_sex(keep, dup)
                  \cup {del(At(rows, dup))})

(***************************************************************************)
(* delete_person deletes what it finds anchored to the person; mentions    *)
(* and candidates are left to the foreign keys.                            *)
(***************************************************************************)
delete_person(w) ==
    \E p \in Of(rows, "persons") :
        audited(w, "person_delete",
            {del(r) : r \in UNION {About(rows, t, p.id) : t \in {"names", "events", "family_children", "citations"}}}
            \cup {upd(f, [f EXCEPT !.ref = [c \in Columns |-> IF f.ref[c] = p.id THEN None ELSE f.ref[c]]])
                    : f \in FamiliesOf(p.id)}
            \cup {del(p)})

(***************************************************************************)
(* revert_change.  Rows the change created must be as it left them and,    *)
(* persons and families, have no dependent outside it; rows it deleted     *)
(* must be absent; rows it updated must be as it left them.                *)
(***************************************************************************)
Captured(c) == {i.after.id : i \in {x \in c.rows : x.after # None}}
               \cup {i.before.id : i \in {x \in c.rows : x.after = None}}

dependents_ignored(c, r)  == TRUE
dependents_captured(c, r) ==
    r.t \in {"persons", "families"} => Ids(Dependents(rows, r.id)) \subseteq Captured(c)

Conflicts(c) ==
    {i \in c.rows :
        \/ i.before = None /\ (i.after \notin rows \/ ~dependents_captured(c, i.after))
        \/ i.after = None /\ i.before.id \in Ids(rows)
        \/ i.before # None /\ i.after # None /\ i.after \notin rows}

\* A citation without the mention or the candidate that is not among s.
Living(r, s) ==
    IF r.t = "citations"
    THEN [r EXCEPT !.ref = [c \in Columns |->
            IF Keyed(r, c) /\ r.ref[c] \notin Ids(Of(s, Refers[c])) THEN None ELSE r.ref[c]]]
    ELSE r

Restored(c) == {i.before : i \in {x \in c.rows : x.after = None}}

inverse(c) ==
    {CASE i.before = None -> del(i.after)
       [] i.after = None  -> ins(Living(i.before, rows \cup Restored(c)))
       [] i.before # None /\ i.after # None -> upd(i.after, i.before) : i \in c.rows}

revert_change(w) ==
    \E n \in DOMAIN log :
        /\ req[w] = None
        /\ Len(log) < MaxChanges
        /\ ~log[n].reverted
        /\ Conflicts(log[n]) = {}
        /\ req' = [req EXCEPT ![w] = [action |-> "revert", writes |-> inverse(log[n]), reverts |-> n]]
        /\ UNCHANGED <<rows, log, overtaken, prior>>

(***************************************************************************)
(* The end of the request: its writes and its entry of the log land        *)
(* together, or a constraint refuses them and everything is rolled back.   *)
(***************************************************************************)
mark_nothing(l, n)  == l
mark_reverted(l, n) == [m \in DOMAIN l |-> IF m = n THEN [l[m] EXCEPT !.reverted = TRUE] ELSE l[m]]

commit(w) ==
    /\ req[w] # None
    /\ Len(log) < MaxChanges
    /\ Applies(rows, req[w].writes)
    /\ rows' = Apply(rows, req[w].writes)
    /\ log' = Append(mark_reverted(log, req[w].reverts),
                     [action |-> req[w].action, rows |-> capture_changes(req[w].writes),
                      reverts |-> req[w].reverts, reverted |-> FALSE])
    /\ req' = [req EXCEPT ![w] = None]
    /\ overtaken' = {v \in Writers \ {w} : req[v] # None}
    /\ prior' = IF w \in overtaken THEN None ELSE rows

rollback(w) ==
    /\ req[w] # None
    /\ ~Applies(rows, req[w].writes)
    /\ req' = [req EXCEPT ![w] = None]
    /\ overtaken' = overtaken \ {w}
    /\ UNCHANGED <<rows, log, prior>>

Init ==
    /\ rows = InitRows
    /\ log = <<>>
    /\ req = [w \in Writers |-> None]
    /\ overtaken = {}
    /\ prior = InitRows

Step(w) ==
    \/ create_person(w) \/ update_person(w)
    \/ add_event(w) \/ edit_event(w) \/ delete_event(w)
    \/ create_citation(w) \/ delete_citation(w)
    \/ link_relative(w) \/ unlink_relative(w)
    \/ merge_persons(w) \/ delete_person(w)
    \/ revert_change(w)
    \/ commit(w) \/ rollback(w)

Next == \E w \in Writers : Step(w)

Spec == Init /\ [][Next]_vars

(***************************************************************************)
(* Properties.                                                             *)
(***************************************************************************)

\* The tree satisfies its keys, requests and log entries are well formed,
\* and a change says it was reverted exactly when some later entry reverts it.
TypeOK ==
    /\ Valid(rows)
    /\ \A r \in rows : WellFormed(r)
    /\ Len(log) <= MaxChanges
    /\ \A n \in DOMAIN log :
          /\ log[n].action \in Actions
          /\ log[n].rows # {}
          /\ log[n].reverts \in 0..(n - 1)
          /\ log[n].reverted <=> \E m \in DOMAIN log : log[m].reverts = n
    /\ \A w \in Writers : req[w] # None => req[w].action \in Actions /\ req[w].writes # {}
    /\ overtaken \subseteq {w \in Writers : req[w] # None}

\* The commit of a request that read the tree as it still is.
lands(w)      == commit(w) /\ w \notin overtaken
reverts(w, n) == lands(w) /\ req[w].reverts = n

\* A revert that goes through changes the captured rows back and nothing
\* else: no cascade of a deletion it makes reaches a row the change did not
\* record (audit.py 5-7, 65-67), but that citations lose, recorded or not,
\* what they cited and is no more (audit.py 59-63, 281-284).
RevertIsInverse ==
    [][\A w \in Writers, n \in DOMAIN log : reverts(w, n) =>
          rows' = {Living(r, rows') : r \in (rows \ {i.after : i \in log[n].rows})
                                            \cup ({i.before : i \in log[n].rows} \ {None})}]_vars

\* Reverting the last change brings back the tree as it was before it, but
\* for the citations the change did not record: the references that the
\* database nulled with the rows it deleted stay null (citation.py 29-42).
\* A deleted person is left out: what goes by a foreign key is in no log.
Kept(r, c) ==
    IF r.t = "citations" /\ r \notin {i.before : i \in c.rows} THEN Forgetting(r, Ids(Restored(c))) ELSE r
UndoRestores ==
    [][\A w \in Writers, n \in DOMAIN log :
          reverts(w, n) /\ n = Len(log) /\ log[n].action # "person_delete" /\ prior # None
             => rows' = {Kept(r, log[n]) : r \in prior}]_vars

\* A merge drops dup, what keep already has the like of, and nothing else;
\* all other rows about dup are about keep afterwards, and none about dup
\* is left behind (merge_persons, editing.py 285-287 and 326-328).
SameOf(r, s, p) ==
    \/ r.t = "names" /\ \E n \in About(s, "names", p) : n.data = r.data
    \/ r.t = "family_children" /\ <<r.ref.family, p>> \in Ids(s)
    \/ r.t = "match_candidates" /\ \E c \in About(s, "match_candidates", p) : c.ref.mention = r.ref.mention
    \/ \E x \in s : x.id = r.id /\ p \in Targets(x)
MergeKeepsEvidence ==
    [][\A w \in Writers : lands(w) /\ req[w].action = "person_merge" =>
          \E keep, dup \in Ids(Of(rows, "persons")) :
              /\ Ids(Of(rows', "persons")) = Ids(Of(rows, "persons")) \ {dup}
              /\ \A r \in Dependents(rows, dup) : SameOf(r, rows', keep)
              /\ Dependents(rows', dup) = {}]_vars

\* Linking relatives puts nobody in a slot that another one holds, unless
\* that one came into it after the request had read the family, and found
\* the slot empty (link_relative, editing.py 176-178).
SlotsNeverTakenOver ==
    [][\A w \in Writers : commit(w) /\ req[w].action = "relative_add" =>
          \A f \in Of(rows, "families"), slot \in {"husband", "wife"} :
              f.ref[slot] # None =>
                 \/ At(rows', f.id).ref[slot] = f.ref[slot]
                 \/ /\ w \in overtaken
                    /\ \E x \in Updates(req[w].writes) : x.old.id = f.id /\ x.old.ref[slot] = None]_vars
=============================================================================
