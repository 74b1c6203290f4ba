------------------------------- MODULE Places -------------------------------
(***************************************************************************)
(* The hierarchy of places (tree/places.py): moving a place under another, *)
(* merging two, events that name one, and the revert of such a change      *)
(* (tree/audit.py).  Requests are serial here: a step is a whole request.  *)
(* Names, types and coordinates are left out; a place is found by its id.  *)
(***************************************************************************)
EXTENDS Naturals, Sequences

CONSTANTS Places,       \* ids, the fresh ones included
          Events,
          None,         \* no parent, no place
          Gone,         \* the row does not exist
          InitParent,   \* the hierarchy at the start
          InitAt,       \* the places of the events at the start
          MaxChanges    \* bound: entries of the change log

\* An import creates places without parents; a hierarchy is built by hand.
ASSUME PlacesAssumption ==
    /\ None \notin Places /\ Gone \notin Places /\ None # Gone
    /\ InitParent \in [Places -> Places \cup {None, Gone}]
    /\ \A p \in Places : InitParent[p] \in Places => InitParent[InitParent[p]] # Gone
    /\ \A S \in SUBSET Places : S # {} => \E x \in S : InitParent[x] \notin S
    /\ InitAt \in [Events -> Places \cup {None}]
    /\ \A e \in Events : InitAt[e] \in Places => InitParent[InitAt[e]] # Gone
ASSUME BoundAssumption == MaxChanges \in Nat

VARIABLES parent,   \* the parent of a place, None at the top, Gone if there is no row
          at,       \* the place of an event
          log       \* change_log: the images of the rows each change touched

vars == <<parent, at, log>>

Live == {p \in Places : parent[p] # Gone}

(***************************************************************************)
(* The walk of _is_descendant goes up from candidate until it meets `of`,  *)
(* the top, or a place it has seen: it visits the least set that has       *)
(* candidate and the parent of each of its members.                        *)
(***************************************************************************)
Upward(S) == \A x \in S : parent[x] \in Places => parent[x] \in S

is_descendant(candidate, of) ==
    \A S \in SUBSET Places : candidate \in S /\ Upward(S) => of \in S

(***************************************************************************)
(* audited(): the images of the rows that differ.                          *)
(***************************************************************************)
\* Mutant: a row that goes leaves no image.
Logged_kept(n) ==
    [reverts |-> n,
     places |-> {<<p, parent[p], parent'[p]>> :
                    p \in {x \in Places : parent'[x] \notin {parent[x], Gone}}},
     events |-> {<<e, at[e], at'[e]>> : e \in {x \in Events : at'[x] # at[x]}}]
Logged(n) ==
    [reverts |-> n,
     places |-> {<<p, parent[p], parent'[p]>> : p \in {x \in Places : parent'[x] # parent[x]}},
     events |-> {<<e, at[e], at'[e]>> : e \in {x \in Events : at'[x] # at[x]}}]

audited(n) == Len(log) < MaxChanges /\ log' = Append(log, Logged(n))

InLog(p) == \E n \in DOMAIN log : \E i \in log[n].places : i[1] = p

(***************************************************************************)
(* PATCH /places/{id}.                                                     *)
(***************************************************************************)
update_place(p, q) ==
    /\ p \in Live
    /\ q \in Live /\ q # parent[p]
    /\ ~is_descendant(q, p)
    /\ parent' = [parent EXCEPT ![p] = q]
    /\ at' = at
    /\ audited(0)

clear_parent(p) ==
    /\ parent[p] \in Places
    /\ parent' = [parent EXCEPT ![p] = None]
    /\ at' = at
    /\ audited(0)

(***************************************************************************)
(* POST /places/{id}/merge: events and children of src go to dst.  When    *)
(* dst is somewhere below src it takes src's spot in the hierarchy first.  *)
(* (In a circle that spot is src itself, and goes with it: SET NULL.)      *)
(***************************************************************************)
stays(src, dst)  == parent[dst]
lifted(src, dst) == IF is_descendant(dst, src) THEN parent[src] ELSE parent[dst]

passed_up(src, dst, p) == IF parent[p] = src THEN parent[src] ELSE parent[p]
adopted(src, dst, p)   == IF parent[p] = src THEN dst ELSE parent[p]

repointed(src, dst, e)   == IF at[e] = src THEN dst ELSE at[e]

merge_place(src, dst) ==
    /\ src # dst
    /\ src \in Live /\ dst \in Live
    /\ parent' = [p \in Places |->
                    CASE p = src -> Gone
                      [] p = dst -> IF lifted(src, dst) = src THEN None ELSE lifted(src, dst)
                      [] p # src /\ p # dst -> adopted(src, dst, p)]
    /\ at' = [e \in Events |-> repointed(src, dst, e)]
    /\ audited(0)

(***************************************************************************)
(* add_event and edit_event with a place: _resolve_place finds the place   *)
(* of that name or creates one, without a parent.                          *)
(***************************************************************************)
resolve_place(e, p) ==
    /\ p # at[e]
    /\ p \in Live \/ ~InLog(p)
    /\ parent' = IF p \in Live THEN parent ELSE [parent EXCEPT ![p] = None]
    /\ at' = [at EXCEPT ![e] = p]
    /\ audited(0)

\* edit_event with an empty place name.
forget_place(e) ==
    /\ at[e] \in Places
    /\ at' = [at EXCEPT ![e] = None]
    /\ UNCHANGED parent
    /\ audited(0)

(***************************************************************************)
(* revert_change of a change that touched places or the place of events.   *)
(***************************************************************************)
Unchanged(c) == /\ \A i \in c.places : parent[i[1]] = i[3]
                /\ \A i \in c.events : at[i[1]] = i[3]

\* A place the change created has no event and no child outside the change.
Deletable(c) ==
    \A i \in c.places : i[2] = Gone =>
        /\ \A e \in Events : at[e] = i[1] => \E j \in c.events : j[1] = e
        /\ \A p \in Places : parent[p] = i[1] => \E j \in c.places : j[1] = p

revert_change(n) ==
    LET c == log[n] IN
    /\ n \in DOMAIN log
    /\ \A m \in DOMAIN log : log[m].reverts # n
    /\ Unchanged(c) /\ Deletable(c)
    /\ parent' = [p \in Places |-> IF \E i \in c.places : i[1] = p
                                   THEN (CHOOSE i \in c.places : i[1] = p)[2] ELSE parent[p]]
    /\ at' = [e \in Events |-> IF \E i \in c.events : i[1] = e
                               THEN (CHOOSE i \in c.events : i[1] = e)[2] ELSE at[e]]
    \* the foreign keys accept it
    /\ \A p \in Places : parent'[p] \in Places => parent'[parent'[p]] # Gone
    /\ \A e \in Events : at'[e] \in Places => parent'[at'[e]] # Gone
    /\ audited(n)

Init ==
    /\ parent = InitParent
    /\ at = InitAt
    /\ log = <<>>

Edit ==
    \/ \E p, q \in Places : update_place(p, q) \/ merge_place(p, q)
    \/ \E p \in Places : clear_parent(p)
    \/ \E e \in Events, p \in Places : resolve_place(e, p)
    \/ \E e \in Events : forget_place(e)

Next == Edit \/ \E n \in 1..MaxChanges : revert_change(n)

Spec == Init /\ [][Next]_vars

(***************************************************************************)
(* Properties.                                                             *)
(***************************************************************************)

\* No place is above itself: from every set of places some member leads out.
Acyclic == \A S \in SUBSET Places : S # {} => \E x \in S : parent[x] \notin S

\* No move and no merge closes a cycle (places.py 137-140, 177 and 201-202).
\* A revert may: it restores a parent_id without walking (audit.py 298).
Reverted == \E n \in DOMAIN log : log[n].reverts # 0
EditsAcyclic == ~Reverted => Acyclic

\* Whatever was below the merged place is below the other one afterwards,
\* also when that one had to be lifted out from under it.
MergeGathers ==
    [][\A src, dst \in Places : merge_place(src, dst) =>
          \A p \in Places \ {src, dst} : is_descendant(p, src) => is_descendant(p, dst)']_vars

\* Where a row of the log's images stood after the first n changes.
Replayed(images(_), start, n) ==
    LET seen(x) == {k \in 1..n : \E i \in images(log[k]) : i[1] = x}
    IN [x \in DOMAIN start |->
          IF seen(x) = {} THEN start[x]
          ELSE LET k == CHOOSE k \in seen(x) : \A m \in seen(x) : m <= k
               IN (CHOOSE i \in images(log[k]) : i[1] = x)[3]]

\* Reverting the last change brings the hierarchy and the places of the events
\* back to what the changes before it had made of them, deletions included.
UndoRestores ==
    [][\A n \in DOMAIN log : (n = Len(log) /\ revert_change(n)) =>
          /\ parent' = Replayed(LAMBDA c : c.places, InitParent, n - 1)
          /\ at' = Replayed(LAMBDA c : c.events, InitAt, n - 1)]_vars
=============================================================================
