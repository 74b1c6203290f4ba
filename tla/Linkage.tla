------------------------------ MODULE Linkage ------------------------------
(***************************************************************************)
(* Discovery: from a person of the tree to the acts that may be theirs     *)
(* (match_candidates), from a confirmed candidate to the relatives the act *)
(* names.  The acts and the mentions of people in them are what extraction *)
(* left; a mention is a model value with a role, a name and a sex.         *)
(*                                                                         *)
(* A request (confirm, reject, accept) reads when it begins and writes     *)
(* when it commits: what it is going to write is kept in req, as the       *)
(* columns and rows it changes.  Discovery jobs read the candidates, wait  *)
(* for the embedding and the adjudicating model, and then write.           *)
(*                                                                         *)
(* A candidate is the pair <<person, mention>>, which is unique.           *)
(***************************************************************************)
EXTENDS Integers, FiniteSets

CONSTANTS
    People,      \* ids of people, living or yet to be created
    Families,    \* ids of families
    Mentions,    \* the mentions of the acts
    Acts,
    ActOf,       \* mention |-> act
    Role,        \* mention |-> role
    NameOf,      \* mention |-> name, as it is written
    Found,       \* <<name, written>>: _find_existing_person matches the two
    SexOf,       \* mention |-> "M", "F" or "U"
    Kind,        \* act |-> record_type
    Superseded,  \* the acts replaced by a later extraction
    Similar,     \* <<name, mention>>: scored above ENQUEUE_FLOOR
    Known,       \* person |-> [name, sex], for the people already in the tree
    Starts,      \* the trees to begin with: records living, husband, wife, child
    Requests, Jobs,
    None

Candidates == People \X Mentions

ASSUME ActsAssumption ==
    /\ ActOf \in [Mentions -> Acts]
    /\ Mentions \cap {"free", "tree", "gone"} = {}
    /\ None \notin People /\ None \notin Families
ASSUME PeopleAssumption == People \subseteq Nat /\ IsFiniteSet(People)
ASSUME StartsAssumption == \A s \in Starts :
    /\ s.living \subseteq People
    /\ s.husband \in [Families -> s.living \cup {None}]
    /\ s.wife \in [Families -> s.living \cup {None}]
    /\ s.child \subseteq Families \X s.living

VARIABLES
    origin,    \* person |-> "free", "tree", "gone" or the mention it was created from
    husband, wife,  \* family |-> person or None
    child,     \* the pairs <<family, person>> of family_children
    resolved,  \* mention |-> resolved_person_id
    matched,   \* mention |-> match_status
    status,    \* candidate |-> its status, "none" when there is no row
    sibling,   \* the candidates with relation 'sibling'
    events,    \* history: inferred events written for a candidate
    req,       \* request |-> what it is going to write, None when it is closed
    job,       \* job |-> what it is going to write, None when it is closed
    crossed    \* history: what two requests or jobs had in hand at once

tree   == <<origin, husband, wife, child>>
marks  == <<resolved, matched>>
vars   == <<tree, marks, status, sibling, events, req, job, crossed>>

Living(p) == origin[p] \notin {"free", "gone"}
NameOfPerson(p) == IF origin[p] = "tree" THEN Known[p].name ELSE NameOf[origin[p]]
\* Whom the lookup of a name can return: nobody for one without a surname, nor who is
\* written with other accents in it; everybody of the surname for one without a given name.
Named(n) == {p \in People : Living(p) /\ <<n, NameOfPerson(p)>> \in Found}

(***************************************************************************)
(* ROLE_RELATION and RECORD_EVENT_TYPE.                                    *)
(***************************************************************************)
relation(role) ==
    CASE role \in {"father", "mother"}          -> "parent"
      [] role = "spouse"                        -> "spouse"
      [] role \in {"son", "daughter", "child", "heir"} -> "child"
      [] role = "sibling"                       -> "sibling"
      [] role \in {"principal", "head", "testator", "defendant", "soldier", "resident"} -> "self"
      [] OTHER                                  -> "other"

implied_sex(m) ==
    CASE Role[m] \in {"father", "son", "spouse_father", "godfather"}      -> "M"
      [] Role[m] \in {"mother", "daughter", "spouse_mother", "godmother"} -> "F"
      [] OTHER                                                            -> SexOf[m]

HasEvent(a) == Kind[a] \in {"baptism", "death", "marriage", "confirmation", "census"}
Baptisms == {a \in Acts : Kind[a] \in {"baptism", "christening"}}

SexOfPerson(p) == IF origin[p] = "tree" THEN Known[p].sex ELSE implied_sex(origin[p])

(***************************************************************************)
(* What a request writes: the columns it changes, as functions on the rows *)
(* that change, and the rows it inserts.                                   *)
(***************************************************************************)
Nothing == [kind |-> "none", cand |-> None, mention |-> None, who |-> None, family |-> None,
            origin |-> <<>>, husband |-> <<>>, wife |-> <<>>, child |-> {},
            resolved |-> <<>>, matched |-> <<>>, status |-> "", event |-> FALSE]

\* A column that keeps its value is not in the UPDATE.
Sets(column, row, value) == [x \in {y \in {row} : column[y] # value} |-> value]
Also(f, g) == [x \in DOMAIN f \cup DOMAIN g |-> IF x \in DOMAIN f THEN f[x] ELSE g[x]]
Over(new, old) == [x \in DOMAIN old |-> IF x \in DOMAIN new THEN new[x] ELSE old[x]]

Open == {r \in Requests : req[r] # None}

\* Ids are uuids: no two requests take the same one.
Unused == {p \in People : origin[p] = "free"}
            \ UNION {DOMAIN req[r].origin : r \in Open}
Least(S) == {x \in S : \A y \in S : x <= y}

person_anew(m, made) == Least(Unused \ DOMAIN made)
\* _find_existing_person, and otherwise a new person.  made: the people this request has
\* already created, by the mention each was created from.
person_for(m, made) ==
    LET same == Named(NameOf[m]) \cup {p \in DOMAIN made : <<NameOf[m], NameOf[made[p]]>> \in Found}
    IN  IF same # {} THEN same ELSE Least(Unused \ DOMAIN made)
created(p, m, made) ==
    IF Living(p) \/ p \in DOMAIN made THEN made ELSE Also(made, [x \in {p} |-> m])

FamiliesOfChild(p) == {f \in Families : <<f, p>> \in child}
FamiliesOfSpouse(p) == {f \in Families : p \in {husband[f], wife[f]}}
Written(r) == DOMAIN req[r].husband \cup DOMAIN req[r].wife \cup {e[1] : e \in req[r].child}
\* A new family, or an empty one nobody refers to, which is as good.
NewFamily ==
    LET unused == {f \in Families : /\ husband[f] = None /\ wife[f] = None
                                    /\ \A p \in People : <<f, p>> \notin child
                                    /\ \A r \in Open : f \notin Written(r)}
    IN  {f \in unused : f = CHOOSE g \in unused : TRUE}
parent_family(p) == IF FamiliesOfChild(p) # {} THEN FamiliesOfChild(p) ELSE NewFamily
spouse_family(p) == IF FamiliesOfSpouse(p) # {} THEN FamiliesOfSpouse(p) ELSE NewFamily
Childhood(f, S) == ({f} \X S) \ child

(***************************************************************************)
(* What a request or a job has in hand: its act, its people, the family it *)
(* looked up ("kin"), the families it writes and the names it looks up.    *)
(***************************************************************************)
InAct(a) == {m \in Mentions : ActOf[m] = a}
LookedUp(w) ==
    IF w.kind = "accept" THEN {NameOf[w.mention]}
    ELSE IF w.kind = "sibling" THEN {NameOf[m] : m \in InAct(ActOf[w.cand[2]])}
    ELSE {}
InHand(w) ==
    {<<"act", ActOf[w.cand[2]]>>, <<"person", w.cand[1]>>, <<"person", w.who>>}
        \cup {<<"kin", f>> : f \in {w.family} \ {None}}
        \cup {<<"family", f>> : f \in DOMAIN w.husband \cup DOMAIN w.wife \cup {e[1] : e \in w.child}}
        \cup {<<"name", n>> : n \in LookedUp(w)}
JobInHand(j) == {<<"act", ActOf[c[2]]>> : c \in job[j].upgrades}
BusyWith == UNION ({InHand(req[r]) : r \in Open}
                    \cup {JobInHand(j) : j \in {k \in Jobs : job[k] # None}})

open(r, write) ==
    /\ req[r] = None
    /\ req' = [req EXCEPT ![r] = write]
    /\ crossed' = crossed \cup (InHand(write) \cap BusyWith)
    /\ UNCHANGED <<tree, marks, status, sibling, events, job>>

(***************************************************************************)
(* Decisions.                                                              *)
(***************************************************************************)
Pending == {c \in Candidates : status[c] = "pending"}

confirm_any(r) == \E c \in {x \in Candidates : status[x] # "none"} \ sibling :
    open(r, [Nothing EXCEPT
        !.kind = "confirm", !.cand = c, !.who = c[1], !.status = "confirmed",
        !.event = HasEvent(ActOf[c[2]]), !.resolved = Sets(resolved, c[2], c[1])])

\* The act's event is written for the person whatever the role of the mention.
confirm_candidate(r) == \E c \in Pending \ sibling :
    open(r, [Nothing EXCEPT
        !.kind = "confirm", !.cand = c, !.who = c[1], !.status = "confirmed",
        !.event = HasEvent(ActOf[c[2]]),
        !.resolved = Sets(resolved, c[2], c[1]), !.matched = Sets(matched, c[2], "confirmed")])

\* _materialize_parents: the empty slots of the family, from the parents the act names.
ParentsIn(a, role) == {m \in InAct(a) : Role[m] = role}
materialized(slot, a, role, made) ==
    IF slot # None \/ ParentsIn(a, role) = {} THEN {<<None, made>>}
    ELSE UNION {{<<p, created(p, m, made)>> : p \in person_for(m, made)} : m \in ParentsIn(a, role)}

\* The parents' mentions that were not resolved now are.
parents_resolved(a, role, p) ==
    [m \in {x \in ParentsIn(a, role) : p # None /\ resolved[x] = None} |-> p]
filled(f, column, p) == [x \in {y \in {f} : p # None} |-> p]

confirm_sibling(r) == \E c \in Pending \cap sibling :
    LET m == c[2]  a == ActOf[m] IN
    \E s \in person_for(m, <<>>), f \in parent_family(c[1]) :
    \E h \in materialized(husband[f], a, "father", created(s, m, <<>>)) :
    \E w \in materialized(wife[f], a, "mother", h[2]) :
        open(r, [Nothing EXCEPT
            !.kind = "sibling", !.cand = c, !.mention = m, !.who = s, !.family = f,
            !.status = "confirmed", !.event = HasEvent(a), !.origin = w[2],
            !.husband = filled(f, husband, h[1]), !.wife = filled(f, wife, w[1]),
            !.child = Childhood(f, {c[1], s}),
            !.resolved = Also(Sets(resolved, m, s), Also(parents_resolved(a, "father", h[1]),
                                                         parents_resolved(a, "mother", w[1]))),
            !.matched = Sets(matched, m, "confirmed")])

reject_any(r) == \E c \in {x \in Candidates : status[x] # "none"} :
    open(r, [Nothing EXCEPT !.kind = "reject", !.cand = c, !.who = c[1], !.status = "rejected"])

reject_candidate(r) == \E c \in Pending :
    open(r, [Nothing EXCEPT
        !.kind = "reject", !.cand = c, !.who = c[1], !.status = "rejected",
        !.matched = IF matched[c[2]] = "confirmed" THEN <<>> ELSE Sets(matched, c[2], "rejected")])

(***************************************************************************)
(* accept_proposal: a relative named in the act of a confirmed candidate.  *)
(***************************************************************************)
\* Which slots of a family take the person: the pair <<husband, wife>>.
parent_slots(f, p, sex) ==
    IF p \in {husband[f], wife[f]} THEN <<husband[f], wife[f]>>
    ELSE IF sex = "F" /\ wife[f] = None THEN <<husband[f], p>>
    ELSE IF husband[f] = None THEN <<p, wife[f]>>
    ELSE IF wife[f] = None THEN <<husband[f], p>>
    ELSE <<husband[f], wife[f]>>
OrElse(x, y) == IF x = None THEN y ELSE x
spouse_slots_taken(f, p, sex, focal) == <<p, OrElse(wife[f], focal)>>
spouse_slots(f, p, sex, focal) ==
    IF p \in {husband[f], wife[f]} THEN <<husband[f], wife[f]>>
    ELSE IF husband[f] \in {None, focal} /\ sex # "F"
         THEN <<OrElse(husband[f], focal), OrElse(wife[f], p)>>
    ELSE LET w == OrElse(wife[f], focal) IN <<OrElse(husband[f], p), w>>
focal_slots(f, focal) ==
    IF husband[f] = None /\ wife[f] = None THEN <<focal, None>> ELSE <<husband[f], wife[f]>>

linked_swapped(rel, p, sex, focal) ==
    {<<f, focal_slots(f, focal), Childhood(f, {focal})>> : f \in spouse_family(focal)}
\* The family, its slots and its new children.
linked(rel, p, sex, focal) ==
    CASE rel = "parent"  -> {<<f, parent_slots(f, p, sex), Childhood(f, {focal})>> :
                                f \in parent_family(focal)}
      [] rel = "spouse"  -> {<<f, spouse_slots(f, p, sex, focal), {}>> : f \in spouse_family(focal)}
      [] rel = "child"   -> {<<f, focal_slots(f, focal), Childhood(f, {p})>> :
                                f \in spouse_family(focal)}
      [] rel = "sibling" -> {<<f, <<husband[f], wife[f]>>, Childhood(f, {focal, p})>> :
                                f \in parent_family(focal)}
      [] OTHER           -> {<<None, <<None, None>>, {}>>}

SlotSet(f, column, p) == IF f = None THEN <<>> ELSE Sets(column, f, p)

accept_proposal(r) ==
    \E c \in {x \in Candidates : status[x] = "confirmed"}, m \in Mentions :
    /\ ActOf[m] = ActOf[c[2]] /\ resolved[m] = None
    /\ \E p \in person_for(m, <<>>) :
       \E l \in linked(relation(Role[m]), p, implied_sex(m), c[1]) :
        open(r, [Nothing EXCEPT
            !.kind = "accept", !.cand = c, !.mention = m, !.who = p, !.family = l[1],
            !.origin = created(p, m, <<>>),
            !.husband = SlotSet(l[1], husband, l[2][1]), !.wife = SlotSet(l[1], wife, l[2][2]),
            !.child = l[3],
            !.resolved = Sets(resolved, m, p), !.matched = Sets(matched, m, "confirmed")])

(***************************************************************************)
(* The end of a request: it commits, unless a row it refers to is gone or  *)
(* a row it inserts is there; or the connection is lost.                   *)
(***************************************************************************)
Values(f) == {f[x] : x \in DOMAIN f}
RefersTo(w) ==
    ({w.cand[1]} \cup Values(w.husband) \cup Values(w.wife) \cup {e[2] : e \in w.child}
        \cup Values(w.resolved)) \ {None}
Writable(w) ==
    /\ \A p \in RefersTo(w) : Living(p) \/ p \in DOMAIN w.origin
    /\ status[w.cand] # "none"
    /\ w.child \cap child = {}

commit(r) ==
    /\ req[r] # None
    /\ LET w == req[r] IN
        /\ Writable(w)
        /\ origin' = Over(w.origin, origin)
        /\ husband' = Over(w.husband, husband) /\ wife' = Over(w.wife, wife)
        /\ child' = child \cup w.child
        /\ resolved' = Over(w.resolved, resolved) /\ matched' = Over(w.matched, matched)
        /\ status' = IF w.status = "" THEN status ELSE [status EXCEPT ![w.cand] = w.status]
        /\ events' = IF w.event THEN [events EXCEPT ![w.cand] = @ + 1] ELSE events
    /\ req' = [req EXCEPT ![r] = None]
    /\ UNCHANGED <<sibling, job, crossed>>

\* A person it was creating is lost with it; the id is as good as new.
rollback(r) ==
    /\ req[r] # None
    /\ req' = [req EXCEPT ![r] = None]
    /\ UNCHANGED <<tree, marks, status, sibling, events, job, crossed>>

(***************************************************************************)
(* Discovery jobs: one of each kind at a time for a person (that two       *)
(* requests may pass this check together is in Jobs).                      *)
(***************************************************************************)
Busy(p, kind) == \E j \in Jobs : job[j] # None /\ job[j].person = p /\ job[j].kind = kind
Own(p) == {ActOf[m] : m \in {x \in Mentions : resolved[x] = p}}
start(j, p, kind, found, upgrades) ==
    /\ job[j] = None /\ ~Busy(p, kind)
    /\ job' = [job EXCEPT ![j] = [person |-> p, kind |-> kind, found |-> found, upgrades |-> upgrades]]
    /\ crossed' = crossed \cup ({<<"act", ActOf[c[2]]>> : c \in upgrades} \cap BusyWith)
    /\ UNCHANGED <<tree, marks, status, sibling, events, req>>

\* Mentions that look like the person, but for superseded acts and for candidates there are.
generate_candidates(j) == \E p \in {x \in People : Living(x)} :
    start(j, p, "linkage",
          {<<p, m>> : m \in {x \in Mentions : /\ <<NameOfPerson(p), x>> \in Similar
                                              /\ ActOf[x] \notin Superseded
                                              /\ status[<<p, x>>] = "none"}}, {})

CoupleOf(a) == {<<Role[m], NameOf[m]>> : m \in ParentsIn(a, "father") \cup ParentsIn(a, "mother")}
\* _seed_couple: from a baptism that is the person's own, else from the tree.
TreeParents(p) ==
    {<<IF SexOfPerson(x) = "M" THEN "father" ELSE "mother", NameOfPerson(x)>> :
        x \in {y \in UNION {{husband[f], wife[f]} : f \in FamiliesOfChild(p)} \ {None} :
                SexOfPerson(y) \in {"M", "F"}}}
OneOfEach(S) == {c \in SUBSET S : /\ {x[1] : x \in c} = {x[1] : x \in S}
                                  /\ \A x, y \in c : x[1] = y[1] => x = y}
seed_couples(p) ==
    LET own == {CoupleOf(a) : a \in Own(p) \cap Baptisms} \ {{}}
    IN  IF own # {} THEN own ELSE OneOfEach(TreeParents(p)) \ {{}}

\* Baptisms that name the same couple: a pending self match becomes a sibling in place.
generate_family_candidates(j) ==
    \E p \in {x \in People : Living(x)} : \E couple \in seed_couples(p) :
        LET principals == {<<p, m>> : m \in {x \in Mentions : /\ Role[x] = "principal"
                                                              /\ ActOf[x] \in Baptisms \ Own(p)
                                                              /\ CoupleOf(ActOf[x]) = couple}}
        IN  start(j, p, "linkage_family", {c \in principals : status[c] = "none"},
                  {c \in principals : status[c] = "pending" /\ c \notin sibling})

\* The rows are written when the answers are there.
Storable(w) ==
    /\ \A c \in w.found : status[c] = "none"
    /\ \A c \in w.upgrades : status[c] # "none"
    /\ Living(w.person)
store(j) ==
    /\ job[j] # None
    /\ LET w == job[j] IN
        /\ Storable(w)
        /\ status' = [c \in Candidates |-> IF c \in w.found THEN "pending" ELSE status[c]]
        /\ sibling' = sibling \cup w.upgrades
                        \cup {c \in w.found : w.kind = "linkage_family"}
    /\ job' = [job EXCEPT ![j] = None]
    /\ UNCHANGED <<tree, marks, events, req, crossed>>

\* uq_match_candidates_person_mention, a deleted person, or a crash: all or nothing.
fail(j) ==
    /\ job[j] # None
    /\ job' = [job EXCEPT ![j] = None]
    /\ UNCHANGED <<tree, marks, status, sibling, events, req, crossed>>

(***************************************************************************)
(* The tree editor deletes a person; foreign keys cascade or are nulled.   *)
(***************************************************************************)
Forget(column, p) == [x \in DOMAIN column |-> IF column[x] = p THEN None ELSE column[x]]
delete_person(p) ==
    /\ Living(p)
    /\ origin' = [origin EXCEPT ![p] = "gone"]
    /\ husband' = Forget(husband, p) /\ wife' = Forget(wife, p)
    /\ child' = {e \in child : e[2] # p}
    /\ resolved' = Forget(resolved, p)
    /\ status' = [c \in Candidates |-> IF c[1] = p THEN "none" ELSE status[c]]
    /\ sibling' = {c \in sibling : c[1] # p}
    /\ crossed' = crossed \cup (({<<"person", p>>} \cup {<<"kin", f>> : f \in FamiliesOfSpouse(p)})
                                    \cap BusyWith)
    /\ UNCHANGED <<matched, events, req, job>>

Init ==
    /\ \E s \in Starts :
        /\ origin = [p \in People |-> IF p \in s.living THEN "tree" ELSE "free"]
        /\ husband = s.husband /\ wife = s.wife /\ child = s.child
    /\ resolved = [m \in Mentions |-> None] /\ matched = [m \in Mentions |-> "unlinked"]
    /\ status = [c \in Candidates |-> "none"] /\ sibling = {}
    /\ events = [c \in Candidates |-> 0]
    /\ req = [r \in Requests |-> None] /\ job = [j \in Jobs |-> None]
    /\ crossed = {}

Next ==
    \/ \E r \in Requests : \/ confirm_candidate(r) \/ confirm_sibling(r) \/ reject_candidate(r)
                           \/ accept_proposal(r) \/ commit(r) \/ rollback(r)
    \/ \E j \in Jobs : \/ generate_candidates(j) \/ generate_family_candidates(j)
                       \/ store(j) \/ fail(j)
    \/ \E p \in People : delete_person(p)

Spec == Init /\ [][Next]_vars

(***************************************************************************)
(* Properties.                                                             *)
(***************************************************************************)

Contested(c) == <<"act", ActOf[c[2]]>> \in crossed

\* What a researcher decided about a candidate is never decided again, and no job takes it
\* back, unless two requests had the act in hand at once: confirm and reject look at the
\* status they read, and UPDATE without a condition.
DecisionsStand == [][\A c \in Candidates :
    status[c] \in {"confirmed", "rejected"} =>
        \/ status'[c] = status[c]
        \/ Contested(c)
        \/ ~Living(c[1])']_vars

\* What an act says is written into the tree once: a candidate gives at most one event, unless
\* two requests had its act in hand at once, and two people are not created under one name
\* that the lookup finds, unless two requests looked the name up at once.
EventOnce == \A c \in Candidates : events[c] <= 1 \/ Contested(c)
Findable(n) == <<n, n>> \in Found
PersonOnce == \A p, q \in People :
    (/\ p # q /\ Living(p) /\ Living(q) /\ {origin[p], origin[q]} \cap Mentions # {}
     /\ NameOfPerson(p) = NameOfPerson(q) /\ Findable(NameOfPerson(p)))
        => <<"name", NameOfPerson(p)>> \in crossed
NothingTwice == EventOnce /\ PersonOnce

\* The slot of a parent or spouse is emptied by deleting the person in it and in no other
\* way, and never given to another, unless two requests wrote the family at once.
Kept(before, after) == \A f \in Families, p \in People : before[f] = p =>
    \/ after[f] = p
    \/ after[f] = None /\ origin'[p] = "gone"
    \/ <<"family", f>> \in crossed
SlotsKept == [][Kept(husband, husband') /\ Kept(wife, wife')]_vars

\* p is the parent, spouse, child or sibling of the focal person.
Linked(rel, p, focal) ==
    CASE rel = "parent"  -> \E f \in FamiliesOfChild(focal) : p \in {husband[f], wife[f]}
      [] rel = "spouse"  -> \E f \in Families : {husband[f], wife[f]} = {p, focal}
      [] rel = "child"   -> \E f \in FamiliesOfChild(p) : focal \in {husband[f], wife[f]}
      [] rel = "sibling" -> FamiliesOfChild(p) \cap FamiliesOfChild(focal) # {}
      [] OTHER           -> TRUE

\* A commit whose act, people and family no one else had in hand links the mention to the
\* focal person as rel says.
LinksAll(kind, rel(_, _), ok(_)) == \A r \in Open : \A w \in {req[r]} :
    (/\ w.kind = kind /\ commit(r) /\ ok(w)
     /\ {<<"act", ActOf[w.mention]>>, <<"person", w.cand[1]>>, <<"person", w.who>>,
         <<"kin", w.family>>} \cap crossed = {})
        => rel(w.mention, w.cand[1])'

\* An accepted child or sibling is where the act puts it, and so is a parent as long as the
\* focal person's family has room for one, and a spouse as long as the focal person has no
\* family; a confirmed sibling is a child of the family of the person it was found for.
Accepted(m, focal) == Linked(relation(Role[m]), resolved[m], focal)
Confirmed(m, focal) == Linked("sibling", resolved[m], focal)
HasRoom(p) == \A f \in FamiliesOfChild(p) : None \in {husband[f], wife[f]}
RelativesAreLinked == [][
    /\ LinksAll("sibling", Confirmed, LAMBDA w : TRUE)
    /\ LinksAll("accept", Accepted, LAMBDA w :
            CASE relation(Role[w.mention]) = "spouse" -> FamiliesOfSpouse(w.cand[1]) = {}
              [] relation(Role[w.mention]) = "parent" -> HasRoom(w.cand[1])
              [] OTHER                                -> TRUE)]_vars

\* "accepting a co-resident/relative from any document type builds the right tree link"
\* (the comment on ROLE_RELATION).
AcceptedIsLinked == [][LinksAll("accept", Accepted, LAMBDA w : TRUE)]_vars
=============================================================================
