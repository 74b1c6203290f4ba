---------------------------- MODULE Reconstruct ----------------------------
(***************************************************************************)
(* The super-discovery (linkage/reconstruct.py): a job groups all the      *)
(* mentions of the acts into people and families, a proposal the           *)
(* researcher merges into the tree, whole or by families, as many times as *)
(* they like, between which people are deleted.  A merge looks everything  *)
(* up and inserts without a lock, so a request is two steps, and others    *)
(* run between them; the graph of an earlier reconstruction can be merged  *)
(* too.  The world the acts speak of is part of the model, so that it can  *)
(* be said when the tree tells the truth about it.                         *)
(*                                                                         *)
(* A mention is a record: act, type and place of the act, role, the name   *)
(* and the sex that are written, and the individual it is of, which the    *)
(* program does not know.                                                  *)
(***************************************************************************)
EXTENDS Kinship, SequencesExt

CONSTANTS
    fold,       \* a name as written |-> without case and accents; a given name, without Latin too
    sound,      \* a folded name |-> its phonetic key
    contains,   \* <<s, w>>: the written surname w holds s up to case; accents count
    Worlds,     \* what there is to read and what is already in the tree
    AtOnce      \* the bound on merge requests under way

VARIABLES
    world,      \* mentions; the individuals of the acts and their true tree; the names at the start
    name,       \* person |-> the primary name
    recon,      \* the last reconstruction: status, options, graph
    earlier,    \* the graphs of the ones before
    work,       \* the merge requests between their look-ups and their commit
    gone,       \* the ids of people who were deleted
    merged,     \* history: the families of the graph merged since the last deletion
    crossed     \* history: the names and couples two overlapping requests both found missing

vars == <<tree, world, name, recon, earlier, work, gone, merged, crossed>>
rest == <<world, gone, crossed>>

Truth == INSTANCE Kinship WITH persons <- world.truth.persons, husband <- world.truth.husband,
                               wife <- world.truth.wife, child <- world.truth.child

Folded(x) == IF x = None THEN None ELSE fold[x]
norm_given(n) == Folded(n.given)
norm_surname(n) == Folded(n.surname)
Key(x) == IF x = None THEN None ELSE sound[x]

(***************************************************************************)
(* build_reconstruction: the couples.                                      *)
(***************************************************************************)
Read(o) == {m \in world.mentions : m.type # "census" \/ o.include_census}
OrElse(S, T)    == IF S # {} THEN S ELSE T
OfSex(S, sex)   == {m \in S : m.sex = sex}
Entry(F, M, C, a) == [fathers |-> F, mothers |-> M, children |-> C, place |-> a.place]

\* The couples an act names; role: the mentions of the act in a role.
registered(a, role(_)) ==
    CASE a.type = "baptism" -> {Entry(role("father"), role("mother"), role("principal"), a)}
      [] a.type = "marriage" ->
            LET both == role("principal") \cup role("spouse") IN
            {Entry(OrElse(OfSex(both, "M"), role("principal")), OrElse(OfSex(both, "F"), role("spouse")), {}, a)}
            \cup {e \in {Entry(role("father"), role("mother"), role("principal"), a),
                          Entry(role("spouse_father"), role("spouse_mother"), role("spouse"), a)} :
                    e.children # {}}
      [] a.type = "census" ->
            LET both == role("head") \cup role("spouse") IN
            {Entry(OrElse(OfSex(both, "M"), role("head")), OrElse(OfSex(both, "F"), role("spouse")),
                   role("son") \cup role("daughter") \cup role("child"), a)}
_reg_couple(M) ==
    {e \in UNION {registered(m, LAMBDA r : {n \in M : n.act = m.act /\ n.role = r}) : m \in M} :
        e.fathers \cup e.mothers # {}}

First(S) == IF S = {} THEN [given |-> None, surname |-> None] ELSE CHOOSE m \in S : TRUE
_couple_key(e, o) ==
    LET f == First(e.fathers)  m == First(e.mothers) IN
    <<Key(norm_surname(f)), Key(norm_given(f)), Key(norm_surname(m)), Key(norm_given(m))>>
        \o (IF o.conservative THEN <<e.place>> ELSE <<>>)
couples(o) ==
    LET entries == _reg_couple(Read(o))
        Of(k) == {e \in entries : _couple_key(e, o) = k}
    IN  {[fathers  |-> UNION {e.fathers : e \in Of(k)}, mothers |-> UNION {e.mothers : e \in Of(k)},
          children |-> UNION {e.children : e \in Of(k)}] : k \in {_couple_key(e, o) : e \in entries}}

(***************************************************************************)
(* The union-find: p leads from a mention to another of the same person.   *)
(* The order of the unions decides the roots and not the classes.          *)
(***************************************************************************)
find(p, x) == LET root[y \in DOMAIN p] == IF p[y] = y THEN y ELSE root[p[y]] IN root[x]
union_leaf(a, b, p) == IF find(p, a) # find(p, b) THEN [p EXCEPT ![a] = find(p, b)] ELSE p
union(a, b, p) ==
    LET ra == find(p, a)  rb == find(p, b) IN IF ra # rb THEN [p EXCEPT ![ra] = rb] ELSE p

Namesakes(C) == {{d \in C : norm_given(d) = norm_given(c)} : c \in {x \in C : x.given # None}}
Groups(c)    == {c.fathers, c.mothers} \cup Namesakes(c.children)
Pairs(G)     == IF G = {} THEN {} ELSE LET x0 == CHOOSE x \in G : TRUE IN {<<x0, x>> : x \in G \ {x0}}
clusters(o) ==
    LET p == FoldSet(LAMBDA pair, q : union(pair[1], pair[2], q), [m \in Read(o) |-> m],
                     UNION {Pairs(G) : G \in UNION {Groups(c) : c \in couples(o)}})
        root == [m \in Read(o) |-> find(p, m)]
    IN  {{m \in Read(o) : root[m] = r} : r \in {root[m] : m \in Read(o)}}

(***************************************************************************)
(* The people and the families of the proposal; a key is the cluster.      *)
(***************************************************************************)
most_common(c, value(_)) ==
    LET Times(v) == Cardinality({m \in c : value(m) = v})
        values   == {value(m) : m \in c} \ {None}
    IN  IF values = {} THEN None ELSE CHOOSE v \in values : \A w \in values : Times(w) <= Times(v)
proposed_name(c) == [given |-> most_common(c, LAMBDA m : m.given), surname |-> most_common(c, LAMBDA m : m.surname)]

KeyIn(S, C) == IF S = {} THEN None ELSE CHOOSE k \in C : S \cap k # {}
families(o, C) ==
    {[husband |-> KeyIn(c.fathers, C), wife |-> KeyIn(c.mothers, C),
      children |-> {KeyIn({x}, C) : x \in c.children}] : c \in couples(o)}

RECURSIVE depth_of_parents(_, _, _)
depth_of_parents(k, F, seen) ==
    IF k \in seen THEN 0
    ELSE LET above == UNION {{f.husband, f.wife} \ {None} : f \in {g \in F : k \in g.children}}
         IN  Max({0} \cup {1 + depth_of_parents(x, F, seen \cup {k}) : x \in above})
RECURSIVE depth(_, _, _)
depth(k, F, seen) ==
    IF k \in seen THEN 1
    ELSE LET above == UNION {{f.husband, f.wife} \ {None} : f \in {g \in F : k \in g.children}}
         IN  Max({1} \cup {1 + depth(x, F, seen \cup {k}) : x \in above})
_max_generations(C, F) == Max({0} \cup {depth(k, F, {}) : k \in C})

\* _find_existing_person: the people whose written surname holds the one sought and whose folded name
\* is the same; any of them is taken.  Without a surname, none.
find_by_given(n, people) ==
    {p \in DOMAIN people : /\ n.surname # None /\ people[p].surname # None
                           /\ <<n.surname, people[p].surname>> \in contains
                           /\ n.given \in {None, people[p].given}}
_find_existing_person(n, people) ==
    {p \in DOMAIN people : /\ n.surname # None /\ people[p].surname # None
                           /\ <<n.surname, people[p].surname>> \in contains
                           /\ norm_surname(people[p]) = norm_surname(n)
                           /\ norm_given(n) \in {None, norm_given(people[p])}}
build_reconstruction(o) ==
    LET C == clusters(o)  F == families(o, C)
        known == IF o.link_to_tree
                 THEN {c \in C : _find_existing_person(proposed_name(c), name) # {}} ELSE {}
    IN  [names |-> [c \in C |-> proposed_name(c)], families |-> F,
         existing |-> [c \in known |-> CHOOSE p \in persons : p \in _find_existing_person(proposed_name(c), name)],
         generations |-> _max_generations(C, F)]

(***************************************************************************)
(* merge_reconstruction: what a request finds and makes, on the tree t as  *)
(* it reads it; a family without a row of its own has no one in it.        *)
(***************************************************************************)
Needed(F) == UNION {({f.husband, f.wife} \ {None}) \cup f.children : f \in F}
Put(x, y, map) == [z \in DOMAIN map \cup {x} |-> IF z = x THEN y ELSE map[z]]
\* None when People or Families, the bounds on what is made, are used up.
New(S) == IF S = {} THEN None ELSE CHOOSE x \in S : \A y \in S : x <= y

materialize(k, graph, t) ==
    LET n == graph.names[k]
        found == IF k \in DOMAIN graph.existing THEN {graph.existing[k]} ELSE _find_existing_person(n, t.name)
        id == IF found # {} THEN CHOOSE p \in found : TRUE
              ELSE New(People \ (gone \cup DOMAIN t.name \cup UNION {DOMAIN w.name : w \in work}))
    IN  [t EXCEPT !.name = IF found # {} THEN @ ELSE Put(id, n, @), !.id = Put(k, id, @)]

Pid(t, k) == IF k = None THEN None ELSE t.id[k]
InHand == UNION {DOMAIN w.husband \cup {e[1] : e \in w.child} : w \in work}
Unused(t) == {g \in Families \ InHand : t.husband[g] = None /\ t.wife[g] = None /\ \A e \in t.child : e[1] # g}
join_new_only(f, t) ==
    LET hid == Pid(t, f.husband)  wid == Pid(t, f.wife)
        same == {g \in Families : hid # None /\ wid # None /\ t.husband[g] = hid /\ t.wife[g] = wid}
        g == New(Unused(t))
    IN  IF same # {} THEN t
        ELSE [t EXCEPT !.husband = Put(g, hid, @), !.wife = Put(g, wid, @),
                       !.child = @ \cup {<<g, t.id[k]>> : k \in f.children}]
join(f, t) ==
    LET hid == Pid(t, f.husband)  wid == Pid(t, f.wife)
        same == {g \in Families : hid # None /\ wid # None /\ t.husband[g] = hid /\ t.wife[g] = wid}
        g == IF same # {} THEN New(same) ELSE New(Unused(t))
    IN  [t EXCEPT !.husband = Put(g, hid, @), !.wife = Put(g, wid, @),
                  !.child = @ \cup {<<g, t.id[k]>> : k \in f.children}]

(***************************************************************************)
(* The actions.                                                            *)
(***************************************************************************)
Options == [conservative : BOOLEAN, include_census : BOOLEAN, link_to_tree : BOOLEAN]
Empty   == [names |-> <<>>, families |-> {}, existing |-> <<>>, generations |-> 0]

\* A merge that something else went past no longer counts as one of the last graph.
Overtaken(W) == {[w EXCEPT !.counts = FALSE] : w \in W}

\* A request while a reconstruction runs gets that one.
reconstruct(o) ==
    /\ recon.status # "running"
    /\ recon' = [status |-> "running", options |-> o, graph |-> Empty]
    /\ earlier' = earlier \cup (IF recon.status = "completed" THEN {recon.graph} ELSE {})
    /\ work' = Overtaken(work) /\ merged' = {}
    /\ UNCHANGED <<tree, name, rest>>
finish ==
    /\ recon.status = "running"
    /\ recon' = [recon EXCEPT !.status = "completed", !.graph = build_reconstruction(recon.options)]
    /\ UNCHANGED <<tree, name, rest, earlier, work, merged>>
fail ==
    /\ recon.status = "running"
    /\ recon' = [recon EXCEPT !.status = "error"]
    /\ UNCHANGED <<tree, name, rest, earlier, work, merged>>

\* The look-ups of a request for the families F of a graph, and the rows it makes from them.
merge(graph, F) ==
    /\ Cardinality(work) < AtOnce
    /\ F \subseteq graph.families
    /\ LET made == FoldSet(LAMBDA k, t : materialize(k, graph, t),
                           [name |-> name, id |-> <<>>, husband |-> husband, wife |-> wife, child |-> child],
                           Needed(F))
           t == FoldSet(join, made, F)
           rows == {g \in Families : <<t.husband[g], t.wife[g]>> # <<husband[g], wife[g]>>}
       IN  /\ None \notin DOMAIN t.name \cup DOMAIN t.husband
           /\ work' = work \cup {[families |-> F, counts |-> recon.status = "completed" /\ graph = recon.graph,
                                  name |-> Restrict(t.name, DOMAIN t.name \ persons), child |-> t.child \ child,
                                  husband |-> Restrict(t.husband, rows), wife |-> Restrict(t.wife, rows)]}
    /\ UNCHANGED <<tree, name, rest, recon, earlier, merged>>

\* The people its new rows refer to are there still, and no link it makes was made meanwhile.
Refers(w) == (UNION {{w.husband[g], w.wife[g]} : g \in DOMAIN w.husband} \ {None}) \cup {e[2] : e \in w.child}
Holds(w)  == Refers(w) \subseteq persons \cup DOMAIN w.name /\ w.child \cap child = {}
Makes(w)  == {<<"name", norm_given(n), norm_surname(n)>> : n \in Range(w.name)}
             \cup {<<"couple", w.husband[g], w.wife[g]>> : g \in DOMAIN w.husband}
commit(w) ==
    /\ w \in work /\ Holds(w)
    /\ name' = w.name @@ name /\ persons' = persons \cup DOMAIN w.name
    /\ husband' = w.husband @@ husband /\ wife' = w.wife @@ wife /\ child' = child \cup w.child
    /\ work' = Overtaken(work \ {w})
    /\ merged' = IF w.counts THEN merged \cup w.families ELSE merged
    /\ crossed' = crossed \cup (Makes(w) \cap UNION {Makes(v) : v \in work \ {w}})
    /\ UNCHANGED <<world, gone, recon, earlier>>
\* A foreign key or the key of family_children is broken: nothing of it is merged.
roll_back(w) ==
    /\ w \in work /\ ~Holds(w)
    /\ work' = work \ {w}
    /\ UNCHANGED <<tree, name, rest, recon, earlier, merged>>

Without(slot, p) == [f \in Families |-> IF slot[f] = p THEN None ELSE slot[f]]
delete_person(p) ==
    /\ p \in persons
    /\ persons' = persons \ {p} /\ gone' = gone \cup {p}
    /\ name' = [q \in persons \ {p} |-> name[q]]
    /\ husband' = Without(husband, p) /\ wife' = Without(wife, p)
    /\ child' = {e \in child : e[2] # p}
    /\ work' = Overtaken(work) /\ merged' = {}
    /\ UNCHANGED <<world, recon, earlier, crossed>>

Init ==
    /\ world \in Worlds
    /\ name = world.known
    /\ persons = DOMAIN name
    /\ TreeInit
    /\ recon = [status |-> "none", options |-> CHOOSE o \in Options : TRUE, graph |-> Empty]
    /\ earlier = {} /\ work = {}
    /\ gone = {} /\ merged = {} /\ crossed = {}

edit == TreeNext /\ UNCHANGED <<world, name, recon, earlier, work, gone, merged, crossed>>
discovery ==
    \/ \E o \in Options : reconstruct(o)
    \/ finish
    \/ fail
    \/ \E graph \in earlier \cup {recon.graph} : \E F \in SUBSET graph.families : merge(graph, F)
    \/ \E w \in work : commit(w)
    \/ \E w \in work : roll_back(w)
    \/ \E p \in persons : delete_person(p)
Next == discovery \/ edit
Spec == Init /\ [][Next]_vars

(***************************************************************************)
(* Properties.                                                             *)
(***************************************************************************)

\* The names of the world tell its people apart: couples by how they sound, brothers and sisters by
\* their given name, and everybody by the whole name where it is written.  world.plain says, besides,
\* that whoever has children has them with one partner and that the sex of husbands and wives is written.
Written == {m \in world.mentions : m.surname # None}
FullName(i) == {<<norm_given(m), norm_surname(m)>> : m \in {x \in Written : x.of = i}}
TellsApart ==
    /\ world.plain
    /\ \A m, n \in Written : (norm_given(m) = norm_given(n) /\ norm_surname(m) = norm_surname(n)) => m.of = n.of
    /\ \A m, n \in Written : (Key(norm_given(m)) = Key(norm_given(n))
                                /\ Key(norm_surname(m)) = Key(norm_surname(n)))
                                => m.of = n.of
    /\ \A m, n \in world.mentions :
        (norm_given(m) = norm_given(n) /\ Truth!parents(m.of) \cap Truth!parents(n.of) # {}) => m.of = n.of

\* A person of the proposal is one individual; and two mentions of an individual as the child of their
\* parents, or as the parent of their children, are never two people, unless places are told apart.
AsParent == {"father", "mother", "spouse_father", "spouse_mother", "head"}
Positions(m) == CASE m.role \in {"principal", "spouse"} /\ m.type = "marriage" -> {"parent", "child"}
                  [] m.role = "spouse" \/ m.role \in AsParent -> {"parent"}
                  [] OTHER -> {"child"}
ClustersArePeople ==
    recon.status = "completed" /\ TellsApart =>
        LET o == recon.options  C == DOMAIN recon.graph.names IN
        /\ UNION C = Read(o) /\ \A c, d \in C : c # d => c \cap d = {}
        /\ \A c \in C, m, n \in Read(o) : {m, n} \subseteq c => m.of = n.of
        /\ ~o.conservative =>
            \A m, n \in Read(o) : (m.of = n.of /\ \E x \in Positions(m) \cap Positions(n) :
                                        x = "child" => Truth!parents(m.of) # {})
                                    => \E c \in C : {m, n} \subseteq c

\* The generations the proposal announces are those of the longest line of descent among its people
\* that was, when marriages tell where each parent comes from.
GenerationsAreTrue ==
    (world.linked /\ recon.status = "completed" /\ ~recon.options.conservative /\ TellsApart
        /\ (world.census => recon.options.include_census)) =>
        recon.graph.generations = Max({1 + n : n \in {d \in 0..Cardinality(world.truth.persons) :
                                            \E i, j \in world.truth.persons : \E e \in Truth!blood(i, j) : e = <<d, 0>>}})

\* What the proposal says of the people of the acts and of their generations is so.
ProposalIsTrue == ClustersArePeople /\ GenerationsAreTrue

\* The same name, folded, and spelled so that the lookup finds the one from the other.
SameName(m, n) == m.surname # None /\ norm_surname(m) = norm_surname(n) /\ norm_given(m) = norm_given(n)
FoundAs(m, n)  == <<m.surname, n.surname>> \in contains /\ <<n.surname, m.surname>> \in contains
Spelled == \A m, n \in Range(name) \cup Range(recon.graph.names) : SameName(m, n) => FoundAs(m, n)

\* Once all the families of the last graph were merged, in whatever parts and order, with merges of
\* earlier graphs in between, and over what was left by deleting someone, the tree tells the truth: two
\* people are related as they were, and have the relatives they had.  The surnames of the proposal and
\* of the tree are spelled so that the lookup finds them, and no two overlapping requests made the same.
InTree(i) == {p \in persons : <<norm_given(name[p]), norm_surname(name[p])>> \in FullName(i)}
Everyone  == {i \in world.truth.persons : FullName(i) # {}}
Has(i, j) == LET t == Truth!get_person_detail(i) IN
             {x \in {"parents", "siblings", "spouses", "children"} : j \in t[x]}
TreeIsTrue ==
    (recon.status = "completed" /\ merged # {} /\ merged = recon.graph.families /\ TellsApart
        /\ Spelled /\ crossed = {}
        /\ (world.census => recon.options.include_census)) =>
        /\ \A i \in Everyone : Cardinality(InTree(i)) = 1
        /\ \A i, j \in Everyone, p, q \in persons : (p \in InTree(i) /\ q \in InTree(j)) =>
            /\ get_relationship(p, q) = Truth!get_relationship(i, j)
            /\ Has(i, j) = {x \in {"parents", "siblings", "spouses", "children"} : q \in get_person_detail(p)[x]}

\* However often and whatever is merged, nobody is made twice under a name the lookup finds, nor any
\* couple, but what two requests that overlapped both found missing.
NobodyTwice ==
    world.mentions # {} =>
        /\ \A p, q \in persons :
            (/\ SameName(name[p], name[q]) /\ FoundAs(name[p], name[q])
             /\ <<"name", norm_given(name[p]), norm_surname(name[p])>> \notin crossed) => p = q
        /\ \A f, g \in Families :
            (/\ None \notin {husband[f], wife[f]} /\ husband[f] = husband[g] /\ wife[f] = wife[g]
             /\ <<"couple", husband[f], wife[f]>> \notin crossed) => f = g
=============================================================================
