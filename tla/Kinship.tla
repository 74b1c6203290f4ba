------------------------------ MODULE Kinship ------------------------------
(***************************************************************************)
(* What the tree answers: how two people are related (kinship.py), a       *)
(* person's relatives and the part of the tree around a person             *)
(* (tree/service.py), and what is impossible in it (consistency.py).  The  *)
(* tree changes row by row; dates are parameters, for the answers hold     *)
(* whatever they are.                                                      *)
(***************************************************************************)
EXTENDS Integers, FiniteSets, Sequences, FiniteSetsExt, TreeIds

CONSTANTS
    MaxAsked,   \* a bound: the questions are asked of trees of at most that many people
    Years       \* the years people may be born in

ASSUME TreeAssumption == IsFiniteSet(People) /\ None \notin People

VARIABLES
    persons,        \* the rows of persons
    husband, wife,  \* family |-> person or None
    child           \* the pairs <<family, person>> of family_children

tree == <<persons, husband, wife, child>>

(***************************************************************************)
(* The graph of _load_graph.                                               *)
(***************************************************************************)
family_rows == DOMAIN husband
Couple(f)  == {husband[f], wife[f]} \ {None}
parents(p) == UNION {Couple(f) : f \in {g \in family_rows : <<g, p>> \in child}}
children(p) == {c \in persons : p \in parents(c)}
spouses(p) == {s \in persons : \E f \in family_rows : <<s, p>> \in {<<husband[f], wife[f]>>,
                                                               <<wife[f], husband[f]>>}}
Steps == {"parent", "child", "spouse"}
next_to(p, step) == CASE step = "parent" -> parents(p)
                      [] step = "child"  -> children(p)
                      [] OTHER           -> spouses(p)

\* _ancestors: how many generations above p each ancestor is first met.
Higher(up, n) == UNION {parents(x) : x \in {y \in DOMAIN up : up[y] = n - 1}}
climb_again(up, n) ==
    [x \in DOMAIN up \cup Higher(up, n) |-> IF x \in Higher(up, n) THEN n ELSE up[x]]
climb(up, n) ==
    [x \in DOMAIN up \cup Higher(up, n) |-> IF x \in DOMAIN up THEN up[x] ELSE n]
ancestors(p) ==
    LET met[n \in 0..Cardinality(persons)] ==
            IF n = 0 THEN [x \in {p} |-> 0] ELSE climb(met[n - 1], n)
    IN  met[Cardinality(persons)]

\* The distances to a nearest common ancestor; which of several is up to the order of a set.
Larger(i, k) == IF i > k THEN i ELSE k
blood(a, b) ==
    LET up == ancestors(a)  across == ancestors(b)
        common == (DOMAIN up) \cap (DOMAIN across)
        cost(c) == <<up[c] + across[c], Larger(up[c], across[c])>>
        AtMost(x, y) == x[1] < y[1] \/ (x[1] = y[1] /\ x[2] <= y[2])
    IN  {<<up[c], across[c]>> : c \in {x \in common : \A y \in common : AtMost(cost(x), cost(y))}}

\* What b is of a: a kind and a degree.
half_by_his(a, b) ==
    Cardinality(parents(a) \cap parents(b)) = 1 /\ Cardinality(parents(a)) > 1
half(a, b) ==
    /\ Cardinality(parents(a) \cap parents(b)) = 1
    /\ Cardinality(parents(a)) > 1 \/ Cardinality(parents(b)) > 1
label(a, b, d) ==
    IF d = <<0, 0>> THEN <<"self", 0>>
    ELSE IF d[2] = 0 THEN <<"ancestor", d[1]>>
    ELSE IF d[1] = 0 THEN <<"descendant", d[2]>>
    ELSE IF d = <<1, 1>> THEN IF half(a, b) THEN <<"half sibling", 1>> ELSE <<"sibling", 1>>
    ELSE IF d[2] = 1 THEN <<"uncle", d[1] - 1>>
    ELSE IF d[1] = 1 THEN <<"nephew", d[2] - 1>> ELSE <<"cousin", d>>

\* Through a spouse s of a, and through a spouse s of b.
in_law(s, b, d) ==
    IF d = <<1, 0>> THEN <<"parent in law", 1>>
    ELSE IF d = <<1, 1>> THEN <<"sibling in law", 1>>
    ELSE IF d = <<0, 1>> THEN <<"stepchild", 1>> ELSE <<"of the spouse", label(s, b, d)>>
their_in_law(a, s, d) ==
    IF d = <<0, 1>> THEN <<"child in law", 1>>
    ELSE IF d = <<1, 1>> THEN <<"sibling in law", 1>>
    ELSE IF d = <<1, 0>> THEN <<"stepparent", 1>> ELSE <<"spouse of", label(a, s, d)>>
by_marriage(a, b)       == UNION {{in_law(s, b, d) : d \in blood(s, b)} : s \in spouses(a)}
by_their_marriage(a, b) == UNION {{their_in_law(a, s, d) : d \in blood(a, s)} : s \in spouses(b)}

(***************************************************************************)
(* _shortest_path: the queue, the people seen and who they were seen from, *)
(* after n people were taken from the queue.                               *)
(***************************************************************************)
neighbors(p) == {e \in persons \X Steps : e[1] \in next_to(p, e[2])}
visit_last(s, edge, from) ==
    [queue |-> Append(s.queue, edge[1]),
     prev  |-> [x \in DOMAIN s.prev \cup {edge[1]} |->
                    IF x = edge[1] THEN <<from, edge[2]>> ELSE s.prev[x]]]
visit(s, edge, from) ==
    IF edge[1] \in DOMAIN s.prev THEN s
    ELSE [queue |-> Append(s.queue, edge[1]),
          prev  |-> [x \in DOMAIN s.prev \cup {edge[1]} |->
                        IF x \in DOMAIN s.prev THEN s.prev[x] ELSE <<from, edge[2]>>]]
pop(s) ==
    IF s.queue = <<>> THEN s
    ELSE FoldSet(LAMBDA edge, t : visit(t, edge, Head(s.queue)),
                 [queue |-> Tail(s.queue), prev |-> s.prev], neighbors(Head(s.queue)))
search(a) ==
    LET after[n \in 0..Cardinality(persons)] ==
            IF n = 0 THEN [queue |-> <<a>>, prev |-> [x \in {a} |-> <<None, "none">>]]
            ELSE pop(after[n - 1])
    IN  after[Cardinality(persons)].prev
step_back(prev, a, path) == IF Head(path) = a THEN path ELSE <<prev[Head(path)][1]>> \o path
path_back(prev, a, b) ==
    LET back[n \in 0..Cardinality(persons)] ==
            IF n = 0 THEN <<b>> ELSE step_back(prev, a, back[n - 1])
    IN  IF b \in DOMAIN prev THEN back[Cardinality(persons)] ELSE <<>>
shortest_path(a, b) == path_back(search(a), a, b)

\* get_relationship: the labels it can give.
get_relationship(a, b) ==
    IF a = b THEN {<<"self", 0>>}
    ELSE IF blood(a, b) # {} THEN {label(a, b, d) : d \in blood(a, b)}
    ELSE IF b \in spouses(a) THEN {<<"spouse", 1>>}
    ELSE IF by_marriage(a, b) # {} THEN by_marriage(a, b)
    ELSE IF by_their_marriage(a, b) # {} THEN by_their_marriage(a, b)
    ELSE IF shortest_path(a, b) # <<>> THEN {<<"by alliances", 0>>}
    ELSE {<<"unrelated", 0>>}

(***************************************************************************)
(* get_person_detail and get_person_families.                              *)
(***************************************************************************)
ChildIn(p)  == {f \in family_rows : <<f, p>> \in child}
SpouseIn(p) == {f \in family_rows : p \in {husband[f], wife[f]}}
ChildrenOf(f) == {c \in persons : <<f, c>> \in child}
detail_of_husband(p) ==
    [parents  |-> UNION {Couple(f) : f \in ChildIn(p)},
     siblings |-> (UNION {ChildrenOf(f) : f \in ChildIn(p)}) \ {p},
     spouses  |-> {wife[f] : f \in SpouseIn(p)} \ {None, p},
     children |-> UNION {ChildrenOf(f) : f \in SpouseIn(p)}]
get_person_detail(p) ==
    [parents  |-> UNION {Couple(f) : f \in ChildIn(p)},
     siblings |-> (UNION {ChildrenOf(f) : f \in ChildIn(p)}) \ {p},
     spouses  |-> {IF husband[f] = p THEN wife[f] ELSE husband[f] : f \in SpouseIn(p)} \ {None},
     children |-> UNION {ChildrenOf(f) : f \in SpouseIn(p)}]
get_person_families(p) ==
    {[spouse |-> IF husband[f] = p THEN wife[f] ELSE husband[f],
      children_count |-> Cardinality(ChildrenOf(f)), id |-> f] : f \in SpouseIn(p)}
get_roots == {p \in persons : ChildIn(p) = {}}

(***************************************************************************)
(* get_subgraph: upwards through the families people are children of, then *)
(* downwards through the families they are parents in.                     *)
(***************************************************************************)
Up(S)   == UNION {parents(p) : p \in S}
down_of_husbands(S) == UNION {ChildrenOf(f) : f \in {g \in family_rows : husband[g] \in S}}
Down(S) == UNION {ChildrenOf(f) : f \in UNION {SpouseIn(p) : p \in S}}
Frontiers(p, Step(_), depth) ==
    LET frontier[n \in 0..depth] == IF n = 0 THEN {p} ELSE Step(frontier[n - 1]) IN frontier
get_subgraph(p, depth) ==
    LET above == Frontiers(p, Up, depth)  below == Frontiers(p, Down, depth)
        upper == UNION {ChildIn(x) : x \in UNION {above[n] : n \in 0..(depth - 1)}}
        lower == UNION {SpouseIn(x) : x \in UNION {below[n] : n \in 0..(depth - 1)}}
        climbed == UNION {above[n] : n \in 0..(depth - 1)}
    IN  [persons  |-> (UNION {above[n] \cup below[n] : n \in 0..depth})
                        \cup UNION {Couple(f) : f \in lower},
         families |-> [f \in upper \cup lower |->
                        (ChildrenOf(f) \cap climbed) \cup {c \in ChildrenOf(f) : f \in lower}]]

(***************************************************************************)
(* get_consistency: the issues, as code, person, relative and family.      *)
(* born, died and wed are what is known: functions on some of the people   *)
(* and families.                                                           *)
(***************************************************************************)
MOTHER_MIN == 12
MOTHER_MAX == 55
FATHER_MIN == 14
SPOUSE_MIN == 12
MAX_AGE    == 110

issues_of_people(born, died, today) ==
    {<<"birth_after_death", p, None, None>> :
        p \in {x \in (DOMAIN born) \cap (DOMAIN died) : died[x] < born[x]}}
    \cup {<<"alive_over_110", p, None, None>> :
            p \in {x \in (DOMAIN born) \ (DOMAIN died) : today - born[x] > MAX_AGE}}
issues_of_spouses(born, wed) ==
    {<<"spouse_too_young", m[1], IF husband[m[2]] = m[1] THEN wife[m[2]] ELSE husband[m[2]], m[2]>> :
        m \in {n \in (DOMAIN born) \X (DOMAIN wed) :
                n[1] \in Couple(n[2]) /\ wed[n[2]] - born[n[1]] < SPOUSE_MIN}}

issue_of_age_lax(age, least, most) ==
    IF age < least /\ age > 0 THEN {"parent_too_young"} ELSE {}
issue_of_age(age, least, most) ==
    IF age < 0 THEN {"child_older_than_parent"}
    ELSE IF age < least THEN {"parent_too_young"}
    ELSE IF age > most THEN {"mother_too_old"} ELSE {}
NoLimit == 1000000
issues_of_parent(f, c, p, least, most, born) ==
    IF p \notin DOMAIN born THEN {}
    ELSE {IF code = "child_older_than_parent" THEN <<code, c, p, f>> ELSE <<code, p, c, f>> :
            code \in issue_of_age(born[c] - born[p], least, most)}
issues_of_child(f, c, born, died, wed) ==
    {<<"child_before_marriage", c, None, f>> : x \in {y \in {f} : y \in DOMAIN wed /\ born[c] < wed[y]}}
    \cup {<<"child_after_mother_death", c, wife[f], f>> :
            x \in {y \in {wife[f]} : y \in DOMAIN died /\ born[c] > died[y] + 1}}
    \cup issues_of_parent(f, c, husband[f], FATHER_MIN, NoLimit, born)
    \cup issues_of_parent(f, c, wife[f], MOTHER_MIN, MOTHER_MAX, born)
get_consistency(born, died, wed, today) ==
    issues_of_people(born, died, today) \cup issues_of_spouses(born, wed)
    \cup UNION {issues_of_child(e[1], e[2], born, died, wed) : e \in {x \in child : x[2] \in DOMAIN born}}
Warnings == {"alive_over_110", "child_before_marriage", "mother_too_old"}
Errors(issues) == {i \in issues : i[1] \notin Warnings}

(***************************************************************************)
(* The tree, row by row.                                                   *)
(***************************************************************************)
set_slot(f, p) ==
    /\ \/ husband[f] = None /\ husband' = [husband EXCEPT ![f] = p] /\ wife' = wife
       \/ wife[f] = None /\ wife' = [wife EXCEPT ![f] = p] /\ husband' = husband
    /\ UNCHANGED <<persons, child>>
add_child(f, p) ==
    /\ <<f, p>> \notin child
    /\ child' = child \cup {<<f, p>>}
    /\ UNCHANGED <<persons, husband, wife>>

TreeInit ==
    /\ persons \subseteq People
    /\ husband = [f \in Families |-> None] /\ wife = [f \in Families |-> None] /\ child = {}
TreeNext == \E f \in Families, p \in persons : set_slot(f, p) \/ add_child(f, p)

(***************************************************************************)
(* Properties.                                                             *)
(***************************************************************************)

Compared == IF Cardinality(persons) <= MaxAsked THEN persons ELSE {}

\* Reference: the people n steps away, whether or not they are also nearer.
Onward(S, next) == UNION {next[x] : x \in S}
Away(p, n, next) == LET at[k \in 0..n] == IF k = 0 THEN {p} ELSE Onward(at[k - 1], next) IN at[n]
Above == [x \in persons |-> parents(x)]
Below == [x \in persons |-> children(x)]
Distances == 0..Cardinality(persons)
Pedigree(p) == [n \in Distances |-> Away(p, n, Above)]
OwnAncestors == {p \in persons : \E n \in Distances \ {0} : p \in Pedigree(p)[n]}

\* _blood finds a common ancestor whenever there is one, and no pair of generations that
\* lead to a common ancestor is shorter in all than the one it returns.
NearestAncestor ==
    LET pedigree == [p \in Compared |-> Pedigree(p)] IN
    \A a, b \in Compared :
        LET meet == {d \in Distances \X Distances : pedigree[a][d[1]] \cap pedigree[b][d[2]] # {}}
        IN  /\ blood(a, b) \subseteq meet
            /\ meet # {} => blood(a, b) # {}
            /\ \A d \in meet, e \in blood(a, b) : e[1] + e[2] <= d[1] + d[2]

\* The path shown between two people is one of the tree, and none is shorter; there is one
\* exactly when some chain of parents, children and spouses joins them.
Adjacent == [x \in persons |-> UNION {next_to(x, step) : step \in Steps}]
PathIsShortest == \A a \in Compared : LET prev == search(a) IN \A b \in Compared :
    LET path == path_back(prev, a, b) IN
    IF path = <<>> THEN \A n \in Distances : b \notin Away(a, n, Adjacent)
    ELSE /\ Head(path) = a /\ path[Len(path)] = b
         /\ \A i \in 1..(Len(path) - 1) : path[i + 1] \in Adjacent[path[i]]
         /\ \A n \in 0..(Len(path) - 2) : b \notin Away(a, n, Adjacent)

\* Neither the common ancestor nor the path the calculator shows has a nearer one.
NothingNearer == NearestAncestor /\ PathIsShortest

\* If b is said to be a's uncle then a is said to be b's nephew, and so on for every kind of
\* relation, unless both have married: then two marriages may relate them in two ways.
turned(l) ==
    CASE l[1] = "ancestor"      -> <<"descendant", l[2]>>
      [] l[1] = "descendant"    -> <<"ancestor", l[2]>>
      [] l[1] = "uncle"         -> <<"nephew", l[2]>>
      [] l[1] = "nephew"        -> <<"uncle", l[2]>>
      [] l[1] = "cousin"        -> <<"cousin", <<l[2][2], l[2][1]>>>>
      [] l[1] = "parent in law" -> <<"child in law", 1>>
      [] l[1] = "child in law"  -> <<"parent in law", 1>>
      [] l[1] = "stepchild"     -> <<"stepparent", 1>>
      [] l[1] = "stepparent"    -> <<"stepchild", 1>>
      [] OTHER                  -> l
Remote == {"of the spouse", "spouse of"}
RelationIsMutual == \A a, b \in Compared :
    LET there == get_relationship(a, b)  back == get_relationship(b, a) IN
    \/ back = {turned(l) : l \in there}
    \/ \E l \in there \cup back : l[1] \in Remote
    \/ blood(a, b) = {} /\ spouses(a) # {} /\ spouses(b) # {}

\* The relatives in the panel of one person and those in the panel of the other agree, and
\* with the relation the calculator gives; siblings of a family nobody is a parent in are the
\* exception: the calculator goes by parents.
DetailsAgree == \A a, b \in Compared :
    LET here == get_person_detail(a)  there == get_person_detail(b)
        called == {l[1] : l \in get_relationship(a, b)}
    IN  /\ b \in here.parents <=> a \in there.children
        /\ b \in here.siblings <=> a \in there.siblings
        /\ b \in here.spouses <=> a \in there.spouses
        /\ b \in here.spouses => \E g \in get_person_families(a) : g.spouse = b
        /\ (a # b /\ b \in here.parents /\ a \notin here.parents) =>
                called \cap {"ancestor", "descendant"} # {}
        /\ (a # b /\ b \in here.siblings /\ here.parents # {} /\ there.parents # {}
             /\ {a, b} \cap OwnAncestors = {}) =>
                \/ called \cap {"sibling", "half sibling", "ancestor", "descendant"} # {}
                \/ \A f \in ChildIn(a) \cap ChildIn(b) : Couple(f) = {}

\* The part of the tree that is drawn has all the people of its families, all the ancestors
\* and descendants within the depth, and all the children of a family drawn downwards.
SubgraphIsWhole == \A p \in Compared, depth \in {1, 2} :
    LET g == get_subgraph(p, depth) IN
    /\ \A f \in DOMAIN g.families : Couple(f) \cup g.families[f] \subseteq g.persons
    /\ \A n \in 0..depth : Away(p, n, Above) \cup Away(p, n, Below) \subseteq g.persons
    /\ \A x \in g.persons : \/ x = p
                            \/ \E f \in DOMAIN g.families : x \in Couple(f) \cup g.families[f]
    /\ \A f \in SpouseIn(p) : f \in DOMAIN g.families /\ g.families[f] = ChildrenOf(f)

\* The calculator, the panel and the drawing show one tree, whoever it is seen from.
ViewsAgree == RelationIsMutual /\ DetailsAgree /\ SubgraphIsWhole

\* Whoever is an ancestor of themselves, made so by hand or by a merge of namesakes, is reported, as an
\* error, however the years of birth are filled in: the generations of the circle cannot all have had
\* an age to be parents.
CirclesAreReported ==
    OwnAncestors # {} => \A born \in [persons -> Years] :
        Errors(get_consistency(born, <<>>, <<>>, 0)) # {}
=============================================================================
