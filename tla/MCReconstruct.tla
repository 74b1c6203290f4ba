--------------------------- MODULE MCReconstruct ---------------------------
EXTENDS Reconstruct

F(h, w) == [husband |-> h, wife |-> w]
Slots(S, slot(_)) == [f \in Families |-> IF f \in DOMAIN S THEN slot(S[f]) ELSE None]
TreeOf(people, S, born) ==
    [persons |-> people, husband |-> Slots(S, LAMBDA c : c.husband), wife |-> Slots(S, LAMBDA c : c.wife),
     child |-> born]

\* The people of the acts: given name, surname and sex.
Who == [i \in 1..9 |-> <<
    <<"Joan", "Puig", "M">>, <<"Maria", "Soler", "F">>, <<"Pere", "Puig", "M">>, <<"Anna", "Puig", "F">>,
    <<"Rosa", "Vidal", "F">>, <<"Gil", "Roca", "M">>, <<"Josep", "Puig", "M">>, <<"Clara", "Roca", "F">>,
    <<"Joan", "Puig", "M">>>>[i]]
Mention(act, type, place, role, i, given, surname) ==
    [act |-> act, type |-> type, place |-> place, role |-> role, of |-> i,
     given |-> given, surname |-> surname, sex |-> Who[i][3]]
Act(act, type, place, roles) ==
    {Mention(act, type, place, r[1], r[2], Who[r[2]][1], Who[r[2]][2]) : r \in roles}
\* The clergy writes in Latin; the surname of who is baptised is not written.
Latin(M)     == {IF m.given = "Joan" THEN [m EXCEPT !.given = "Joannes"] ELSE m : m \in M}
\* The clerk of the census marks the accent of a surname.
Accented(M)  == {IF m.surname = "Puig" THEN [m EXCEPT !.surname = "Pu'ig"] ELSE m : m \in M}
ByGiven(M)   == {IF m.role = "principal" THEN [m EXCEPT !.surname = None] ELSE m : m \in M}
Baptism(act, place, c, f, m) == Act(act, "baptism", place, {<<"principal", c>>, <<"father", f>>, <<"mother", m>>})

\* Three generations and two cousins, told by five acts of two places.
Cousins == TreeOf(1..8, <<F(1, 2), F(3, 5), F(6, 4)>>,
                  {<<1, 3>>, <<1, 4>>, <<2, 7>>, <<3, 8>>})
CousinActs ==
    Baptism("b3", "x", 3, 1, 2)
    \cup Act("m3", "marriage", "y", {<<"principal", 3>>, <<"spouse", 5>>, <<"father", 1>>, <<"mother", 2>>})
    \cup Act("m4", "marriage", "x", {<<"principal", 6>>, <<"spouse", 4>>, <<"spouse_father", 1>>, <<"spouse_mother", 2>>})
    \cup Baptism("b7", "y", 7, 3, 5) \cup Baptism("b8", "x", 8, 6, 4)
CousinsLatin == {IF m.act = "b3" THEN CHOOSE x \in ByGiven(Latin({m})) : TRUE ELSE m : m \in CousinActs}

\* A household of the census and the baptisms of two of its children.
House == TreeOf(1..4, <<F(1, 2)>>, {<<1, 3>>, <<1, 4>>})
HouseActs ==
    Accented(Act("c", "census", "x", {<<"head", 1>>, <<"spouse", 2>>, <<"son", 3>>, <<"daughter", 4>>}))
    \cup Latin(Baptism("b3", "x", 3, 1, 2) \cup ByGiven(Baptism("b4", "y", 4, 1, 2)))
\* The same without the father: the widow is the head.
Widow == {m \in HouseActs : m.act = "c" /\ m.of # 1} \cup {m \in HouseActs : m.act = "b3"}
WidowActs == {IF m.role = "spouse" THEN [m EXCEPT !.role = "head"] ELSE m : m \in Widow}
\* Father and son of the same name.
NamesakeActs == Baptism("b", "x", 9, 1, 2)

Called(p) == [given |-> Who[p][1], surname |-> Who[p][2]]
W(M, truth, known, plain, census) ==
    [mentions |-> M, truth |-> truth, known |-> known, plain |-> plain, linked |-> plain, census |-> census]
Nobody == <<>>
MCWorlds == {
    W({}, TreeOf({}, <<>>, {}), [p \in 1..4 |-> Called(p)], FALSE, FALSE),
    W(CousinsLatin, Cousins, Nobody, TRUE, FALSE),
    W(HouseActs, House, [p \in {1} |-> Called(1)], TRUE, TRUE),
    W(WidowActs, House, Nobody, FALSE, TRUE),
    W(NamesakeActs, TreeOf({1, 2, 9}, <<F(1, 2)>>, {<<1, 9>>}), Nobody, FALSE, FALSE),
    W(Baptism("b3", "x", 3, 1, 2), TreeOf(1..3, <<F(1, 2)>>, {<<1, 3>>}), [p \in {1} |-> [Called(1) EXCEPT !.surname = "Pu'ig"]],
      TRUE, FALSE)}

Names   == UNION {{w[1], w[2]} : w \in {Who[i] : i \in DOMAIN Who}}
MCFold  == [n \in Names \cup {"Joannes", "Pu'ig"} |->
                CASE n = "Joannes" -> "Joan" [] n = "Pu'ig" -> "Puig" [] OTHER -> n]
MCSound == [n \in Names |-> n]
MCContains == {<<n, n>> : n \in Names \cup {"Pu'ig"}}

\* The tree that grows by hand: at most five facts, people and families in their order.
Rows == {f \in Families : husband[f] # None \/ wife[f] # None \/ \E e \in child : e[1] = f}
Used == UNION {Couple(f) : f \in Families} \cup {e[2] : e \in child}
Facts == Cardinality({f \in Families : husband[f] # None}) + Cardinality({f \in Families : wife[f] # None})
         + Cardinality(child)
Grows == Facts <= 5 /\ Rows \subseteq {1, 2} /\ Used = 1..Cardinality(Used) /\ Rows = 1..Cardinality(Rows)
\* Families are merged one by one or all at once, and once more when all were; one person who is known
\* or stands between two generations is deleted then; a reconstruction is asked for again after a
\* failure or the deletion; what makes no difference is not asked for.
Whole == recon.graph.families # {} /\ merged = recon.graph.families
Between == DOMAIN world.known \cup {p \in persons : parents(p) # {} /\ children(p) # {}}
Asked(w) ==
    /\ \/ /\ Cardinality(w.families) = 1 /\ w.counts /\ gone = {} /\ ~Whole
          /\ recon.options.conservative => world.known # Nobody
       \/ \E g \in earlier \cup {recon.graph} : w.families = g.families
    /\ w.counts => Whole \/ ~(w.families \subseteq merged)
Bounded ==
    /\ Cardinality(gone') <= 1
    /\ gone' # gone => Whole /\ gone' \subseteq Between
    /\ recon'.status = "running" /\ recon.status # "running" =>
        /\ recon.status \in {"none", "error"} \/ gone # {}
        /\ recon'.options.include_census = world.census
        /\ recon'.options.link_to_tree <=> persons # {}
        /\ recon.status = "none" \/ recon'.options.conservative = recon.options.conservative
    /\ recon'.status = "error" => gone = {}
    /\ Cardinality(earlier') <= 1
    /\ Cardinality(work') = 2 => world.known # Nobody /\ gone = {} /\ earlier' = {}
    /\ recon' # recon \/ gone' # gone => work = {} \/ (world.known # Nobody /\ Cardinality(work) = 1)
    /\ Cardinality(work') > Cardinality(work) => \A w \in work' \ work : Asked(w)
MCNext == \/ world.mentions = {} /\ edit /\ Grows'
          \/ world.mentions # {} /\ discovery /\ Bounded
MCSpec == Init /\ [][MCNext]_vars
=============================================================================
