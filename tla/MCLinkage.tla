----------------------------- MODULE MCLinkage -----------------------------
EXTENDS Linkage, TLC

CONSTANTS r1, r2

\* The baptisms of Pere and Sara, children of Flor, that of Jan, and the entry of Hug's household in a
\* census, c, and in the extraction before, c0; a row is mention, act, role, name, sex.
Rows == {
    <<"p1", "b1", "principal", "Pere", "M">>, <<"f1", "b1", "father", "Flor", "M">>,
    <<"p2", "b2", "principal", "Sara", "F">>, <<"f2", "b2", "father", "Flor", "M">>,
    <<"p3", "b3", "principal", "Jan", "M">>, <<"f3", "b3", "father", "Jordi", "M">>,
    <<"m3", "b3", "mother", "Marta", "F">>,
    <<"h",  "c",  "head", "Hug", "M">>, <<"w", "c", "spouse", "Wanda", "F">>,
    <<"s",  "c",  "son", "Cesc", "M">>, <<"h0", "c0", "head", "Hug", "M">>}
MCMentions == {row[1] : row \in Rows}
Cell(k)    == [m \in MCMentions |-> (CHOOSE row \in Rows : row[1] = m)[k]]
MCActOf    == Cell(2)
MCRole     == Cell(3)
MCNameOf   == Cell(4)
MCSexOf    == Cell(5)
MCKind     == [a \in {"b1", "b2", "b3", "c", "c0"} |->
                    IF a \in {"b1", "b2", "b3"} THEN "baptism" ELSE "census"]

\* Pere looks like both baptisms, Hug and his rival Hugo like the head of the household.
MCSimilar == {<<"Pere", "p1">>, <<"Pere", "p2">>, <<"Jan", "p3">>, <<"Hug", "h">>,
              <<"Hug", "h0">>, <<"Hugo", "h">>}
MCKnown   == 1 :> [name |-> "Pere", sex |-> "M"] @@ 2 :> [name |-> "Hug", sex |-> "M"]
             @@ 3 :> [name |-> "Hugo", sex |-> "M"] @@ 4 :> [name |-> "Jan", sex |-> "M"]
             @@ 5 :> [name |-> "Jordi", sex |-> "M"]

\* Of Jordi no surname is written: nobody finds him by his name.
MCFound == {<<row[4], row[4]>> : row \in Rows} \ {<<"Jordi", "Jordi">>}

\* Nobody is married or a child of anyone yet; or Jan has a father in the tree, whom the act
\* names but nobody finds.
Alone(S) == [living |-> S, husband |-> [f \in {"f1", "f2"} |-> None],
             wife |-> [f \in {"f1", "f2"} |-> None], child |-> {}]
Adopted == [Alone({4, 5}) EXCEPT !.husband["f1"] = 5, !.child = {<<"f1", 4>>}]
MCStarts == {Alone({1}), Alone({2, 3}), Alone({4}), Adopted}

\* At most two of the requests and jobs are under way together.
TwoAtOnce == Cardinality(Open) + Cardinality({j \in Jobs : job[j] # None}) <= 2

\* Once two of them had something other than a family they looked up in hand at once, what
\* is under way is finished and nothing more begins; once a person was deleted, no job begins
\* and nobody else is deleted.
Gone    == {p \in People : origin[p] = "gone"}
Crossed == {x \in crossed : x[1] # "kin"}
Finish ==
    /\ Crossed # {} => Open' \subseteq Open
    /\ Crossed # {} \/ Gone # {} =>
        Gone' = Gone /\ \A j \in Jobs : job[j] = None => job'[j] = None

\* Jobs that find something, for the people that were in the tree.
Worth == \A j \in Jobs : job[j] # None =>
    job[j].found \cup job[j].upgrades # {} /\ job[j].person \in DOMAIN Known

Alike == Permutations({r1, r2})
=============================================================================
