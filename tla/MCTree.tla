------------------------------- MODULE MCTree -------------------------------
(***************************************************************************)
(* A father and a child with the same name, each with its evidence: the    *)
(* child's event and resolved mention, a candidate of both for the         *)
(* mention, and the citations that accepting the child's candidate left:   *)
(* of the child itself and of the father, who came with it.                *)
(***************************************************************************)
EXTENDS Tree, TLC

CONSTANTS p1, p2, p3, n1, n2, n3, e1, e2, f1, f2, k1, k2, k3, m1, m2, c1, c2, c3, w1, w2

SmallTree ==
    {Person(p1, "M"), Person(p2, "U"),
     Name(n1, p1, "x", TRUE), Name(n2, p2, "x", TRUE),
     Family(f1, p1, None), Child(f1, p2),
     Event(e1, p2, "raw"), Citation(k1, p1, m1, c2), Citation(k2, p2, m1, c2),
     Mention(m1, p2), Mention(m2, None),
     Candidate(c1, p1, m1), Candidate(c2, p2, m1), Candidate(c3, p2, m2)}

\* One writer does everything.  When the first change has brought another
\* man, a second one links relatives while it links, merges or deletes.
Meanwhile(w) == link_relative(w) \/ merge_persons(w) \/ delete_person(w)

MCNext ==
    \/ req[w2] = None /\ Step(w1)
    \/ req[w2] # None /\ (Meanwhile(w1) \/ commit(w1) \/ rollback(w1))
    \/ /\ Len(log) = 1
       /\ Person(p3, "M") \in rows
       /\ req[w1] = None
       /\ link_relative(w2)
    \/ commit(w2) \/ rollback(w2)

MCSpec == Init /\ [][MCNext]_vars
=============================================================================
