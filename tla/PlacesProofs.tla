---------------------------- MODULE PlacesProofs ----------------------------
(***************************************************************************)
(* Serial edits keep the hierarchy of places well formed and free of       *)
(* cycles, whatever the places, the events and the initial hierarchy, and  *)
(* for as long as no change is reverted: a revert does bring cycles in.    *)
(* What a merge gathers, it gathers in circles too.                        *)
(***************************************************************************)
EXTENDS Places, SequenceTheorems, WellFoundedInduction, TLAPS

Typing ==
    /\ parent \in [Places -> Places \cup {None, Gone}]
    /\ at \in [Events -> Places \cup {None}]

Standing ==
    /\ \A p \in Places : parent[p] \in Places => parent[parent[p]] # Gone
    /\ \A e \in Events : at[e] \in Places => parent[at[e]] # Gone

(***************************************************************************)
(* The relation "is or sits below" of the walk.                            *)
(***************************************************************************)

\* A place is reached by its own walk.
LEMMA WalkStarts == ASSUME NEW p \in Places PROVE is_descendant(p, p)
  BY DEF is_descendant

\* The walk goes on from any place it has reached.
LEMMA WalkGoesOn ==
  ASSUME NEW p \in Places, NEW q \in Places, is_descendant(p, q), parent[q] \in Places
  PROVE  is_descendant(p, parent[q])
  BY DEF is_descendant, Upward

\* Below a place and not that place: the walk goes through the parent.
LEMMA WalkThroughParent ==
  ASSUME NEW p \in Places, NEW q \in Places, p # q, is_descendant(p, q)
  PROVE  parent[p] \in Places /\ is_descendant(parent[p], q)
  <1>1. parent[p] \in Places
    <2>1. SUFFICES ASSUME parent[p] \notin Places PROVE FALSE
      OBVIOUS
    <2>2. {p} \in SUBSET Places /\ p \in {p} /\ Upward({p})
      BY <2>1 DEF Upward
    <2>3. QED
      BY <2>2 DEF is_descendant
  <1>2. ASSUME NEW S \in SUBSET Places, parent[p] \in S, Upward(S) PROVE q \in S
    <2>1. S \cup {p} \in SUBSET Places /\ p \in S \cup {p} /\ Upward(S \cup {p})
      BY <1>2 DEF Upward
    <2>2. q \in S \cup {p}
      BY <2>1 DEF is_descendant
    <2>3. QED
      BY <2>2
  <1>3. QED
    BY <1>1, <1>2 DEF is_descendant

\* Where the walk does not arrive there is a set it never leaves.
LEMMA WalkMisses ==
  ASSUME NEW p \in Places, NEW q \in Places, ~is_descendant(p, q)
  PROVE  \E C \in SUBSET Places : p \in C /\ q \notin C /\ Upward(C)
  BY DEF is_descendant

(***************************************************************************)
(* What a merge does, one fact per variable.                               *)
(***************************************************************************)

\* No place is its own parent where there is no cycle.
LEMMA NotOwnParent == ASSUME Acyclic, NEW p \in Places PROVE parent[p] # p
  <1>1. {p} \in SUBSET Places /\ {p} # {}
    OBVIOUS
  <1>2. QED
    BY <1>1 DEF Acyclic

\* The spot dst takes is never the place that goes.
LEMMA LiftedAway ==
  ASSUME Typing, Acyclic, NEW src \in Live, NEW dst \in Live
  PROVE  lifted(src, dst) \in (Places \cup {None}) \ {src}
  <1> USE PlacesAssumption
  <1>1. src \in Places /\ dst \in Places
        /\ parent[src] \in Places \cup {None} /\ parent[dst] \in Places \cup {None}
    BY DEF Live, Typing
  <1>2. CASE is_descendant(dst, src)
    BY <1>1, <1>2, NotOwnParent DEF lifted
  <1>3. CASE ~is_descendant(dst, src)
    <2>1. parent[dst] # src
      BY <1>1, <1>3, WalkStarts, WalkGoesOn
    <2>2. QED
      BY <1>1, <1>3, <2>1 DEF lifted
  <1>4. QED
    BY <1>2, <1>3

\* A merge, place by place.
LEMMA MergeStep ==
  ASSUME Typing, Acyclic, NEW src \in Places, NEW dst \in Places, merge_place(src, dst)
  PROVE  /\ src # dst /\ parent[src] # Gone /\ parent[dst] # Gone
         /\ parent' \in [Places -> Places \cup {None, Gone}]
         /\ parent'[src] = Gone
         /\ parent'[dst] = lifted(src, dst)
         /\ lifted(src, dst) \in (Places \cup {None}) \ {src}
         /\ \A x \in Places \ {src, dst} : parent'[x] = IF parent[x] = src THEN dst ELSE parent[x]
         /\ at' \in [Events -> Places \cup {None}]
         /\ \A e \in Events : at'[e] = IF at[e] = src THEN dst ELSE at[e]
  <1>1. src \in Live /\ dst \in Live /\ src # dst
    BY DEF merge_place
  <1>2. lifted(src, dst) \in (Places \cup {None}) \ {src}
    BY <1>1, LiftedAway
  <1>3. parent' = [p \in Places |->
                    CASE p = src -> Gone
                      [] p = dst -> IF lifted(src, dst) = src THEN None ELSE lifted(src, dst)
                      [] p # src /\ p # dst -> IF parent[p] = src THEN dst ELSE parent[p]]
    BY DEF merge_place, adopted
  <1>4. parent' \in [Places -> Places \cup {None, Gone}]
    BY <1>2, <1>3 DEF Typing
  <1>5. at' = [e \in Events |-> IF at[e] = src THEN dst ELSE at[e]]
    BY DEF merge_place, repointed
  <1>6. at' \in [Events -> Places \cup {None}]
    BY <1>5 DEF Typing
  <1>7. QED
    BY <1>1, <1>2, <1>3, <1>4, <1>5, <1>6 DEF Live

(***************************************************************************)
(* The parts of the invariant, one lemma each, per request.                *)
(***************************************************************************)

\* A move keeps the hierarchy well formed.
LEMMA UpdateKeeps ==
  ASSUME Typing, Standing, Acyclic, NEW p \in Places, NEW q \in Places, update_place(p, q)
  PROVE  Typing' /\ Standing' /\ Acyclic'
  <1> USE PlacesAssumption
  <1>1. /\ parent' \in [Places -> Places \cup {None, Gone}]
        /\ \A x \in Places : parent'[x] = IF x = p THEN q ELSE parent[x]
    BY DEF update_place, Typing
  <1>2. at' = at /\ parent[p] # Gone /\ parent[q] # Gone /\ ~is_descendant(q, p)
    BY DEF update_place, Live
  <1>3. Typing' /\ Standing'
    <2>1. Typing'
      BY <1>1, <1>2 DEF Typing
    <2>2. ASSUME NEW x \in Places, parent'[x] \in Places PROVE parent'[parent'[x]] # Gone
      BY <1>1, <1>2, <2>2 DEF Standing
    <2>3. ASSUME NEW e \in Events, at'[e] \in Places PROVE parent'[at'[e]] # Gone
      BY <1>1, <1>2, <2>3 DEF Standing
    <2>4. QED
      BY <2>1, <2>2, <2>3 DEF Standing
  <1>4. ASSUME NEW S \in SUBSET Places, S # {}, \A x \in S : parent'[x] \in S
        PROVE  FALSE
    <2>1. PICK C \in SUBSET Places : q \in C /\ p \notin C /\ Upward(C)
      BY <1>2, WalkMisses
    <2>2. CASE p \notin S
      BY <1>1, <1>4, <2>2 DEF Acyclic
    <2>3. CASE p \in S
      <3>1. q \in S
        BY <1>1, <1>4, <2>3
      <3>2. S \cap C \in SUBSET Places /\ S \cap C # {}
        BY <2>1, <3>1
      <3>3. \A x \in S \cap C : parent[x] \in S \cap C
        BY <1>1, <1>4, <2>1 DEF Upward
      <3>4. QED
        BY <3>2, <3>3 DEF Acyclic
    <2>4. QED
      BY <2>2, <2>3
  <1>5. QED
    BY <1>3, <1>4 DEF Acyclic

\* A merge leaves nothing that refers to the place it deletes.
LEMMA MergeKeepsStanding ==
  ASSUME Typing, Standing, Acyclic, NEW src \in Places, NEW dst \in Places, merge_place(src, dst)
  PROVE  Typing' /\ Standing'
  <1> USE PlacesAssumption
  <1>1. Typing'
    BY MergeStep DEF Typing
  <1>2. \A y \in Places : y # src /\ parent[y] # Gone => parent'[y] # Gone
    BY MergeStep
  <1>3. parent[src] \in Places => parent[parent[src]] # Gone
    BY DEF Standing
  <1>4. parent[dst] \in Places => parent[parent[dst]] # Gone
    BY DEF Standing
  <1>5. parent'[dst] \in Places => parent'[parent'[dst]] # Gone
    BY MergeStep, <1>2, <1>3, <1>4 DEF lifted
  <1>6. ASSUME NEW x \in Places \ {src, dst}, parent'[x] \in Places PROVE parent'[parent'[x]] # Gone
    <2>1. CASE parent[x] = src
      BY <1>2, <2>1, MergeStep
    <2>2. CASE parent[x] # src
      <3>1. parent'[x] = parent[x]
        BY <2>2, MergeStep
      <3>2. parent[parent[x]] # Gone
        BY <1>6, <3>1 DEF Standing
      <3>3. QED
        BY <1>2, <1>6, <2>2, <3>1, <3>2
    <2>3. QED
      BY <2>1, <2>2
  <1>7. ASSUME NEW e \in Events, at'[e] \in Places PROVE parent'[at'[e]] # Gone
    BY <1>2, <1>7, MergeStep DEF Standing
  <1>8. parent'[src] \notin Places
    BY MergeStep
  <1>9. QED
    BY <1>1, <1>5, <1>6, <1>7, <1>8 DEF Standing

\* A merge closes no cycle.  A set the new parents never leave would, with
\* the places between dst and src added, be one the old parents never leave.
LEMMA MergeKeepsAcyclic ==
  ASSUME Typing, Acyclic, NEW src \in Places, NEW dst \in Places, merge_place(src, dst)
  PROVE  Acyclic'
  <1> USE PlacesAssumption
  <1>1. SUFFICES ASSUME NEW S \in SUBSET Places, S # {}, \A x \in S : parent'[x] \in S
                 PROVE  FALSE
    BY DEF Acyclic
  <1>2. src \notin S
    BY <1>1, MergeStep
  <1>3. ASSUME NEW x \in S, x # dst, parent[x] # src PROVE parent[x] \in S
    BY <1>1, <1>2, <1>3, MergeStep
  <1>4. CASE dst \notin S
    <2>1. \A x \in S : x # dst /\ parent[x] # src
      BY <1>1, <1>2, <1>4, MergeStep
    <2>2. QED
      BY <1>1, <1>3, <2>1 DEF Acyclic
  <1>5. CASE dst \in S /\ is_descendant(dst, src)
    <2> DEFINE Between == {y \in Places : is_descendant(dst, y) /\ is_descendant(y, src)}
    <2>1. src \in Between /\ dst \in Between
      BY <1>5, WalkStarts
    <2>2. parent[src] \in S
      BY <1>1, <1>5, MergeStep DEF lifted
    <2>3. ASSUME NEW y \in Between, y # src PROVE parent[y] \in Between
      BY <2>3, WalkThroughParent, WalkGoesOn
    <2>4. ASSUME NEW x \in S \cup Between PROVE parent[x] \in S \cup Between
      <3>1. CASE x \in Between
        BY <2>2, <2>3, <3>1
      <3>2. CASE x \notin Between
        BY <1>3, <2>1, <2>4, <3>2
      <3>3. QED
        BY <3>1, <3>2
    <2>5. S \cup Between \in SUBSET Places /\ S \cup Between # {}
      BY <1>1
    <2>6. QED
      BY <2>4, <2>5 DEF Acyclic
  <1>6. CASE dst \in S /\ ~is_descendant(dst, src)
    <2>1. PICK C \in SUBSET Places : dst \in C /\ src \notin C /\ Upward(C)
      BY <1>6, WalkMisses
    <2>2. parent[dst] \in S
      <3>1. lifted(src, dst) = parent[dst]
        BY <1>6 DEF lifted
      <3>2. parent'[dst] = lifted(src, dst)
        BY MergeStep
      <3>3. QED
        BY <1>1, <1>6, <3>1, <3>2
    <2>3. ASSUME NEW x \in S \cap C PROVE parent[x] \in S \cap C
      <3>1. parent[x] # src
        BY <2>1, <2>3 DEF Upward
      <3>2. parent[x] \in S
        BY <1>3, <2>2, <2>3, <3>1
      <3>3. QED
        BY <2>1, <2>3, <3>2 DEF Upward
    <2>4. S \cap C \in SUBSET Places /\ S \cap C # {}
      BY <1>6, <2>1
    <2>5. QED
      BY <2>3, <2>4 DEF Acyclic
  <1>7. QED
    BY <1>4, <1>5, <1>6

\* A place that appears or loses its parent leads out of any set.
LEMMA TopKeepsAcyclic ==
  ASSUME Acyclic, NEW p \in Places, \A x \in Places : parent'[x] = IF x = p THEN None ELSE parent[x]
  PROVE  Acyclic'
  <1>1. SUFFICES ASSUME NEW S \in SUBSET Places, S # {}, \A x \in S : parent'[x] \in S
                 PROVE  FALSE
    BY DEF Acyclic
  <1>2. p \notin S
    BY <1>1, PlacesAssumption
  <1>3. QED
    BY <1>1, <1>2 DEF Acyclic

\* Any request.
LEMMA EditKeeps ==
  ASSUME Typing, Standing, Acyclic, Edit
  PROVE  Typing' /\ Standing' /\ Acyclic'
  <1> USE PlacesAssumption
  <1>1. ASSUME NEW p \in Places, NEW q \in Places, update_place(p, q)
        PROVE  Typing' /\ Standing' /\ Acyclic'
    BY <1>1, UpdateKeeps
  <1>2. ASSUME NEW p \in Places, NEW q \in Places, merge_place(p, q)
        PROVE  Typing' /\ Standing' /\ Acyclic'
    BY <1>2, MergeKeepsStanding, MergeKeepsAcyclic
  <1>3. ASSUME NEW p \in Places, clear_parent(p)
        PROVE  Typing' /\ Standing' /\ Acyclic'
    <2>1. /\ parent' \in [Places -> Places \cup {None, Gone}]
          /\ \A x \in Places : parent'[x] = IF x = p THEN None ELSE parent[x]
          /\ at' = at
      BY <1>3 DEF clear_parent, Typing
    <2>2. Typing' /\ Standing'
      BY <2>1 DEF Typing, Standing
    <2>3. QED
      BY <2>1, <2>2, TopKeepsAcyclic
  <1>4. ASSUME NEW e \in Events, NEW p \in Places, resolve_place(e, p)
        PROVE  Typing' /\ Standing' /\ Acyclic'
    <2>1. /\ at' \in [Events -> Places \cup {None}]
          /\ \A x \in Events : at'[x] = IF x = e THEN p ELSE at[x]
      BY <1>4 DEF resolve_place, Typing
    <2>2. CASE p \in Live
      <3>1. parent' = parent /\ parent[p] # Gone
        BY <1>4, <2>2 DEF resolve_place, Live
      <3>2. QED
        BY <2>1, <3>1 DEF Typing, Standing, Acyclic
    <2>3. CASE p \notin Live
      <3>1. /\ parent' \in [Places -> Places \cup {None, Gone}]
            /\ \A x \in Places : parent'[x] = IF x = p THEN None ELSE parent[x]
        BY <1>4, <2>3 DEF resolve_place, Typing
      <3>2. Typing' /\ Standing'
        BY <2>1, <3>1 DEF Typing, Standing
      <3>3. QED
        BY <3>1, <3>2, TopKeepsAcyclic
    <2>4. QED
      BY <2>2, <2>3
  <1>5. ASSUME NEW e \in Events, forget_place(e)
        PROVE  Typing' /\ Standing' /\ Acyclic'
    BY <1>5 DEF forget_place, Typing, Standing, Acyclic
  <1>6. QED
    BY <1>1, <1>2, <1>3, <1>4, <1>5 DEF Edit

(***************************************************************************)
(* The log says whether there was a revert.                                *)
(***************************************************************************)
IsLog == \E S : log \in Seq(S)

\* A change is appended to the log and the earlier ones stay.
LEMMA LogGrows ==
  ASSUME IsLog, NEW n \in Nat, audited(n)
  PROVE  IsLog' /\ (~Reverted' => ~Reverted /\ n = 0)
  <1>1. PICK S : log \in Seq(S)
    BY DEF IsLog
  <1> DEFINE T == S \cup {Logged(n)}
  <1>2. log \in Seq(T) /\ Logged(n) \in T
    BY <1>1
  <1>3. log' = Append(log, Logged(n))
    BY DEF audited
  <1>4. /\ log' \in Seq(T)
        /\ Len(log') = Len(log) + 1
        /\ \A i \in 1..Len(log) : log'[i] = log[i]
        /\ log'[Len(log) + 1] = Logged(n)
    BY <1>2, <1>3, AppendProperties
  <1>5. Logged(n).reverts = n
    BY DEF Logged
  <1>6. DOMAIN log = 1..Len(log) /\ DOMAIN log' = 1..(Len(log) + 1) /\ Len(log) \in Nat
    BY <1>2, <1>4, LenProperties
  <1>7. ASSUME ~Reverted' PROVE ~Reverted /\ n = 0
    <2>1. \A i \in DOMAIN log' : log'[i].reverts = 0
      BY <1>7 DEF Reverted
    <2>2. n = 0
      BY <1>4, <1>5, <1>6, <2>1
    <2>3. \A i \in DOMAIN log : log[i].reverts = 0
      BY <1>4, <1>6, <2>1
    <2>4. QED
      BY <2>2, <2>3 DEF Reverted
  <1>8. QED
    BY <1>4, <1>7 DEF IsLog

\* An edit is logged as one, a revert as a revert.
LEMMA StepIsLogged ==
  ASSUME IsLog, Next
  PROVE  IsLog' /\ (~Reverted' => ~Reverted /\ Edit)
  <1>1. CASE Edit
    <2>1. audited(0)
      BY <1>1 DEF Edit, update_place, merge_place, clear_parent, resolve_place, forget_place
    <2>2. QED
      BY <1>1, <2>1, LogGrows
  <1>2. ASSUME NEW n \in 1..MaxChanges, revert_change(n) PROVE IsLog' /\ Reverted'
    <2>1. audited(n) /\ n \in Nat /\ n # 0
      BY <1>2 DEF revert_change
    <2>2. QED
      BY <2>1, LogGrows
  <1>3. QED
    BY <1>1, <1>2 DEF Next

\* Until something is reverted the hierarchy has no cycle: no move and no merge
\* closes one (places.py 139-140, 177 and 201-202).
THEOREM NoCycles == Spec => []EditsAcyclic
  <1> DEFINE Inv == IsLog /\ (~Reverted => Typing /\ Standing /\ Acyclic)
  <1>1. Init => Inv
    <2>1. <<>> \in Seq({})
      OBVIOUS
    <2>2. QED
      BY <2>1, PlacesAssumption DEF Init, Typing, Standing, Acyclic, IsLog
  <1>2. Inv /\ [Next]_vars => Inv'
    <2>1. ASSUME Inv, Next PROVE Inv'
      BY <2>1, StepIsLogged, EditKeeps
    <2>2. ASSUME Inv, UNCHANGED vars PROVE Inv'
      <3>1. parent' = parent /\ at' = at /\ log' = log
        BY <2>2 DEF vars
      <3>2. IsLog' /\ Reverted' = Reverted
        BY <2>2, <3>1 DEF IsLog, Reverted
      <3>3. QED
        BY <2>2, <3>1, <3>2 DEF Typing, Standing, Acyclic
    <2>3. QED
      BY <2>1, <2>2
  <1>3. Inv => EditsAcyclic
    BY DEF EditsAcyclic
  <1>4. QED
    BY <1>1, <1>2, <1>3, PTL DEF Spec

\* The primed walk, spelled out.
LEMMA GatherStep ==
  ASSUME NEW src \in Places, NEW dst \in Places, merge_place(src, dst),
         NEW p \in Places \ {src, dst}, is_descendant(p, src)
  PROVE  is_descendant(p, dst)'
  <1>1. SUFFICES ASSUME NEW S \in SUBSET Places, p \in S,
                        \A x \in S : parent'[x] \in Places => parent'[x] \in S,
                        dst \notin S
                 PROVE  FALSE
    BY DEF is_descendant, Upward
  <1>2. \A x \in Places \ {src, dst} : parent'[x] = IF parent[x] = src THEN dst ELSE parent[x]
    BY DEF merge_place, adopted
  <1>3. ASSUME NEW x \in S \ {src}, parent[x] \in Places PROVE parent[x] \in S \ {src}
    BY <1>1, <1>2, <1>3
  <1>4. S \ {src} \in SUBSET Places /\ p \in S \ {src} /\ Upward(S \ {src})
    BY <1>1, <1>3 DEF Upward
  <1>5. QED
    BY <1>4 DEF is_descendant

\* Whatever was below a merged place is below the one it was merged into
\* (merge_place, places.py 190-212), circles included.
THEOREM MergesGather == Spec => MergeGathers
  <1>1. [Next]_vars => [\A src, dst \in Places : merge_place(src, dst) =>
                   \A p \in Places \ {src, dst} : is_descendant(p, src) => is_descendant(p, dst)']_vars
    BY GatherStep
  <1>2. QED
    BY <1>1, PTL DEF Spec, MergeGathers

(***************************************************************************)
(* What the log remembers.  Its images, replayed in order, give the rows:  *)
(* this holds over deletions, re-creations and reverts alike, and is what  *)
(* makes the revert of the last change an undo.                            *)
(***************************************************************************)

\* Some change up to n that is the last of them.
LEMMA LastOfSome ==
  ASSUME NEW n \in Nat, NEW S \in SUBSET (1..n), S # {}
  PROVE  \E k \in S : \A m \in S : m <= k
  <1> DEFINE T == {n - k : k \in S}
  <1>1. T \subseteq Nat /\ T # {}
    OBVIOUS
  <1>2. PICK x \in T : \A y \in T : <<y, x>> \notin OpToRel(<, Nat)
    BY <1>1, NatLessThanWellFounded, WFMin
  <1>3. PICK k \in S : x = n - k
    OBVIOUS
  <1>4. ASSUME NEW m \in S, ~(m <= k) PROVE FALSE
    <2>1. n - m \in T /\ n - m < n - k /\ n - m \in Nat /\ n - k \in Nat
      BY <1>4
    <2>2. <<n - m, n - k>> \in OpToRel(<, Nat)
      BY <2>1 DEF OpToRel
    <2>3. QED
      BY <1>2, <1>3, <2>1, <2>2
  <1>5. QED
    BY <1>4

\* Replayed, over a sequence I of sets of images.
Mentions(I, x, n) == {k \in 1..n : \E i \in I[k] : i[1] = x}
LastOf(I, x, n) == CHOOSE k \in Mentions(I, x, n) : \A m \in Mentions(I, x, n) : m <= k
ImageOf(S, x) == CHOOSE i \in S : i[1] = x
Track(I, start, n) ==
    [x \in DOMAIN start |-> IF Mentions(I, x, n) = {} THEN start[x]
                            ELSE ImageOf(I[LastOf(I, x, n)], x)[3]]

\* The images of the rows W when their column goes from v to w.
Images(W, v, w) == {<<x, v[x], w[x]>> : x \in {y \in W : w[y] # v[y]}}

\* The last change up to n that mentions a row.
LEMMA LastMention ==
  ASSUME NEW n \in Nat, NEW I, NEW x, Mentions(I, x, n) # {}
  PROVE  /\ LastOf(I, x, n) \in Mentions(I, x, n)
         /\ \A m \in Mentions(I, x, n) : m <= LastOf(I, x, n)
  <1>1. Mentions(I, x, n) \in SUBSET (1..n)
    BY DEF Mentions
  <1>2. \E k \in Mentions(I, x, n) : \A m \in Mentions(I, x, n) : m <= k
    BY <1>1, LastOfSome
  <1>3. QED
    BY <1>2 DEF LastOf

\* Later changes do not alter what the first n had made of a row.
LEMMA TrackOfPast ==
  ASSUME NEW n \in Nat, NEW I, NEW J, NEW start, \A k \in 1..n : J[k] = I[k]
  PROVE  Track(J, start, n) = Track(I, start, n)
  <1>1. \A x : Mentions(J, x, n) = Mentions(I, x, n)
    BY DEF Mentions
  <1>2. \A x : LastOf(J, x, n) = LastOf(I, x, n)
    BY <1>1 DEF LastOf
  <1>3. ASSUME NEW x, Mentions(I, x, n) # {}
        PROVE  J[LastOf(J, x, n)] = I[LastOf(I, x, n)]
    <2>1. LastOf(I, x, n) \in 1..n
      BY <1>3, LastMention DEF Mentions
    <2>2. QED
      BY <1>2, <2>1
  <1>4. QED
    BY <1>1, <1>3 DEF Track

\* What one more change does to a row: the new image, if there is one.
LEMMA TrackStep ==
  ASSUME NEW n \in Nat, NEW I, NEW start, NEW x \in DOMAIN start
  PROVE  Track(I, start, n + 1)[x] = IF \E i \in I[n + 1] : i[1] = x
                                     THEN ImageOf(I[n + 1], x)[3] ELSE Track(I, start, n)[x]
  <1>1. CASE \E i \in I[n + 1] : i[1] = x
    <2>1. n + 1 \in Mentions(I, x, n + 1)
      BY <1>1 DEF Mentions
    <2>2. LastOf(I, x, n + 1) \in 1..(n + 1) /\ n + 1 <= LastOf(I, x, n + 1)
      BY <2>1, LastMention DEF Mentions
    <2>3. LastOf(I, x, n + 1) = n + 1
      BY <2>2
    <2>4. QED
      BY <1>1, <2>1, <2>3 DEF Track
  <1>2. CASE ~\E i \in I[n + 1] : i[1] = x
    <2>1. Mentions(I, x, n + 1) = Mentions(I, x, n)
      BY <1>2 DEF Mentions
    <2>2. LastOf(I, x, n + 1) = LastOf(I, x, n)
      BY <2>1 DEF LastOf
    <2>3. QED
      BY <1>2, <2>1, <2>2 DEF Track
  <1>3. QED
    BY <1>1, <1>2

\* The images of a step, row by row: there is one of a row that changed ...
LEMMA RowHasImage ==
  ASSUME NEW W, NEW v, NEW w, NEW x \in W, NEW S, S = Images(W, v, w)
  PROVE  (\E i \in S : i[1] = x) <=> w[x] # v[x]
  <1>1. ASSUME NEW i \in S, i[1] = x PROVE w[x] # v[x]
    <2>1. PICK y \in {z \in W : w[z] # v[z]} : i = <<y, v[y], w[y]>>
      BY <1>1 DEF Images
    <2>2. QED
      BY <1>1, <2>1
  <1>2. ASSUME w[x] # v[x] PROVE <<x, v[x], w[x]>> \in S /\ <<x, v[x], w[x]>>[1] = x
    BY <1>2 DEF Images
  <1>3. QED
    BY <1>1, <1>2

\* ... and it is the only one.
LEMMA ImageOfRow ==
  ASSUME NEW W, NEW v, NEW w, NEW x \in W, NEW S, S = Images(W, v, w), w[x] # v[x]
  PROVE  ImageOf(S, x)[2] = v[x] /\ ImageOf(S, x)[3] = w[x]
  <1>1. <<x, v[x], w[x]>> \in S /\ <<x, v[x], w[x]>>[1] = x
    BY DEF Images
  <1>2. ASSUME NEW i \in S, i[1] = x PROVE i = <<x, v[x], w[x]>>
    <2>1. PICK y \in {z \in W : w[z] # v[z]} : i = <<y, v[y], w[y]>>
      BY <1>2 DEF Images
    <2>2. QED
      BY <1>2, <2>1
  <1>3. ImageOf(S, x) = <<x, v[x], w[x]>>
    BY <1>1, <1>2 DEF ImageOf
  <1>4. QED
    BY <1>3

(***************************************************************************)
(* One column of the rows W: its value v is what the log I of n changes    *)
(* makes of it, and the last change has the images that lead to v.         *)
(***************************************************************************)
Kept(W, I, start, n, v) ==
    /\ v = [x \in W |-> v[x]]
    /\ v = Track(I, start, n)
    /\ n > 0 => I[n] = Images(W, Track(I, start, n - 1), v)

\* One more change, with its images.
LEMMA KeptGoesOn ==
  ASSUME NEW W, NEW I, NEW J, NEW start, NEW n \in Nat, NEW v, NEW w,
         DOMAIN start = W, Kept(W, I, start, n, v), w = [x \in W |-> w[x]],
         \A k \in 1..n : J[k] = I[k], J[n + 1] = Images(W, v, w)
  PROVE  Kept(W, J, start, n + 1, w)
  <1>1. Track(J, start, n) = v
    BY TrackOfPast DEF Kept
  <1>2. ASSUME NEW x \in W PROVE Track(J, start, n + 1)[x] = w[x]
    <2>1. Track(J, start, n + 1)[x] = IF \E i \in J[n + 1] : i[1] = x
                                      THEN ImageOf(J[n + 1], x)[3] ELSE Track(J, start, n)[x]
      BY TrackStep
    <2>2. (\E i \in J[n + 1] : i[1] = x) <=> w[x] # v[x]
      BY RowHasImage
    <2>3. w[x] # v[x] => ImageOf(J[n + 1], x)[3] = w[x]
      BY ImageOfRow
    <2>4. CASE w[x] # v[x]
      BY <2>1, <2>2, <2>3, <2>4
    <2>5. CASE w[x] = v[x]
      BY <1>1, <2>1, <2>2, <2>5
    <2>6. QED
      BY <2>4, <2>5
  <1>3. Track(J, start, n + 1) = [x \in W |-> Track(J, start, n + 1)[x]]
    BY DEF Track
  <1>4. Track(J, start, n + 1) = w
    BY <1>2, <1>3
  <1>5. n + 1 - 1 = n /\ n + 1 > 0
    OBVIOUS
  <1>6. QED
    BY <1>1, <1>4, <1>5 DEF Kept

\* Writing the "before" images of the last change back is to forget it.
LEMMA KeptGoesBack ==
  ASSUME NEW W, NEW I, NEW start, NEW n \in Nat, n > 0, NEW v,
         DOMAIN start = W, Kept(W, I, start, n, v), NEW w,
         w = [x \in W |-> w[x]],
         \A x \in W : w[x] = IF \E i \in I[n] : i[1] = x THEN ImageOf(I[n], x)[2] ELSE v[x]
  PROVE  w = Track(I, start, n - 1)
  <1> DEFINE u == Track(I, start, n - 1)
  <1>1. I[n] = Images(W, u, v)
    BY DEF Kept
  <1>2. u = [x \in W |-> u[x]]
    BY DEF Track
  <1> HIDE DEF u
  <1>3. ASSUME NEW x \in W
        PROVE  (IF \E i \in I[n] : i[1] = x THEN ImageOf(I[n], x)[2] ELSE v[x]) = u[x]
    <2>1. (\E i \in I[n] : i[1] = x) <=> v[x] # u[x]
      BY <1>1, RowHasImage
    <2>2. v[x] # u[x] => ImageOf(I[n], x)[2] = u[x]
      BY <1>1, ImageOfRow
    <2>3. CASE v[x] # u[x]
      BY <2>1, <2>2, <2>3
    <2>4. CASE v[x] = u[x]
      BY <2>1, <2>4
    <2>5. QED
      BY <2>3, <2>4
  <1>4. QED
    BY <1>2, <1>3 DEF u

(***************************************************************************)
(* The log of the hierarchy.                                               *)
(***************************************************************************)
PlaceImages == [k \in DOMAIN log |-> log[k].places]
EventImages == [k \in DOMAIN log |-> log[k].events]

Remembered ==
    /\ IsLog
    /\ Kept(Places, PlaceImages, InitParent, Len(log), parent)
    /\ Kept(Events, EventImages, InitAt, Len(log), at)

\* Replayed, told with the images of each column.
LEMMA ReplayIsTrack ==
  ASSUME IsLog, NEW n \in Nat, n <= Len(log)
  PROVE  /\ Replayed(LAMBDA c : c.places, InitParent, n) = Track(PlaceImages, InitParent, n)
         /\ Replayed(LAMBDA c : c.events, InitAt, n) = Track(EventImages, InitAt, n)
  <1>1. PICK S : log \in Seq(S)
    BY DEF IsLog
  <1>2. DOMAIN log = 1..Len(log) /\ Len(log) \in Nat
    BY <1>1, LenProperties
  <1>3. \A k \in 1..n : PlaceImages[k] = log[k].places /\ EventImages[k] = log[k].events
    BY <1>2 DEF PlaceImages, EventImages
  <1>4. Replayed(LAMBDA c : c.places, InitParent, n) = Track(PlaceImages, InitParent, n)
    <2> DEFINE seen(x) == {k \in 1..n : \E i \in log[k].places : i[1] = x}
               last(x) == CHOOSE k \in seen(x) : \A m \in seen(x) : m <= k
               image(x) == CHOOSE i \in log[last(x)].places : i[1] = x
    <2>1. Replayed(LAMBDA c : c.places, InitParent, n)
            = [x \in DOMAIN InitParent |-> IF seen(x) = {} THEN InitParent[x] ELSE image(x)[3]]
      BY Zenon DEF Replayed
    <2>2. \A x : seen(x) = Mentions(PlaceImages, x, n)
      BY <1>3 DEF Mentions
    <2> HIDE DEF seen
    <2>3. \A x : last(x) = LastOf(PlaceImages, x, n)
      BY <2>2 DEF LastOf
    <2> HIDE DEF last
    <2>4. ASSUME NEW x, seen(x) # {} PROVE PlaceImages[last(x)] = log[last(x)].places
      <3>1. last(x) \in 1..n
        BY <2>2, <2>3, <2>4, LastMention DEF Mentions
      <3>2. QED
        BY <1>3, <3>1
    <2>5. ASSUME NEW x, seen(x) # {} PROVE image(x) = ImageOf(PlaceImages[LastOf(PlaceImages, x, n)], x)
      BY <2>3, <2>4, <2>5, Zenon DEF ImageOf
    <2> HIDE DEF image
    <2>6. QED
      BY <2>1, <2>2, <2>5 DEF Track
  <1>5. Replayed(LAMBDA c : c.events, InitAt, n) = Track(EventImages, InitAt, n)
    <2> DEFINE seen(x) == {k \in 1..n : \E i \in log[k].events : i[1] = x}
               last(x) == CHOOSE k \in seen(x) : \A m \in seen(x) : m <= k
               image(x) == CHOOSE i \in log[last(x)].events : i[1] = x
    <2>1. Replayed(LAMBDA c : c.events, InitAt, n)
            = [x \in DOMAIN InitAt |-> IF seen(x) = {} THEN InitAt[x] ELSE image(x)[3]]
      BY Zenon DEF Replayed
    <2>2. \A x : seen(x) = Mentions(EventImages, x, n)
      BY <1>3 DEF Mentions
    <2> HIDE DEF seen
    <2>3. \A x : last(x) = LastOf(EventImages, x, n)
      BY <2>2 DEF LastOf
    <2> HIDE DEF last
    <2>4. ASSUME NEW x, seen(x) # {} PROVE EventImages[last(x)] = log[last(x)].events
      <3>1. last(x) \in 1..n
        BY <2>2, <2>3, <2>4, LastMention DEF Mentions
      <3>2. QED
        BY <1>3, <3>1
    <2>5. ASSUME NEW x, seen(x) # {} PROVE image(x) = ImageOf(EventImages[LastOf(EventImages, x, n)], x)
      BY <2>3, <2>4, <2>5, Zenon DEF ImageOf
    <2> HIDE DEF image
    <2>6. QED
      BY <2>1, <2>2, <2>5 DEF Track
  <1>6. QED
    BY <1>4, <1>5

\* Every request writes functions of the places and of the events, and logs
\* what it changed.
LEMMA StepIsImaged ==
  ASSUME Remembered, Next
  PROVE  /\ parent' = [x \in Places |-> parent'[x]]
         /\ at' = [x \in Events |-> at'[x]]
         /\ \E n \in Nat : audited(n)
  <1>1. parent = [x \in Places |-> parent[x]] /\ at = [x \in Events |-> at[x]]
    BY DEF Remembered, Kept
  <1>2. CASE Edit
    <2>1. audited(0)
      BY <1>2 DEF Edit, update_place, merge_place, clear_parent, resolve_place, forget_place
    <2>2. ASSUME NEW p \in Places, NEW q \in Places, update_place(p, q)
          PROVE  parent' = [x \in Places |-> parent'[x]] /\ at' = [x \in Events |-> at'[x]]
      BY <1>1, <2>2 DEF update_place
    <2>3. ASSUME NEW p \in Places, NEW q \in Places, merge_place(p, q)
          PROVE  parent' = [x \in Places |-> parent'[x]] /\ at' = [x \in Events |-> at'[x]]
      BY <2>3 DEF merge_place
    <2>4. ASSUME NEW p \in Places, clear_parent(p)
          PROVE  parent' = [x \in Places |-> parent'[x]] /\ at' = [x \in Events |-> at'[x]]
      BY <1>1, <2>4 DEF clear_parent
    <2>5. ASSUME NEW e \in Events, NEW p \in Places, resolve_place(e, p)
          PROVE  parent' = [x \in Places |-> parent'[x]] /\ at' = [x \in Events |-> at'[x]]
      BY <1>1, <2>5 DEF resolve_place
    <2>6. ASSUME NEW e \in Events, forget_place(e)
          PROVE  parent' = [x \in Places |-> parent'[x]] /\ at' = [x \in Events |-> at'[x]]
      BY <1>1, <2>6 DEF forget_place
    <2>7. QED
      BY <1>2, <2>1, <2>2, <2>3, <2>4, <2>5, <2>6 DEF Edit
  <1>3. ASSUME NEW n \in 1..MaxChanges, revert_change(n)
        PROVE  /\ parent' = [x \in Places |-> parent'[x]]
               /\ at' = [x \in Events |-> at'[x]]
               /\ audited(n) /\ n \in Nat
    BY <1>3 DEF revert_change
  <1>4. QED
    BY <1>2, <1>3 DEF Next

\* The log goes on remembering.
LEMMA StepIsRemembered == ASSUME Remembered, Next PROVE Remembered'
  <1>1. PICK n \in Nat : audited(n)
    BY StepIsImaged
  <1>2. IsLog /\ IsLog'
    BY <1>1, LogGrows DEF Remembered
  <1>3. PICK S : log \in Seq(S)
    BY <1>2 DEF IsLog
  <1> DEFINE T == S \cup {Logged(n)}
  <1>4. log \in Seq(T) /\ Logged(n) \in T
    BY <1>3
  <1>5. log' = Append(log, Logged(n))
    BY <1>1 DEF audited
  <1>6. /\ log' \in Seq(T)
        /\ Len(log') = Len(log) + 1
        /\ \A i \in 1..Len(log) : log'[i] = log[i]
        /\ log'[Len(log) + 1] = Logged(n)
    BY <1>4, <1>5, AppendProperties
  <1>7. DOMAIN log = 1..Len(log) /\ DOMAIN log' = 1..(Len(log) + 1) /\ Len(log) \in Nat
    BY <1>4, <1>6, LenProperties
  <1>8. /\ \A k \in 1..Len(log) : PlaceImages'[k] = PlaceImages[k] /\ EventImages'[k] = EventImages[k]
        /\ PlaceImages'[Len(log) + 1] = Logged(n).places
        /\ EventImages'[Len(log) + 1] = Logged(n).events
    BY <1>6, <1>7 DEF PlaceImages, EventImages
  <1>9. Logged(n).places = Images(Places, parent, parent') /\ Logged(n).events = Images(Events, at, at')
    BY DEF Logged, Images
  <1>10. parent' = [x \in Places |-> parent'[x]] /\ at' = [x \in Events |-> at'[x]]
    BY StepIsImaged
  <1>11. DOMAIN InitParent = Places /\ DOMAIN InitAt = Events
    BY PlacesAssumption
  <1>12. Kept(Places, PlaceImages', InitParent, Len(log) + 1, parent')
    <2> DEFINE I == PlaceImages
               J == PlaceImages'
    <2>1. Kept(Places, I, InitParent, Len(log), parent)
      BY DEF Remembered
    <2>2. (\A k \in 1..Len(log) : J[k] = I[k]) /\ J[Len(log) + 1] = Images(Places, parent, parent')
      BY <1>8, <1>9
    <2> HIDE DEF I, J
    <2>3. QED
      BY <1>7, <1>10, <1>11, <2>1, <2>2, KeptGoesOn DEF I, J
  <1>13. Kept(Events, EventImages', InitAt, Len(log) + 1, at')
    <2> DEFINE I == EventImages
               J == EventImages'
    <2>1. Kept(Events, I, InitAt, Len(log), at)
      BY DEF Remembered
    <2>2. (\A k \in 1..Len(log) : J[k] = I[k]) /\ J[Len(log) + 1] = Images(Events, at, at')
      BY <1>8, <1>9
    <2> HIDE DEF I, J
    <2>3. QED
      BY <1>7, <1>10, <1>11, <2>1, <2>2, KeptGoesOn DEF I, J
  <1>14. QED
    BY <1>2, <1>6, <1>12, <1>13 DEF Remembered

\* The empty log remembers the start.
LEMMA StartIsRemembered == ASSUME Init PROVE Remembered
  <1>1. log = <<>> /\ parent = InitParent /\ at = InitAt
    BY DEF Init
  <1>2. log \in Seq({}) /\ Len(log) = 0
    BY <1>1
  <1>3. ASSUME NEW W, NEW I, NEW v, v = [x \in W |-> v[x]] PROVE Kept(W, I, v, 0, v)
    <2>1. \A x \in W : Mentions(I, x, 0) = {}
      BY DEF Mentions
    <2>2. Track(I, v, 0) = v
      BY <1>3, <2>1 DEF Track
    <2>3. QED
      BY <1>3, <2>2 DEF Kept
  <1>4. InitParent = [x \in Places |-> InitParent[x]] /\ InitAt = [x \in Events |-> InitAt[x]]
    BY PlacesAssumption
  <1>5. QED
    BY <1>1, <1>2, <1>3, <1>4 DEF Remembered, IsLog

\* The revert of the last change, column by column.
LEMMA UndoStep ==
  ASSUME Remembered, NEW n \in DOMAIN log, n = Len(log), revert_change(n)
  PROVE  /\ parent' = Track(PlaceImages, InitParent, n - 1)
         /\ at' = Track(EventImages, InitAt, n - 1)
         /\ n - 1 \in Nat /\ n - 1 <= Len(log)
  <1>1. PICK S : log \in Seq(S)
    BY DEF Remembered, IsLog
  <1>2. n \in Nat /\ n > 0 /\ n - 1 \in Nat /\ n - 1 <= Len(log)
    BY <1>1, LenProperties
  <1>3. PlaceImages[n] = log[n].places /\ EventImages[n] = log[n].events
    BY DEF PlaceImages, EventImages
  <1>4. DOMAIN InitParent = Places /\ DOMAIN InitAt = Events
    BY PlacesAssumption
  <1>5. PICK I : I = PlaceImages
    OBVIOUS
  <1>6. PICK J : J = EventImages
    OBVIOUS
  <1>7. parent' = Track(I, InitParent, n - 1)
    <2>1. Kept(Places, I, InitParent, n, parent)
      BY <1>5 DEF Remembered
    <2>2. parent' = [x \in Places |-> IF \E i \in I[n] : i[1] = x THEN ImageOf(I[n], x)[2] ELSE parent[x]]
      BY <1>3, <1>5 DEF revert_change, ImageOf
    <2>3. /\ parent' = [x \in Places |-> parent'[x]]
          /\ \A x \in Places : parent'[x] = IF \E i \in I[n] : i[1] = x THEN ImageOf(I[n], x)[2] ELSE parent[x]
      BY <2>2
    <2>4. QED
      BY <1>2, <1>4, <2>1, <2>3, KeptGoesBack
  <1>8. at' = Track(J, InitAt, n - 1)
    <2>1. Kept(Events, J, InitAt, n, at)
      BY <1>6 DEF Remembered
    <2>2. at' = [x \in Events |-> IF \E i \in J[n] : i[1] = x THEN ImageOf(J[n], x)[2] ELSE at[x]]
      BY <1>3, <1>6 DEF revert_change, ImageOf
    <2>3. /\ at' = [x \in Events |-> at'[x]]
          /\ \A x \in Events : at'[x] = IF \E i \in J[n] : i[1] = x THEN ImageOf(J[n], x)[2] ELSE at[x]
      BY <2>2
    <2>4. QED
      BY <1>2, <1>4, <2>1, <2>3, KeptGoesBack
  <1>9. QED
    BY <1>2, <1>5, <1>6, <1>7, <1>8

\* Reverting the last change undoes it, whatever it was: a move, a merge that
\* deleted a place, an event's place found or created, or another revert
\* (revert_change, audit.py 243-374).
THEOREM UndoIsExact == Spec => UndoRestores
  <1>1. Remembered /\ [Next]_vars => Remembered'
    <2>1. ASSUME Remembered, UNCHANGED vars PROVE Remembered'
      BY <2>1 DEF vars, Remembered, IsLog, Kept, PlaceImages, EventImages
    <2>2. QED
      BY <2>1, StepIsRemembered
  <1>2. Remembered /\ [Next]_vars
           => [\A n \in DOMAIN log : (n = Len(log) /\ revert_change(n)) =>
                 /\ parent' = Replayed(LAMBDA c : c.places, InitParent, n - 1)
                 /\ at' = Replayed(LAMBDA c : c.events, InitAt, n - 1)]_vars
    BY UndoStep, ReplayIsTrack DEF Remembered
  <1>3. QED
    BY <1>1, <1>2, StartIsRemembered, PTL DEF Spec, UndoRestores
=============================================================================
