--------------------------- MODULE LinkageProofs ---------------------------
(***************************************************************************)
(* Linkage, for any acts, mentions, people, families, requests and jobs: a *)
(* decision stands, what an act says is written once, a slot is never      *)
(* given to another, and a relative is where the act puts them, wherever   *)
(* no two requests had it in hand at once.                                 *)
(*                                                                         *)
(* All the properties rest on one argument: what a request found when it   *)
(* began (a pending candidate, an empty slot, a name nobody has, the       *)
(* family of the person) is still so when it commits, or another request   *)
(* had it in hand, too.                                                    *)
(***************************************************************************)
EXTENDS Linkage, TLAPS

-----------------------------------------------------------------------------
(* What a request can be going to write                                    *)

\* Who is written so, and that there is nobody as far as the lookup can tell.
Bearing(n) == {p \in People : Living(p) /\ NameOfPerson(p) = n}
Clear(n) == Findable(n) => Bearing(n) = {}

\* The people a request is going to create, from mentions of the act a.
Makes(a, made) ==
    /\ \A p \in DOMAIN made :
          /\ p \in Unused
          /\ made[p] \in Mentions /\ ActOf[made[p]] = a
          /\ Clear(NameOf[made[p]])
    /\ \A p, q \in DOMAIN made : p # q /\ Findable(NameOf[made[p]])
           => NameOf[made[p]] # NameOf[made[q]]

\* What a request finds when it begins, w being what it is going to write.
Grounded(w) ==
    /\ w.cand \in Candidates
    /\ w.status \in {"", "confirmed", "rejected"}
    /\ w.status # "" => status[w.cand] = "pending"
    /\ w.event => w.status # ""
    /\ \A f \in DOMAIN w.husband : husband[f] = None
    /\ \A f \in DOMAIN w.wife : wife[f] = None
    /\ \A p \in DOMAIN w.origin :
          /\ p \in Unused
          /\ w.origin[p] \in Mentions
          /\ NameOf[w.origin[p]] \in LookedUp(w)
          /\ Clear(NameOf[w.origin[p]])
    /\ \A p, q \in DOMAIN w.origin : p # q /\ Findable(NameOf[w.origin[p]])
           => NameOf[w.origin[p]] # NameOf[w.origin[q]]

\* Looking a person up, and creating one if there is none, keeps the names apart.
LEMMA MakesOneMore ==
    ASSUME NEW a, NEW made, Makes(a, made), NEW m \in Mentions, ActOf[m] = a,
           NEW p \in person_for(m, made)
    PROVE  Makes(a, created(p, m, made))
<1> DEFINE same == Named(NameOf[m]) \cup {q \in DOMAIN made : <<NameOf[m], NameOf[made[q]]>> \in Found}
<1>1. CASE same # {}
  <2>1. p \in same
    BY <1>1 DEF person_for
  <2>2. Living(p) \/ p \in DOMAIN made
    BY <2>1 DEF Named
  <2> QED BY <2>2 DEF created
<1>2. CASE same = {} /\ ~(Living(p) \/ p \in DOMAIN made)
  <2>1. p \in Unused /\ p \notin DOMAIN made
    BY <1>2 DEF person_for, Least
  <2>2. created(p, m, made) = Also(made, [x \in {p} |-> m])
    BY <1>2 DEF created
  <2>3. /\ DOMAIN created(p, m, made) = DOMAIN made \cup {p}
        /\ created(p, m, made)[p] = m
        /\ \A q \in DOMAIN made : created(p, m, made)[q] = made[q]
    BY <2>1, <2>2 DEF Also
  <2>4. /\ Clear(NameOf[m])
        /\ \A q \in DOMAIN made : Findable(NameOf[m]) => NameOf[made[q]] # NameOf[m]
    BY <1>2 DEF Named, Bearing, Clear, Findable
  <2> DEFINE new == created(p, m, made)
  <2>5. /\ DOMAIN new = DOMAIN made \cup {p} /\ new[p] = m
        /\ \A q \in DOMAIN made : new[q] = made[q]
    BY <2>3
  <2>6. /\ \A q \in DOMAIN made : /\ q \in Unused
                                  /\ made[q] \in Mentions /\ ActOf[made[q]] = a
                                  /\ Clear(NameOf[made[q]])
        /\ \A q, x \in DOMAIN made : q # x /\ Findable(NameOf[made[q]])
               => NameOf[made[q]] # NameOf[made[x]]
    BY DEF Makes
  <2> HIDE DEF same, new
  <2>7. \A q \in DOMAIN new : /\ q \in Unused
                              /\ new[q] \in Mentions /\ ActOf[new[q]] = a
                              /\ Clear(NameOf[new[q]])
    BY <2>1, <2>4, <2>5, <2>6
  <2>8. \A q, x \in DOMAIN new : q # x /\ Findable(NameOf[new[q]])
            => NameOf[new[q]] # NameOf[new[x]]
    BY <2>4, <2>5, <2>6
  <2>9. Makes(a, new)
    BY <2>7, <2>8 DEF Makes
  <2> QED BY <2>9 DEF new
<1>3. CASE Living(p) \/ p \in DOMAIN made
  BY <1>3 DEF created
<1> QED BY <1>1, <1>2, <1>3

\* A request that has created nobody yet.
LEMMA MakesNobody == ASSUME NEW a PROVE Makes(a, <<>>)
<1>1. DOMAIN <<>> = {}
  OBVIOUS
<1> QED BY <1>1 DEF Makes

\* Parents are looked up, or created, for the empty slots of the family only.
LEMMA MakesParents ==
    ASSUME NEW slot, NEW a, NEW role, NEW made, Makes(a, made),
           NEW h \in materialized(slot, a, role, made)
    PROVE  Makes(a, h[2]) /\ (slot # None => h[1] = None)
<1>1. CASE h = <<None, made>>
  BY <1>1
<1>2. CASE h # <<None, made>>
  <2>1. /\ slot = None
        /\ \E m \in ParentsIn(a, role) : \E p \in person_for(m, made) :
              h = <<p, created(p, m, made)>>
    BY <1>2 DEF materialized
  <2>2. PICK m \in ParentsIn(a, role) :
            \E p \in person_for(m, made) : h = <<p, created(p, m, made)>>
    BY <2>1
  <2>3. PICK p \in person_for(m, made) : h = <<p, created(p, m, made)>>
    BY <2>2
  <2>4. m \in Mentions /\ ActOf[m] = a
    BY DEF ParentsIn, InAct
  <2>5. Makes(a, created(p, m, made))
    BY <2>4, MakesOneMore
  <2> QED BY <2>1, <2>3, <2>5
<1> QED BY <1>1, <1>2

-----------------------------------------------------------------------------
(* Every request begins with such a write                                  *)

\* An entry that says nothing about the tree.
LEMMA NothingWritten ==
    /\ DOMAIN Nothing.origin = {} /\ DOMAIN Nothing.husband = {} /\ DOMAIN Nothing.wife = {}
    /\ Nothing.status = "" /\ Nothing.event = FALSE
<1>1. DOMAIN <<>> = {}
  OBVIOUS
<1> QED BY <1>1 DEF Nothing

LEMMA ConfirmGrounded ==
    ASSUME NEW r \in Requests, confirm_candidate(r) PROVE \E w : open(r, w) /\ Grounded(w)
<1>1. PICK c \in Pending \ sibling :
        open(r, [Nothing EXCEPT
            !.kind = "confirm", !.cand = c, !.who = c[1], !.status = "confirmed",
            !.event = HasEvent(ActOf[c[2]]),
            !.resolved = Sets(resolved, c[2], c[1]), !.matched = Sets(matched, c[2], "confirmed")])
  BY DEF confirm_candidate
<1> DEFINE w == [Nothing EXCEPT
            !.kind = "confirm", !.cand = c, !.who = c[1], !.status = "confirmed",
            !.event = HasEvent(ActOf[c[2]]),
            !.resolved = Sets(resolved, c[2], c[1]), !.matched = Sets(matched, c[2], "confirmed")]
<1>2. /\ w.cand = c /\ w.status = "confirmed"
      /\ DOMAIN w.origin = {} /\ DOMAIN w.husband = {} /\ DOMAIN w.wife = {}
  BY NothingWritten DEF Nothing
<1>3. c \in Candidates /\ status[c] = "pending"
  BY DEF Pending
<1>4. open(r, w)
  BY <1>1
<1> HIDE DEF w
<1>5. Grounded(w)
  BY <1>2, <1>3 DEF Grounded
<1> QED BY <1>4, <1>5

LEMMA RejectGrounded ==
    ASSUME NEW r \in Requests, reject_candidate(r) PROVE \E w : open(r, w) /\ Grounded(w)
<1>1. PICK c \in Pending :
        open(r, [Nothing EXCEPT
            !.kind = "reject", !.cand = c, !.who = c[1], !.status = "rejected",
            !.matched = IF matched[c[2]] = "confirmed" THEN <<>> ELSE Sets(matched, c[2], "rejected")])
  BY DEF reject_candidate
<1> DEFINE w == [Nothing EXCEPT
            !.kind = "reject", !.cand = c, !.who = c[1], !.status = "rejected",
            !.matched = IF matched[c[2]] = "confirmed" THEN <<>> ELSE Sets(matched, c[2], "rejected")]
<1>2. /\ w.cand = c /\ w.status = "rejected" /\ w.event = FALSE
      /\ DOMAIN w.origin = {} /\ DOMAIN w.husband = {} /\ DOMAIN w.wife = {}
  BY NothingWritten DEF Nothing
<1>3. c \in Candidates /\ status[c] = "pending"
  BY DEF Pending
<1>4. open(r, w)
  BY <1>1
<1> HIDE DEF w
<1>5. Grounded(w)
  BY <1>2, <1>3 DEF Grounded
<1> QED BY <1>4, <1>5

\* What a confirmed sibling writes: the sibling s, the family f, and, for the slots that
\* are empty, the father h and the mother x.
SiblingWrite(c, s, f, h, x) ==
    LET m == c[2]  a == ActOf[m] IN
    [Nothing EXCEPT
        !.kind = "sibling", !.cand = c, !.mention = m, !.who = s, !.family = f,
        !.status = "confirmed", !.event = HasEvent(a), !.origin = x[2],
        !.husband = filled(f, husband, h[1]), !.wife = filled(f, wife, x[1]),
        !.child = Childhood(f, {c[1], s}),
        !.resolved = Also(Sets(resolved, m, s), Also(parents_resolved(a, "father", h[1]),
                                                     parents_resolved(a, "mother", x[1]))),
        !.matched = Sets(matched, m, "confirmed")]

LEMMA SiblingGrounded ==
    ASSUME NEW r \in Requests, confirm_sibling(r) PROVE \E w : open(r, w) /\ Grounded(w)
<1> USE ActsAssumption DEF ActsAssumption
<1>1. PICK c \in Pending \cap sibling :
        \E s \in person_for(c[2], <<>>), f \in parent_family(c[1]) :
        \E h \in materialized(husband[f], ActOf[c[2]], "father", created(s, c[2], <<>>)) :
        \E x \in materialized(wife[f], ActOf[c[2]], "mother", h[2]) :
            open(r, SiblingWrite(c, s, f, h, x))
  BY DEF confirm_sibling, SiblingWrite
<1> DEFINE m == c[2]
           a == ActOf[m]
<1>2. c \in Candidates /\ m \in Mentions /\ a \in Acts /\ status[c] = "pending"
  BY DEF Pending, Candidates
<1>3. PICK s \in person_for(m, <<>>), f \in parent_family(c[1]) :
        \E h \in materialized(husband[f], a, "father", created(s, m, <<>>)) :
        \E x \in materialized(wife[f], a, "mother", h[2]) :
            open(r, SiblingWrite(c, s, f, h, x))
  BY <1>1
<1>4. PICK h \in materialized(husband[f], a, "father", created(s, m, <<>>)) :
        \E x \in materialized(wife[f], a, "mother", h[2]) : open(r, SiblingWrite(c, s, f, h, x))
  BY <1>3
<1>5. PICK x \in materialized(wife[f], a, "mother", h[2]) : open(r, SiblingWrite(c, s, f, h, x))
  BY <1>4
<1> DEFINE w == SiblingWrite(c, s, f, h, x)
<1>6. open(r, w)
  BY <1>5
<1>7. /\ w.kind = "sibling" /\ w.cand = c /\ w.status = "confirmed" /\ w.origin = x[2]
      /\ w.husband = filled(f, husband, h[1]) /\ w.wife = filled(f, wife, x[1])
  BY DEF Nothing, SiblingWrite
<1> HIDE DEF w, m
<1>8. Makes(a, created(s, m, <<>>))
  BY <1>2, MakesNobody, MakesOneMore
<1>9. Makes(a, h[2]) /\ (husband[f] # None => h[1] = None)
  BY <1>8, MakesParents
<1>10. Makes(a, x[2]) /\ (wife[f] # None => x[1] = None)
  BY <1>9, MakesParents
<1>11. \A g \in DOMAIN w.husband : husband[g] = None
  BY <1>7, <1>9 DEF filled
<1>12. \A g \in DOMAIN w.wife : wife[g] = None
  BY <1>7, <1>10 DEF filled
<1>13. LookedUp(w) = {NameOf[n] : n \in InAct(a)}
  BY <1>7 DEF LookedUp, m
<1> HIDE DEF a
<1>14. \A p \in DOMAIN w.origin :
          /\ p \in Unused
          /\ w.origin[p] \in Mentions
          /\ NameOf[w.origin[p]] \in LookedUp(w)
          /\ Clear(NameOf[w.origin[p]])
  <2> SUFFICES ASSUME NEW p \in DOMAIN x[2]
               PROVE  /\ p \in Unused
                      /\ x[2][p] \in Mentions
                      /\ NameOf[x[2][p]] \in LookedUp(w)
                      /\ Clear(NameOf[x[2][p]])
    BY <1>7
  <2>1. /\ p \in Unused
        /\ x[2][p] \in Mentions /\ ActOf[x[2][p]] = a
        /\ Clear(NameOf[x[2][p]])
    BY <1>10 DEF Makes
  <2>2. x[2][p] \in InAct(a)
    BY <2>1 DEF InAct
  <2> QED BY <2>1, <2>2, <1>13
<1>15. \A p, q \in DOMAIN w.origin : p # q /\ Findable(NameOf[w.origin[p]])
           => NameOf[w.origin[p]] # NameOf[w.origin[q]]
  BY <1>7, <1>10 DEF Makes
<1>16. Grounded(w)
  BY <1>2, <1>7, <1>11, <1>12, <1>14, <1>15 DEF Grounded
<1> QED BY <1>6, <1>16

\* What an accepted relative p writes; l is the family, its slots and its new children.
AcceptWrite(c, m, p, l) ==
    [Nothing EXCEPT
        !.kind = "accept", !.cand = c, !.mention = m, !.who = p, !.family = l[1],
        !.origin = created(p, m, <<>>),
        !.husband = SlotSet(l[1], husband, l[2][1]), !.wife = SlotSet(l[1], wife, l[2][2]),
        !.child = l[3],
        !.resolved = Sets(resolved, m, p), !.matched = Sets(matched, m, "confirmed")]

\* No relation takes a slot from the person in it.
LEMMA LinkedKeepsSlots ==
    ASSUME NEW rel, NEW p, NEW sex, NEW focal, NEW l \in linked(rel, p, sex, focal), l[1] # None
    PROVE  /\ husband[l[1]] \in {None, l[2][1]}
           /\ wife[l[1]] \in {None, l[2][2]}
<1> USE DEF OrElse
<1>1. CASE rel = "parent"
  <2>1. PICK f \in parent_family(focal) : l = <<f, parent_slots(f, p, sex), Childhood(f, {focal})>>
    BY <1>1 DEF linked
  <2> QED BY <2>1 DEF parent_slots
<1>2. CASE rel = "spouse"
  <2>1. PICK f \in spouse_family(focal) : l = <<f, spouse_slots(f, p, sex, focal), {}>>
    BY <1>2 DEF linked
  <2> QED BY <2>1 DEF spouse_slots
<1>3. CASE rel = "child"
  <2>1. PICK f \in spouse_family(focal) : l = <<f, focal_slots(f, focal), Childhood(f, {p})>>
    BY <1>3 DEF linked
  <2> QED BY <2>1 DEF focal_slots
<1>4. CASE rel = "sibling"
  <2>1. PICK f \in parent_family(focal) :
            l = <<f, <<husband[f], wife[f]>>, Childhood(f, {focal, p})>>
    BY <1>4 DEF linked
  <2> QED BY <2>1
<1>5. CASE rel \notin {"parent", "spouse", "child", "sibling"}
  <2>1. l = <<None, <<None, None>>, {}>>
    BY <1>5 DEF linked
  <2> QED BY <2>1
<1> QED BY <1>1, <1>2, <1>3, <1>4, <1>5

LEMMA AcceptGrounded ==
    ASSUME NEW r \in Requests, accept_proposal(r) PROVE \E w : open(r, w) /\ Grounded(w)
<1>1. PICK c \in {x \in Candidates : status[x] = "confirmed"}, m \in Mentions :
        /\ ActOf[m] = ActOf[c[2]]
        /\ \E p \in person_for(m, <<>>) :
           \E l \in linked(relation(Role[m]), p, implied_sex(m), c[1]) :
              open(r, AcceptWrite(c, m, p, l))
  BY DEF accept_proposal, AcceptWrite
<1>2. PICK p \in person_for(m, <<>>) :
        \E l \in linked(relation(Role[m]), p, implied_sex(m), c[1]) :
            open(r, AcceptWrite(c, m, p, l))
  BY <1>1
<1>3. PICK l \in linked(relation(Role[m]), p, implied_sex(m), c[1]) :
            open(r, AcceptWrite(c, m, p, l))
  BY <1>2
<1> DEFINE w == AcceptWrite(c, m, p, l)
<1>4. open(r, w)
  BY <1>3
<1>5. /\ w.kind = "accept" /\ w.cand = c /\ w.mention = m /\ w.status = "" /\ w.event = FALSE
      /\ w.origin = created(p, m, <<>>)
      /\ w.husband = SlotSet(l[1], husband, l[2][1]) /\ w.wife = SlotSet(l[1], wife, l[2][2])
  BY NothingWritten DEF Nothing, AcceptWrite
<1> HIDE DEF w
<1>6. DOMAIN <<>> = {}
  OBVIOUS
<1>7. l[1] # None => /\ husband[l[1]] \in {None, l[2][1]}
                     /\ wife[l[1]] \in {None, l[2][2]}
  BY LinkedKeepsSlots
<1>8. \A g \in DOMAIN w.husband : husband[g] = None
  BY <1>5, <1>6, <1>7 DEF SlotSet, Sets
<1>9. \A g \in DOMAIN w.wife : wife[g] = None
  BY <1>5, <1>6, <1>7 DEF SlotSet, Sets
<1>10. Makes(ActOf[m], w.origin)
  BY <1>5, MakesNobody, MakesOneMore
<1>11. \A q \in DOMAIN w.origin : w.origin[q] = m
  BY <1>5, <1>6 DEF created, Also
<1>12. \A q \in DOMAIN w.origin :
          /\ q \in Unused
          /\ w.origin[q] \in Mentions
          /\ NameOf[w.origin[q]] \in LookedUp(w)
          /\ Clear(NameOf[w.origin[q]])
  BY <1>5, <1>10, <1>11 DEF Makes, LookedUp
<1>13. \A q, x \in DOMAIN w.origin : q # x /\ Findable(NameOf[w.origin[q]])
           => NameOf[w.origin[q]] # NameOf[w.origin[x]]
  BY <1>10 DEF Makes
<1>14. Grounded(w)
  BY <1>5, <1>8, <1>9, <1>12, <1>13 DEF Grounded
<1> QED BY <1>4, <1>14

Opens(r) == confirm_candidate(r) \/ confirm_sibling(r) \/ reject_candidate(r) \/ accept_proposal(r)

LEMMA OpensGrounded ==
    ASSUME NEW r \in Requests, Opens(r) PROVE \E w : open(r, w) /\ Grounded(w)
BY ConfirmGrounded, SiblingGrounded, RejectGrounded, AcceptGrounded DEF Opens

-----------------------------------------------------------------------------
(* The invariant                                                           *)

Decided == {"confirmed", "rejected"}

RowInv ==
    /\ DOMAIN origin = People
    /\ \A p \in People : origin[p] \in {"free", "tree", "gone"} \cup Mentions
    /\ DOMAIN husband = Families /\ DOMAIN wife = Families
    /\ DOMAIN status = Candidates
    /\ events \in [Candidates -> Nat]
    /\ DOMAIN req = Requests /\ DOMAIN job = Jobs
    /\ \A j \in Jobs : job[j] # None => \A c \in job[j].found : c[1] = job[j].person
    /\ \A c \in Candidates : status[c] # "none" => Living(c[1])

\* What a request found is so still, or another had it in hand, too.
HoldsStill(w) ==
    /\ w.cand \in Candidates
    /\ w.status \in {"", "confirmed", "rejected"}
    /\ w.event => w.status # ""
    /\ \/ Contested(w.cand)
       \/ w.status # "" => /\ status[w.cand] \notin Decided
                           /\ w.event => events[w.cand] = 0
    /\ \A f \in Families \cap DOMAIN w.husband : husband[f] = None \/ <<"family", f>> \in crossed
    /\ \A f \in Families \cap DOMAIN w.wife : wife[f] = None \/ <<"family", f>> \in crossed
    /\ \A p \in DOMAIN w.origin :
          /\ p \in People /\ origin[p] = "free"
          /\ w.origin[p] \in Mentions
          /\ NameOf[w.origin[p]] \in LookedUp(w)
          /\ \/ Clear(NameOf[w.origin[p]])
             \/ <<"name", NameOf[w.origin[p]]>> \in crossed
    /\ \A p, q \in DOMAIN w.origin : p # q /\ Findable(NameOf[w.origin[p]])
           => NameOf[w.origin[p]] # NameOf[w.origin[q]]

StillInv == \A r \in Requests : \A w \in {req[r]} : w # None => HoldsStill(w)

\* What two requests have in hand is crossed, and they create different people.
CrossInv ==
    \A r, s \in Requests : (r # s /\ req[r] # None /\ req[s] # None) =>
        /\ \A x \in InHand(req[r]) : x \in InHand(req[s]) => x \in crossed
        /\ \A p \in DOMAIN req[r].origin : p \notin DOMAIN req[s].origin

\* An event belongs to a decided candidate, or to one of somebody who was deleted.
EventInv ==
    \A c \in Candidates :
        \/ Contested(c)
        \/ events[c] = 0
        \/ events[c] = 1 /\ (status[c] \in Decided \/ origin[c[1]] = "gone")

LinkInv == RowInv /\ StillInv /\ CrossInv /\ EventInv /\ PersonOnce

USE DEF tree, marks, vars

LEMMA HandHolds ==
    ASSUME NEW w
    PROVE  /\ <<"act", ActOf[w.cand[2]]>> \in InHand(w)
           /\ \A f \in DOMAIN w.husband \cup DOMAIN w.wife : <<"family", f>> \in InHand(w)
           /\ \A n \in LookedUp(w) : <<"name", n>> \in InHand(w)
BY DEF InHand

\* What was found stays so if a step disturbs none of it, or disturbs what is crossed.
LEMMA StillStays ==
    ASSUME NEW w, HoldsStill(w), crossed \subseteq crossed',
           \/ Contested(w.cand)'
           \/ w.status # "" => /\ status'[w.cand] \notin Decided
                               /\ w.event => events'[w.cand] = events[w.cand],
           \A f \in Families \cap DOMAIN w.husband : husband[f] = None =>
                husband'[f] = None \/ <<"family", f>> \in crossed',
           \A f \in Families \cap DOMAIN w.wife : wife[f] = None =>
                wife'[f] = None \/ <<"family", f>> \in crossed',
           \A p \in DOMAIN w.origin : origin[p] = "free" => origin'[p] = "free",
           \A n \in LookedUp(w) : Bearing(n) = {} => Bearing(n)' = {} \/ <<"name", n>> \in crossed'
    PROVE  HoldsStill(w)'
<1>1. LookedUp(w)' = LookedUp(w) /\ (Contested(w.cand) => Contested(w.cand)')
  BY DEF LookedUp, Contested
<1>2. /\ w.cand \in Candidates
      /\ w.status \in {"", "confirmed", "rejected"}
      /\ w.event => w.status # ""
  BY DEF HoldsStill
<1>3. \/ Contested(w.cand)'
      \/ w.status # "" => /\ status'[w.cand] \notin Decided
                          /\ w.event => events'[w.cand] = 0
  BY <1>1 DEF HoldsStill
<1>4. \A f \in Families \cap DOMAIN w.husband : husband'[f] = None \/ <<"family", f>> \in crossed'
  BY DEF HoldsStill
<1>5. \A f \in Families \cap DOMAIN w.wife : wife'[f] = None \/ <<"family", f>> \in crossed'
  BY DEF HoldsStill
<1>6. \A p \in DOMAIN w.origin :
          /\ p \in People /\ origin'[p] = "free"
          /\ w.origin[p] \in Mentions
          /\ NameOf[w.origin[p]] \in LookedUp(w)
          /\ \/ Clear(NameOf[w.origin[p]])'
             \/ <<"name", NameOf[w.origin[p]]>> \in crossed'
  <2> SUFFICES ASSUME NEW p \in DOMAIN w.origin
               PROVE  /\ p \in People /\ origin'[p] = "free"
                      /\ w.origin[p] \in Mentions
                      /\ NameOf[w.origin[p]] \in LookedUp(w)
                      /\ \/ Clear(NameOf[w.origin[p]])'
                         \/ <<"name", NameOf[w.origin[p]]>> \in crossed'
    OBVIOUS
  <2>1. /\ p \in People /\ origin[p] = "free"
        /\ w.origin[p] \in Mentions
        /\ NameOf[w.origin[p]] \in LookedUp(w)
        /\ \/ Clear(NameOf[w.origin[p]])
           \/ <<"name", NameOf[w.origin[p]]>> \in crossed
    BY DEF HoldsStill
  <2>2. Clear(NameOf[w.origin[p]]) =>
            Clear(NameOf[w.origin[p]])' \/ <<"name", NameOf[w.origin[p]]>> \in crossed'
    BY <2>1 DEF Clear, Findable
  <2> QED BY <2>1, <2>2
<1>7. \A p, q \in DOMAIN w.origin : p # q /\ Findable(NameOf[w.origin[p]])
          => NameOf[w.origin[p]] # NameOf[w.origin[q]]
  BY DEF HoldsStill
<1> QED BY <1>1, <1>2, <1>3, <1>4, <1>5, <1>6, <1>7 DEF HoldsStill

LEMMA InvInit == Init => LinkInv
<1> SUFFICES ASSUME Init PROVE LinkInv
  OBVIOUS
<1> USE ActsAssumption DEF ActsAssumption
<1>1. PICK st \in Starts :
        /\ origin = [p \in People |-> IF p \in st.living THEN "tree" ELSE "free"]
        /\ husband = st.husband /\ wife = st.wife
  BY DEF Init
<1>2. DOMAIN husband = Families /\ DOMAIN wife = Families
  BY <1>1, StartsAssumption DEF StartsAssumption
<1>3. RowInv
  BY <1>1, <1>2 DEF Init, RowInv
<1>4. StillInv /\ CrossInv
  BY DEF Init, StillInv, CrossInv
<1>5. EventInv
  BY DEF Init, EventInv
<1>6. PersonOnce
  BY <1>1 DEF PersonOnce
<1> QED BY <1>3, <1>4, <1>5, <1>6 DEF LinkInv

-----------------------------------------------------------------------------
(* A request begins                                                        *)

LEMMA OpenKeeps ==
    ASSUME LinkInv, NEW r \in Requests, NEW w, open(r, w), Grounded(w)
    PROVE  LinkInv'
<1> USE ActsAssumption DEF ActsAssumption
<1>1. /\ origin' = origin /\ husband' = husband /\ wife' = wife /\ status' = status
      /\ events' = events /\ job' = job
      /\ req[r] = None /\ req' = [req EXCEPT ![r] = w]
      /\ crossed' = crossed \cup (InHand(w) \cap BusyWith)
  BY DEF open
<1>2. DOMAIN req = Requests
  BY DEF LinkInv, RowInv
<1>3. req'[r] = w /\ \A s \in Requests : s # r => req'[s] = req[s]
  BY <1>1, <1>2
<1>4. \A n : Bearing(n)' = Bearing(n)
  BY <1>1 DEF Bearing, Living, NameOfPerson
<1>5. RowInv'
  BY <1>1, <1>2 DEF LinkInv, RowInv, Living
<1>6. \A c \in Candidates : Contested(c) => Contested(c)'
  BY <1>1 DEF Contested
<1>7. StillInv'
  <2> SUFFICES ASSUME NEW s \in Requests, NEW v, v = req'[s], v # None PROVE HoldsStill(v)'
    BY DEF StillInv
  <2>1. CASE s = r
    <3>1. /\ w.cand \in Candidates
          /\ w.status \in {"", "confirmed", "rejected"}
          /\ w.event => w.status # ""
      BY DEF Grounded
    <3>2. w.status # "" => status[w.cand] = "pending"
      BY DEF Grounded
    <3>3. status[w.cand] = "pending" => Living(w.cand[1])
      BY <3>1 DEF LinkInv, RowInv
    <3>4. \/ Contested(w.cand)
          \/ w.status # "" => /\ status[w.cand] \notin Decided
                              /\ w.event => events[w.cand] = 0
      BY <3>1, <3>2, <3>3 DEF LinkInv, EventInv, Decided, Living
    <3>5. /\ \A f \in Families \cap DOMAIN w.husband : husband[f] = None
          /\ \A f \in Families \cap DOMAIN w.wife : wife[f] = None
      BY DEF Grounded
    <3>6. \A p \in DOMAIN w.origin :
            /\ p \in People /\ origin[p] = "free"
            /\ w.origin[p] \in Mentions
            /\ NameOf[w.origin[p]] \in LookedUp(w)
            /\ Clear(NameOf[w.origin[p]])
      BY DEF Grounded, Unused
    <3>7. \A p, q \in DOMAIN w.origin : p # q /\ Findable(NameOf[w.origin[p]])
              => NameOf[w.origin[p]] # NameOf[w.origin[q]]
      BY DEF Grounded
    <3>8. \A n : Clear(n)' <=> Clear(n)
      BY <1>4 DEF Clear, Findable
    <3>9. HoldsStill(w)'
      BY <1>1, <1>6, <3>1, <3>4, <3>5, <3>6, <3>7, <3>8 DEF HoldsStill, LookedUp
    <3> QED BY <1>3, <2>1, <3>9
  <2>2. CASE s # r
    <3>1. HoldsStill(v)
      BY <1>3, <2>2 DEF LinkInv, StillInv
    <3>2. \/ Contested(v.cand)'
          \/ v.status # "" => /\ status'[v.cand] \notin Decided
                              /\ v.event => events'[v.cand] = events[v.cand]
      BY <1>1, <1>6, <3>1 DEF HoldsStill
    <3> QED BY <1>1, <1>4, <3>1, <3>2, StillStays
  <2> QED BY <2>1, <2>2
<1>8. CrossInv'
  <2>1. \A s \in Requests : req[s] # None =>
            /\ \A x \in InHand(req[s]) : x \in BusyWith
            /\ \A p \in Unused : p \notin DOMAIN req[s].origin
    BY DEF BusyWith, Open, Unused
  <2>2. \A p \in DOMAIN w.origin : p \in Unused
    BY DEF Grounded
  <2> SUFFICES ASSUME NEW s \in Requests, NEW t \in Requests, s # t,
                      req'[s] # None, req'[t] # None
               PROVE  /\ \A x \in InHand(req'[s]) : x \in InHand(req'[t]) => x \in crossed'
                      /\ \A p \in DOMAIN req'[s].origin : p \notin DOMAIN req'[t].origin
    BY DEF CrossInv, InHand, LookedUp
  <2>3. CASE s = r
    BY <1>1, <1>3, <2>1, <2>2, <2>3
  <2>4. CASE t = r
    BY <1>1, <1>3, <2>1, <2>2, <2>4
  <2>5. CASE s # r /\ t # r
    BY <1>1, <1>3, <2>5 DEF LinkInv, CrossInv
  <2> QED BY <2>3, <2>4, <2>5
<1>9. EventInv'
  BY <1>1, <1>6 DEF LinkInv, EventInv
<1>10. PersonOnce'
  BY <1>1 DEF LinkInv, PersonOnce, Living, NameOfPerson
<1> QED BY <1>5, <1>7, <1>8, <1>9, <1>10 DEF LinkInv

-----------------------------------------------------------------------------
(* A request commits                                                       *)

\* The effect of a commit of w on the columns the invariant is about.
Commits(r, w) ==
    /\ w = req[r] /\ w # None
    /\ Writable(w)
    /\ origin' = Over(w.origin, origin)
    /\ husband' = Over(w.husband, husband) /\ wife' = Over(w.wife, wife)
    /\ status' = IF w.status = "" THEN status ELSE [status EXCEPT ![w.cand] = w.status]
    /\ events' = IF w.event THEN [events EXCEPT ![w.cand] = @ + 1] ELSE events
    /\ req' = [req EXCEPT ![r] = None]
    /\ job' = job /\ crossed' = crossed

\* Whom a commit creates was free, and is a mention from then on; nobody else changes.
LEMMA CommitCreates ==
    ASSUME LinkInv, NEW r \in Requests, NEW w, Commits(r, w)
    PROVE  /\ HoldsStill(w)
           /\ \A p \in DOMAIN w.origin :
                /\ p \in People /\ origin[p] = "free" /\ w.origin[p] \in Mentions
                /\ origin'[p] = w.origin[p]
                /\ NameOfPerson(p)' = NameOf[w.origin[p]]
                /\ Living(p)' /\ ~Living(p)
           /\ \A p \in People : p \notin DOMAIN w.origin =>
                /\ origin'[p] = origin[p]
                /\ Living(p)' = Living(p) /\ NameOfPerson(p)' = NameOfPerson(p)
           /\ \A n : n \notin LookedUp(w) => Bearing(n)' = Bearing(n)
<1> USE ActsAssumption DEF ActsAssumption
<1>1. HoldsStill(w)
  BY DEF LinkInv, StillInv, Commits
<1>2. \A p \in DOMAIN w.origin :
          /\ p \in People /\ origin[p] = "free"
          /\ w.origin[p] \in Mentions /\ NameOf[w.origin[p]] \in LookedUp(w)
  BY <1>1 DEF HoldsStill
<1>3. \A p \in People : origin'[p] = IF p \in DOMAIN w.origin THEN w.origin[p] ELSE origin[p]
  BY DEF LinkInv, RowInv, Commits, Over
<1>4. \A p \in DOMAIN w.origin :
          /\ origin'[p] = w.origin[p]
          /\ NameOfPerson(p)' = NameOf[w.origin[p]]
          /\ Living(p)' /\ ~Living(p)
  BY <1>2, <1>3 DEF NameOfPerson, Living
<1>5. \A p \in People : p \notin DOMAIN w.origin =>
          /\ origin'[p] = origin[p]
          /\ Living(p)' = Living(p) /\ NameOfPerson(p)' = NameOfPerson(p)
  BY <1>3 DEF NameOfPerson, Living
<1>6. ASSUME NEW n, n \notin LookedUp(w) PROVE Bearing(n)' = Bearing(n)
  BY <1>2, <1>4, <1>5, <1>6 DEF Bearing
<1> QED BY <1>1, <1>2, <1>4, <1>5, <1>6

LEMMA CommitKeeps ==
    ASSUME LinkInv, NEW r \in Requests, NEW w, Commits(r, w)
    PROVE  LinkInv'
<1> USE ActsAssumption DEF ActsAssumption
<1>1. HoldsStill(w)
  BY CommitCreates
<1>2. /\ \A s \in Requests : s # r => req'[s] = req[s]
      /\ req'[r] = None /\ DOMAIN req' = Requests
  BY DEF LinkInv, RowInv, Commits
<1>3. /\ w.cand \in Candidates /\ status[w.cand] # "none" /\ Living(w.cand[1])
      /\ w.status \in {"", "confirmed", "rejected"}
      /\ w.event => w.status # ""
  BY <1>1 DEF LinkInv, RowInv, Commits, Writable, HoldsStill
<1>4. \A c \in Candidates :
        /\ c # w.cand => status'[c] = status[c] /\ events'[c] = events[c]
        /\ w.status = "" => status'[c] = status[c] /\ events'[c] = events[c]
        /\ ~w.event => events'[c] = events[c]
  BY <1>3 DEF LinkInv, RowInv, Commits
<1>5. /\ w.status # "" => status'[w.cand] = w.status
      /\ w.event => events'[w.cand] = events[w.cand] + 1
  BY <1>3 DEF LinkInv, RowInv, Commits
<1>6. \A p \in People : Living(p) => Living(p)'
  BY CommitCreates
<1>7. RowInv'
  <2>1. /\ DOMAIN origin' = People /\ DOMAIN husband' = Families /\ DOMAIN wife' = Families
        /\ DOMAIN status' = Candidates
    BY DEF LinkInv, RowInv, Commits, Over
  <2>4. events' \in [Candidates -> Nat]
    <3>1. events \in [Candidates -> Nat]
      BY DEF LinkInv, RowInv
    <3>2. CASE w.event
      <4>1. events' = [events EXCEPT ![w.cand] = events[w.cand] + 1]
        BY <3>2 DEF Commits
      <4>2. events[w.cand] \in Nat
        BY <1>3, <3>1
      <4>3. events[w.cand] + 1 \in Nat
        BY <4>2, SMT
      <4> QED BY <3>1, <4>1, <4>3
    <3>3. CASE ~w.event
      BY <3>1, <3>3 DEF Commits
    <3> QED BY <3>2, <3>3
  <2>2. \A p \in People : origin'[p] \in {"free", "tree", "gone"} \cup Mentions
    BY CommitCreates DEF LinkInv, RowInv
  <2>3. \A c \in Candidates : status'[c] # "none" => Living(c[1])'
    <3> SUFFICES ASSUME NEW c \in Candidates, status'[c] # "none" PROVE Living(c[1])'
      OBVIOUS
    <3>1. c[1] \in People
      BY DEF Candidates
    <3>2. Living(c[1])
      BY <1>3, <1>4 DEF LinkInv, RowInv
    <3> QED BY <1>6, <3>1, <3>2
  <2> QED BY <1>2, <2>1, <2>2, <2>3, <2>4 DEF LinkInv, RowInv, Commits
<1>8. StillInv'
  <2> SUFFICES ASSUME NEW s \in Requests, NEW v, v = req'[s], v # None PROVE HoldsStill(v)'
    BY DEF StillInv
  <2>1. s # r /\ v = req[s]
    BY <1>2
  <2>2. HoldsStill(v)
    BY <2>1 DEF LinkInv, StillInv
  <2>3. /\ \A x \in InHand(w) : x \in InHand(v) => x \in crossed
        /\ \A p \in DOMAIN w.origin : p \notin DOMAIN v.origin
    BY <2>1 DEF LinkInv, CrossInv, Commits
  <2>4. crossed' = crossed
    BY DEF Commits
  <2>5. \/ Contested(v.cand)'
        \/ v.status # "" => /\ status'[v.cand] \notin Decided
                            /\ v.event => events'[v.cand] = events[v.cand]
    <3>1. CASE v.cand = w.cand
      BY <2>3, <2>4, <3>1, HandHolds DEF Contested
    <3>2. CASE v.cand # w.cand
      BY <1>4, <2>2, <2>4, <3>2 DEF HoldsStill, Contested
    <3> QED BY <3>1, <3>2
  <2>6. \A f \in Families \cap DOMAIN v.husband : husband[f] = None =>
            husband'[f] = None \/ <<"family", f>> \in crossed'
    <3> SUFFICES ASSUME NEW f \in Families \cap DOMAIN v.husband, husband[f] = None,
                        <<"family", f>> \notin crossed'
                 PROVE  husband'[f] = None
      OBVIOUS
    <3>1. f \notin DOMAIN w.husband
      BY <2>3, <2>4, HandHolds
    <3> QED BY <3>1 DEF LinkInv, RowInv, Commits, Over
  <2>7. \A f \in Families \cap DOMAIN v.wife : wife[f] = None =>
            wife'[f] = None \/ <<"family", f>> \in crossed'
    <3> SUFFICES ASSUME NEW f \in Families \cap DOMAIN v.wife, wife[f] = None, <<"family", f>> \notin crossed'
                 PROVE  wife'[f] = None
      OBVIOUS
    <3>1. f \notin DOMAIN w.wife
      BY <2>3, <2>4, HandHolds
    <3> QED BY <3>1 DEF LinkInv, RowInv, Commits, Over
  <2>8. \A p \in DOMAIN v.origin : origin[p] = "free" => origin'[p] = "free"
    <3> SUFFICES ASSUME NEW p \in DOMAIN v.origin, origin[p] = "free" PROVE origin'[p] = "free"
      OBVIOUS
    <3>1. p \in People /\ p \notin DOMAIN w.origin
      BY <2>2, <2>3 DEF HoldsStill
    <3> QED BY <3>1, CommitCreates
  <2>9. \A n \in LookedUp(v) : Bearing(n) = {} => Bearing(n)' = {} \/ <<"name", n>> \in crossed'
    BY <2>3, <2>4, HandHolds, CommitCreates
  <2> QED BY <2>2, <2>4, <2>5, <2>6, <2>7, <2>8, <2>9, StillStays
<1>9. CrossInv'
  <2> SUFFICES ASSUME NEW s \in Requests, NEW t \in Requests, s # t,
                      req'[s] # None, req'[t] # None
               PROVE  /\ \A x \in InHand(req'[s]) : x \in InHand(req'[t]) => x \in crossed'
                      /\ \A p \in DOMAIN req'[s].origin : p \notin DOMAIN req'[t].origin
    BY DEF CrossInv, InHand, LookedUp
  <2>1. req'[s] = req[s] /\ req'[t] = req[t] /\ crossed' = crossed
    BY <1>2 DEF Commits
  <2> QED BY <2>1 DEF LinkInv, CrossInv
<1>10. EventInv'
  <2> SUFFICES ASSUME NEW c \in Candidates, ~Contested(c)'
               PROVE  \/ events'[c] = 0
                      \/ /\ events'[c] = 1
                         /\ status'[c] \in Decided \/ origin'[c[1]] = "gone"
    BY DEF EventInv
  <2>1. ~Contested(c)
    BY DEF Commits, Contested
  <2>2. \/ events[c] = 0
        \/ events[c] = 1 /\ (status[c] \in Decided \/ origin[c[1]] = "gone")
    BY <2>1 DEF LinkInv, EventInv
  <2>3. origin[c[1]] = "gone" => origin'[c[1]] = "gone"
    BY CommitCreates DEF Candidates
  <2>4. CASE c # w.cand \/ w.status = ""
    BY <1>4, <2>2, <2>3, <2>4
  <2>5. CASE c = w.cand /\ w.status # ""
    <3>1. status'[c] \in Decided
      BY <1>3, <1>5, <2>5 DEF Decided
    <3>2. w.event => events[c] = 0
      BY <1>1, <2>1, <2>5 DEF HoldsStill
    <3>3. CASE w.event
      <4>1. events[c] = 0
        BY <3>2, <3>3
      <4>2. events'[c] = events[c] + 1
        BY <1>5, <2>5, <3>3
      <4>3. events'[c] = 0 + 1
        BY <4>1, <4>2, Zenon
      <4>4. events'[c] = 1
        BY <4>3, SMT
      <4> QED BY <3>1, <4>4
    <3>4. CASE ~w.event
      BY <1>4, <2>2, <3>1, <3>4
    <3> QED BY <3>3, <3>4
  <2> QED BY <2>4, <2>5
<1>11. PersonOnce'
  <2> SUFFICES ASSUME NEW p \in People, NEW q \in People, p # q, Living(p)', Living(q)',
                      {origin'[p], origin'[q]} \cap Mentions # {},
                      NameOfPerson(p)' = NameOfPerson(q)', Findable(NameOfPerson(p)')
               PROVE  <<"name", NameOfPerson(p)'>> \in crossed
    BY DEF PersonOnce, Commits, Findable
  <2>1. \A x \in DOMAIN w.origin : \/ Clear(NameOf[w.origin[x]])
                                   \/ <<"name", NameOf[w.origin[x]]>> \in crossed
    BY <1>1 DEF HoldsStill
  <2>2. CASE p \in DOMAIN w.origin /\ q \in DOMAIN w.origin
    <3>1. Findable(NameOf[w.origin[p]]) => NameOf[w.origin[p]] # NameOf[w.origin[q]]
      BY <1>1, <2>2 DEF HoldsStill
    <3> QED BY <2>2, <3>1, CommitCreates
  <2>3. CASE p \in DOMAIN w.origin /\ q \notin DOMAIN w.origin
    <3>1. q \in Bearing(NameOf[w.origin[p]])
      BY <2>3, CommitCreates DEF Bearing
    <3> QED BY <2>1, <2>3, <3>1, CommitCreates DEF Clear
  <2>4. CASE p \notin DOMAIN w.origin /\ q \in DOMAIN w.origin
    <3>1. p \in Bearing(NameOf[w.origin[q]])
      BY <2>4, CommitCreates DEF Bearing
    <3> QED BY <2>1, <2>4, <3>1, CommitCreates DEF Clear
  <2>5. CASE p \notin DOMAIN w.origin /\ q \notin DOMAIN w.origin
    BY <2>5, CommitCreates DEF LinkInv, PersonOnce, Findable
  <2> QED BY <2>2, <2>3, <2>4, <2>5
<1> QED BY <1>7, <1>8, <1>9, <1>10, <1>11 DEF LinkInv

-----------------------------------------------------------------------------
(* Whatever else happens                                                   *)

\* Steps that leave the tree and the events alone and decide nothing: a request is given up,
\* a job begins, stores new candidates or fails, nothing happens.
LEMMA OthersKeep ==
    ASSUME LinkInv, RowInv', UNCHANGED <<origin, husband, wife, events>>,
           crossed \subseteq crossed',
           \A c \in Candidates : status'[c] # status[c] =>
                status[c] = "none" /\ status'[c] = "pending",
           \A s \in Requests : req'[s] \in {req[s], None}
    PROVE  LinkInv'
<1>1. \A n : Bearing(n)' = Bearing(n)
  BY DEF Bearing, Living, NameOfPerson
<1>2. StillInv'
  <2> SUFFICES ASSUME NEW s \in Requests, NEW v, v = req'[s], v # None PROVE HoldsStill(v)'
    BY DEF StillInv
  <2>1. HoldsStill(v)
    BY DEF LinkInv, StillInv
  <2>2. \/ Contested(v.cand)'
        \/ v.status # "" => /\ status'[v.cand] \notin Decided
                            /\ v.event => events'[v.cand] = events[v.cand]
    <3>1. v.cand \in Candidates
      BY <2>1 DEF HoldsStill
    <3>2. CASE status'[v.cand] = status[v.cand]
      BY <2>1, <3>2 DEF HoldsStill, Contested
    <3>3. CASE status'[v.cand] # status[v.cand]
      <4>1. status'[v.cand] = "pending"
        BY <3>1, <3>3
      <4> QED BY <2>1, <4>1 DEF HoldsStill, Contested, Decided
    <3> QED BY <3>2, <3>3
  <2> QED BY <1>1, <2>1, <2>2, StillStays
<1>3. CrossInv'
  <2> SUFFICES ASSUME NEW s \in Requests, NEW t \in Requests, s # t,
                      req'[s] # None, req'[t] # None
               PROVE  /\ \A x \in InHand(req'[s]) : x \in InHand(req'[t]) => x \in crossed'
                      /\ \A p \in DOMAIN req'[s].origin : p \notin DOMAIN req'[t].origin
    BY DEF CrossInv, InHand, LookedUp
  <2>1. req'[s] = req[s] /\ req'[t] = req[t]
    OBVIOUS
  <2> QED BY <2>1 DEF LinkInv, CrossInv
<1>4. EventInv'
  <2> SUFFICES ASSUME NEW c \in Candidates, ~Contested(c)'
               PROVE  \/ events'[c] = 0
                      \/ /\ events'[c] = 1
                         /\ status'[c] \in Decided \/ origin'[c[1]] = "gone"
    BY DEF EventInv
  <2>1. ~Contested(c)
    BY DEF Contested
  <2> QED BY <2>1 DEF LinkInv, EventInv, Decided
<1>5. PersonOnce'
  BY DEF LinkInv, PersonOnce, Living, NameOfPerson
<1> QED BY <1>2, <1>3, <1>4, <1>5 DEF LinkInv

LEMMA StartKeeps ==
    ASSUME LinkInv, NEW j \in Jobs, generate_candidates(j) \/ generate_family_candidates(j)
    PROVE  LinkInv'
<1>1. PICK p, kind, found, upgrades :
        start(j, p, kind, found, upgrades) /\ \A c \in found : c[1] = p
  <2>1. CASE generate_candidates(j)
    <3> DEFINE found(p) ==
          {<<p, m>> : m \in {x \in Mentions : /\ <<NameOfPerson(p), x>> \in Similar
                                             /\ ActOf[x] \notin Superseded
                                             /\ status[<<p, x>>] = "none"}}
    <3>1. PICK p \in People : start(j, p, "linkage", found(p), {})
      BY <2>1 DEF generate_candidates
    <3>2. ASSUME NEW c \in found(p) PROVE c[1] = p
      <4>1. PICK m \in Mentions : c = <<p, m>>
        OBVIOUS
      <4> QED BY <4>1
    <3> HIDE DEF found
    <3> QED BY <3>1, <3>2
  <2>2. CASE generate_family_candidates(j)
    BY <2>2 DEF generate_family_candidates
  <2> QED BY <2>1, <2>2
<1>2. /\ UNCHANGED <<origin, husband, wife, status, events, req>>
      /\ crossed \subseteq crossed'
      /\ DOMAIN job' = DOMAIN job
      /\ \A k \in Jobs : k # j => job'[k] = job[k]
  BY <1>1 DEF start, LinkInv, RowInv
<1>3. job'[j].found = found /\ job'[j].person = p
  BY <1>1 DEF start, LinkInv, RowInv
<1>4. RowInv'
  BY <1>1, <1>2, <1>3 DEF LinkInv, RowInv, Living
<1> QED BY <1>2, <1>4, OthersKeep

LEMMA StoreKeeps ==
    ASSUME LinkInv, NEW j \in Jobs, store(j) PROVE LinkInv'
<1>1. PICK w : /\ w = job[j] /\ w # None
               /\ Storable(w)
               /\ status' = [c \in Candidates |-> IF c \in w.found THEN "pending" ELSE status[c]]
  BY DEF store
<1>2. /\ UNCHANGED <<origin, husband, wife, events, req, crossed>>
      /\ job' = [job EXCEPT ![j] = None]
  BY DEF store
<1>3. \A c \in Candidates : status'[c] # status[c] => status[c] = "none" /\ status'[c] = "pending"
  BY <1>1 DEF Storable
<1>4. \A c \in w.found : Living(c[1])
  BY <1>1 DEF LinkInv, RowInv, Storable
<1>5. RowInv'
  <2>1. DOMAIN status' = Candidates
    BY <1>1
  <2>2. \A c \in Candidates : status'[c] # "none" => Living(c[1])'
    BY <1>1, <1>2, <1>4 DEF LinkInv, RowInv, Living
  <2>3. /\ DOMAIN job' = Jobs
        /\ \A k \in Jobs : job'[k] # None => \A c \in job'[k].found : c[1] = job'[k].person
    BY <1>2 DEF LinkInv, RowInv
  <2> QED BY <1>2, <2>1, <2>2, <2>3 DEF LinkInv, RowInv
<1> QED BY <1>2, <1>3, <1>5, OthersKeep

LEMMA GivenUpKeeps ==
    ASSUME LinkInv,
           \/ \E r \in Requests : rollback(r)
           \/ \E j \in Jobs : fail(j)
           \/ UNCHANGED vars
    PROVE  LinkInv'
<1>1. /\ UNCHANGED <<origin, husband, wife, status, events, crossed>>
      /\ DOMAIN req' = Requests /\ DOMAIN job' = Jobs
      /\ \A s \in Requests : req'[s] \in {req[s], None}
      /\ \A k \in Jobs : job'[k] \in {job[k], None}
  BY DEF rollback, fail, LinkInv, RowInv
<1>2. RowInv'
  BY <1>1 DEF LinkInv, RowInv, Living
<1> QED BY <1>1, <1>2, OthersKeep

LEMMA DeleteKeeps ==
    ASSUME LinkInv, NEW p \in People, delete_person(p) PROVE LinkInv'
<1> USE ActsAssumption DEF ActsAssumption
<1>1. /\ origin' = [origin EXCEPT ![p] = "gone"]
      /\ husband' = Forget(husband, p) /\ wife' = Forget(wife, p)
      /\ status' = [c \in Candidates |-> IF c[1] = p THEN "none" ELSE status[c]]
      /\ crossed \subseteq crossed'
      /\ events' = events /\ req' = req /\ job' = job
      /\ Living(p)
  BY DEF delete_person
<1>2. /\ DOMAIN origin' = People
      /\ origin'[p] = "gone" /\ ~Living(p)'
      /\ \A q \in People : q # p => origin'[q] = origin[q]
  BY <1>1 DEF LinkInv, RowInv, Living
<1>3. \A q \in People : q # p => /\ Living(q)' = Living(q)
                                 /\ NameOfPerson(q)' = NameOfPerson(q)
  BY <1>2 DEF Living, NameOfPerson
<1>4. \A n : Bearing(n)' \subseteq Bearing(n)
  BY <1>2, <1>3 DEF Bearing
<1>5. \A c \in Candidates : status'[c] = IF c[1] = p THEN "none" ELSE status[c]
  BY <1>1
<1>6. RowInv'
  <2>1. DOMAIN husband' = Families /\ DOMAIN wife' = Families /\ DOMAIN status' = Candidates
    BY <1>1 DEF LinkInv, RowInv, Forget
  <2>2. \A q \in People : origin'[q] \in {"free", "tree", "gone"} \cup Mentions
    BY <1>2 DEF LinkInv, RowInv
  <2>3. \A c \in Candidates : status'[c] # "none" => Living(c[1])'
    BY <1>3, <1>5 DEF LinkInv, RowInv, Candidates
  <2> QED BY <1>1, <1>2, <2>1, <2>2, <2>3 DEF LinkInv, RowInv
<1>7. StillInv'
  <2> SUFFICES ASSUME NEW s \in Requests, NEW v, v = req'[s], v # None PROVE HoldsStill(v)'
    BY DEF StillInv
  <2>1. HoldsStill(v)
    BY <1>1 DEF LinkInv, StillInv
  <2>2. \/ Contested(v.cand)'
        \/ v.status # "" => /\ status'[v.cand] \notin Decided
                            /\ v.event => events'[v.cand] = events[v.cand]
    BY <1>1, <1>5, <2>1 DEF HoldsStill, Contested, Decided
  <2>3. /\ \A f \in Families : husband[f] = None => husband'[f] = None
        /\ \A f \in Families : wife[f] = None => wife'[f] = None
    BY <1>1 DEF LinkInv, RowInv, Forget
  <2>4. \A q \in DOMAIN v.origin : origin[q] = "free" => origin'[q] = "free"
    <3>1. \A q \in DOMAIN v.origin : q \in People
      BY <2>1 DEF HoldsStill
    <3> QED BY <1>1, <1>2, <3>1 DEF Living
  <2> QED BY <1>1, <1>4, <2>1, <2>2, <2>3, <2>4, StillStays
<1>8. CrossInv'
  BY <1>1 DEF LinkInv, CrossInv, InHand, LookedUp
<1>9. EventInv'
  <2> SUFFICES ASSUME NEW c \in Candidates, ~Contested(c)'
               PROVE  \/ events'[c] = 0
                      \/ /\ events'[c] = 1
                         /\ status'[c] \in Decided \/ origin'[c[1]] = "gone"
    BY DEF EventInv
  <2>1. ~Contested(c) /\ c[1] \in People
    BY <1>1 DEF Contested, Candidates
  <2> QED BY <1>1, <1>2, <1>5, <2>1 DEF LinkInv, EventInv
<1>10. PersonOnce'
  BY <1>1, <1>2, <1>3 DEF LinkInv, PersonOnce
<1> QED BY <1>6, <1>7, <1>8, <1>9, <1>10 DEF LinkInv

-----------------------------------------------------------------------------
(* The theorems                                                            *)

LEMMA CommitIs ==
    ASSUME NEW r \in Requests, commit(r) PROVE \E w : Commits(r, w)
BY DEF commit, Commits

LEMMA InvNext == LinkInv /\ [Next]_vars => LinkInv'
<1> SUFFICES ASSUME LinkInv, [Next]_vars PROVE LinkInv'
  OBVIOUS
<1>1. ASSUME NEW r \in Requests, Opens(r) PROVE LinkInv'
  BY <1>1, OpensGrounded, OpenKeeps
<1>2. ASSUME NEW r \in Requests, commit(r) PROVE LinkInv'
  BY <1>2, CommitIs, CommitKeeps
<1>3. ASSUME NEW r \in Requests, rollback(r) PROVE LinkInv'
  BY <1>3, GivenUpKeeps
<1>4. ASSUME NEW j \in Jobs, generate_candidates(j) \/ generate_family_candidates(j) PROVE LinkInv'
  BY <1>4, StartKeeps
<1>5. ASSUME NEW j \in Jobs, store(j) PROVE LinkInv'
  BY <1>5, StoreKeeps
<1>6. ASSUME NEW j \in Jobs, fail(j) PROVE LinkInv'
  BY <1>6, GivenUpKeeps
<1>7. ASSUME NEW p \in People, delete_person(p) PROVE LinkInv'
  BY <1>7, DeleteKeeps
<1>8. CASE UNCHANGED vars
  BY <1>8, GivenUpKeeps
<1>9. CASE Next
  BY <1>1, <1>2, <1>3, <1>4, <1>5, <1>6, <1>7, <1>9 DEF Next, Opens
<1> QED BY <1>8, <1>9

\* What a request found when it began (a pending candidate, an empty slot, a name nobody
\* has) is so until it commits, unless another had it in hand, too.
THEOREM FoundStays == Spec => []LinkInv
<1> QED BY InvInit, InvNext, PTL DEF Spec

\* A candidate gives at most one event, and no two people are created under one name, unless
\* two requests had the act in hand, or looked the name up, at once (confirm_candidate,
\* _find_existing_person).
THEOREM WrittenOnce == Spec => []NothingTwice
<1>1. LinkInv => NothingTwice
  <2> SUFFICES ASSUME LinkInv PROVE EventOnce
    BY DEF LinkInv, NothingTwice
  <2>1. \A c \in Candidates : events[c] \in Nat
    BY DEF LinkInv, RowInv
  <2> SUFFICES ASSUME NEW c \in Candidates, ~Contested(c) PROVE events[c] <= 1
    BY DEF EventOnce
  <2>2. events[c] = 0 \/ events[c] = 1
    BY DEF LinkInv, EventInv
  <2> QED BY <2>2
<1> QED BY <1>1, FoundStays, PTL

\* A step that does not commit, store or delete changes no status and no slot.
LEMMA OnlyThese ==
    ASSUME [Next]_vars
    PROVE  \/ \E r \in Requests : commit(r)
           \/ \E j \in Jobs : store(j)
           \/ \E p \in People : delete_person(p)
           \/ UNCHANGED <<status, origin, husband, wife>>
<1>1. ASSUME NEW r \in Requests, Opens(r) PROVE UNCHANGED <<status, origin, husband, wife>>
  BY <1>1, OpensGrounded DEF open
<1>2. ASSUME NEW r \in Requests, rollback(r) PROVE UNCHANGED <<status, origin, husband, wife>>
  BY <1>2 DEF rollback
<1>3. ASSUME NEW j \in Jobs, generate_candidates(j) \/ generate_family_candidates(j) \/ fail(j)
      PROVE  UNCHANGED <<status, origin, husband, wife>>
  BY <1>3 DEF generate_candidates, generate_family_candidates, start, fail
<1> QED BY <1>1, <1>2, <1>3 DEF Next, Opens

\* What a researcher decided about a candidate stands, and no job takes it back, unless two
\* requests had the act in hand at once (confirm_candidate, reject_candidate and the jobs).
THEOREM DecisionsKept == Spec => DecisionsStand
<1> DEFINE Stands(c) == status[c] \in {"confirmed", "rejected"} =>
              \/ status'[c] = status[c]
              \/ Contested(c)
              \/ ~Living(c[1])'
<1>1. ASSUME LinkInv, [Next]_vars, NEW c \in Candidates PROVE Stands(c)
  <2> SUFFICES ASSUME status[c] \in Decided PROVE \/ status'[c] = status[c]
                                                  \/ Contested(c)
                                                  \/ ~Living(c[1])'
    BY DEF Decided
  <2>1. CASE \E r \in Requests : commit(r)
    <3>0. PICK r \in Requests : \E w : Commits(r, w)
      BY <2>1, CommitIs
    <3>1. PICK w : Commits(r, w)
      BY <3>0
    <3>2. HoldsStill(w)
      BY <1>1, <3>1, CommitCreates
    <3>3. CASE c = w.cand /\ w.status # ""
      BY <3>2, <3>3 DEF HoldsStill
    <3>4. CASE c # w.cand \/ w.status = ""
      BY <1>1, <3>1, <3>4 DEF Commits, LinkInv, RowInv
    <3> QED BY <3>3, <3>4
  <2>2. CASE \E j \in Jobs : store(j)
    BY <2>2 DEF store, Storable, Decided
  <2>3. CASE \E p \in People : delete_person(p)
    BY <1>1, <2>3 DEF delete_person, Living, LinkInv, RowInv
  <2>4. CASE UNCHANGED <<status, origin, husband, wife>>
    BY <2>4
  <2> QED BY <1>1, <2>1, <2>2, <2>3, <2>4, OnlyThese
<1>2. LinkInv /\ [Next]_vars => [\A c \in Candidates : Stands(c)]_vars
  BY <1>1
<1> QED BY <1>2, FoundStays, PTL DEF Spec, DecisionsStand

\* The slot of a spouse or parent is emptied by deleting the person in it and in no other
\* way, and never given to another, unless two requests wrote the family at once
\* (accept_proposal, _materialize_parents).
THEOREM SlotsStay == Spec => SlotsKept
<1>1. ASSUME LinkInv, [Next]_vars PROVE Kept(husband, husband') /\ Kept(wife, wife')
  <2>1. CASE \E r \in Requests : commit(r)
    <3>0. PICK r \in Requests : \E w : Commits(r, w)
      BY <2>1, CommitIs
    <3>1. PICK w : Commits(r, w)
      BY <3>0
    <3>2. HoldsStill(w)
      BY <1>1, <3>1, CommitCreates
    <3>3. /\ \A f \in Families \cap DOMAIN w.husband :
                husband[f] \notin People \/ <<"family", f>> \in crossed
          /\ \A f \in Families \cap DOMAIN w.wife :
                wife[f] \notin People \/ <<"family", f>> \in crossed
      BY <3>2, ActsAssumption DEF HoldsStill, ActsAssumption
    <3>4. /\ \A f \in Families : f \notin DOMAIN w.husband => husband'[f] = husband[f]
          /\ \A f \in Families : f \notin DOMAIN w.wife => wife'[f] = wife[f]
      BY <1>1, <3>1 DEF Commits, LinkInv, RowInv, Over
    <3> QED BY <3>3, <3>4 DEF Kept
  <2>2. CASE \E j \in Jobs : store(j)
    BY <2>2 DEF store, Kept
  <2>3. CASE \E p \in People : delete_person(p)
    <3>1. PICK p \in People : delete_person(p)
      BY <2>3
    <3>2. \A f \in Families :
            /\ husband'[f] = IF husband[f] = p THEN None ELSE husband[f]
            /\ wife'[f] = IF wife[f] = p THEN None ELSE wife[f]
      BY <1>1, <3>1 DEF delete_person, Forget, LinkInv, RowInv
    <3>3. origin'[p] = "gone"
      BY <1>1, <3>1 DEF delete_person, LinkInv, RowInv
    <3> QED BY <3>2, <3>3 DEF Kept
  <2>4. CASE UNCHANGED <<status, origin, husband, wife>>
    BY <2>4 DEF Kept
  <2> QED BY <1>1, <2>1, <2>2, <2>3, <2>4, OnlyThese
<1>2. LinkInv /\ [Next]_vars => [Kept(husband, husband') /\ Kept(wife, wife')]_vars
  BY <1>1
<1> QED BY <1>2, FoundStays, PTL DEF Spec, SlotsKept

-----------------------------------------------------------------------------
(* The relatives                                                           *)

Relatives == {"parent", "spouse", "child", "sibling"}
RelationOf(w) == IF w.kind = "sibling" THEN "sibling" ELSE relation(Role[w.mention])
Links(w) == w.kind \in {"accept", "sibling"}

\* The family of a request as it is once w is written.
SlotsOf(w) == {Over(w.husband, husband)[w.family], Over(w.wife, wife)[w.family]}
ChildOf(p, w) == <<w.family, p>> \in child \cup w.child

\* The relative of the focal person is put where the relation says.
Placed(rel, p, focal, w) ==
    /\ w.family \in Families
    /\ rel = "parent" =>
          /\ ChildOf(focal, w)
          /\ \/ p \in SlotsOf(w)
             \/ /\ <<w.family, focal>> \in child
                /\ None \notin {husband[w.family], wife[w.family]}
    /\ rel = "spouse" => \/ focal \in {husband[w.family], wife[w.family]}
                         \/ SlotsOf(w) = {p, focal}
    /\ rel = "child" => ChildOf(p, w) /\ focal \in SlotsOf(w)
    /\ rel = "sibling" => ChildOf(p, w) /\ ChildOf(focal, w)

\* Which rows a request may write.
Shape(w) ==
    /\ \A f \in DOMAIN w.husband \cup DOMAIN w.wife : f = w.family
    /\ \A m \in DOMAIN w.resolved : ActOf[m] = ActOf[w.cand[2]]
    /\ Links(w) => /\ w.mention \in Mentions /\ ActOf[w.mention] = ActOf[w.cand[2]]
                   /\ w.cand[1] \in People /\ w.who \in People

\* What such a request makes of the mention and of the relative.
Kin(w) == Links(w) =>
    /\ Over(w.resolved, resolved)[w.mention] = w.who
    /\ RelationOf(w) \in Relatives => Placed(RelationOf(w), w.who, w.cand[1], w)

Alone(w) ==
    {<<"act", ActOf[w.mention]>>, <<"person", w.cand[1]>>, <<"person", w.who>>,
     <<"kin", w.family>>} \cap crossed = {}

KinInv ==
    /\ DOMAIN resolved = Mentions
    /\ \A r \in Requests : \A w \in {req[r]} : w # None => Shape(w) /\ (Alone(w) => Kin(w))

\* An UPDATE that leaves out a column that has the value already gives it that value.
LEMMA SetsSets ==
    ASSUME NEW column, NEW row \in DOMAIN column, NEW value
    PROVE  Over(Sets(column, row, value), column)[row] = value
BY DEF Over, Sets

\* Nobody is None.
LEMMA Somebody == \A p \in People : p # None
BY ActsAssumption DEF ActsAssumption

LEMMA FamilyFound ==
    /\ \A p : \A f \in parent_family(p) :
          /\ f \in Families /\ f # None
          /\ <<f, p>> \in child \/ (husband[f] = None /\ wife[f] = None)
    /\ \A p : \A f \in spouse_family(p) :
          /\ f \in Families /\ f # None
          /\ p \in {husband[f], wife[f]} \/ (husband[f] = None /\ wife[f] = None)
<1>1. \A f \in Families : f # None
  BY ActsAssumption DEF ActsAssumption
<1>2. \A f \in NewFamily : f \in Families /\ husband[f] = None /\ wife[f] = None
  BY DEF NewFamily
<1>3. \A p : \A f \in parent_family(p) : f \in NewFamily \/ (f \in Families /\ <<f, p>> \in child)
  BY DEF parent_family, FamiliesOfChild
<1>4. \A p : \A f \in spouse_family(p) :
          f \in NewFamily \/ (f \in Families /\ p \in {husband[f], wife[f]})
  BY DEF spouse_family, FamiliesOfSpouse
<1> QED BY <1>1, <1>2, <1>3, <1>4

\* Whom _find_existing_person or a new row gives is a person.
LEMMA FoundIsPerson ==
    ASSUME NEW m, NEW p \in person_for(m, <<>>) PROVE p \in People
<1>1. DOMAIN <<>> = {}
  OBVIOUS
<1>2. Named(NameOf[m]) \subseteq People /\ Unused \subseteq People
  BY DEF Named, Unused
<1>3. \/ p \in Named(NameOf[m]) \cup {q \in DOMAIN <<>> : NameOf[<<>>[q]] = NameOf[m]}
      \/ p \in Least(Unused \ DOMAIN <<>>)
  BY DEF person_for
<1> QED BY <1>1, <1>2, <1>3 DEF Least

\* What each relation makes of a family: l is the family, its slots and its new children.
LEMMA LinkedPlaces ==
    ASSUME RowInv, NEW rel \in Relatives, NEW p \in People, NEW sex, NEW focal \in People,
           NEW l \in linked(rel, p, sex, focal), NEW w,
           w.family = l[1], w.child = l[3],
           w.husband = SlotSet(l[1], husband, l[2][1]), w.wife = SlotSet(l[1], wife, l[2][2])
    PROVE  Placed(rel, p, focal, w)
<1>1. DOMAIN husband = Families /\ DOMAIN wife = Families
  BY DEF RowInv
<1>2. p # None /\ focal # None
  BY Somebody
<1>3. ASSUME l[1] \in Families, l[1] # None
      PROVE  SlotsOf(w) = {l[2][1], l[2][2]}
  <2>1. w.husband = Sets(husband, l[1], l[2][1]) /\ w.wife = Sets(wife, l[1], l[2][2])
    BY <1>3 DEF SlotSet
  <2>2. /\ Over(w.husband, husband)[l[1]] = l[2][1]
        /\ Over(w.wife, wife)[l[1]] = l[2][2]
    BY <1>1, <1>3, <2>1, SetsSets
  <2> QED BY <2>2 DEF SlotsOf
<1>4. \A f, S : \A x \in S : <<f, x>> \in child \cup Childhood(f, S)
  BY DEF Childhood
<1>5. CASE rel = "parent"
  <2>1. PICK f \in parent_family(focal) : l = <<f, parent_slots(f, p, sex), Childhood(f, {focal})>>
    BY <1>5 DEF linked
  <2>2. f \in Families /\ f # None /\ (<<f, focal>> \in child \/ (husband[f] = None /\ wife[f] = None))
    BY FamilyFound
  <2>3. /\ l[1] = f /\ l[2] = parent_slots(f, p, sex) /\ l[3] = Childhood(f, {focal})
    BY <2>1
  <2>4. ChildOf(focal, w)
    BY <1>4, <2>3 DEF ChildOf
  <2>5. \/ p \in {l[2][1], l[2][2]}
        \/ None \notin {husband[f], wife[f]}
    BY <2>3 DEF parent_slots
  <2>6. SlotsOf(w) = {l[2][1], l[2][2]}
    BY <1>3, <2>2, <2>3
  <2> QED BY <1>5, <2>2, <2>3, <2>4, <2>5, <2>6 DEF Placed
<1>6. CASE rel = "spouse"
  <2>1. PICK f \in spouse_family(focal) : l = <<f, spouse_slots(f, p, sex, focal), {}>>
    BY <1>6 DEF linked
  <2>2. /\ f \in Families /\ f # None
        /\ focal \in {husband[f], wife[f]} \/ (husband[f] = None /\ wife[f] = None)
    BY FamilyFound
  <2>3. l[1] = f /\ l[2] = spouse_slots(f, p, sex, focal)
    BY <2>1
  <2>4. \/ focal \in {husband[f], wife[f]}
        \/ l[2] = <<focal, p>>
        \/ l[2] = <<p, focal>>
    BY <1>2, <2>2, <2>3 DEF spouse_slots, OrElse
  <2>5. \/ focal \in {husband[f], wife[f]}
        \/ {l[2][1], l[2][2]} = {p, focal}
    BY <2>4
  <2>6. SlotsOf(w) = {l[2][1], l[2][2]}
    BY <1>3, <2>2, <2>3
  <2> QED BY <1>6, <2>2, <2>3, <2>5, <2>6 DEF Placed
<1>7. CASE rel = "child"
  <2>1. PICK f \in spouse_family(focal) : l = <<f, focal_slots(f, focal), Childhood(f, {p})>>
    BY <1>7 DEF linked
  <2>2. /\ f \in Families /\ f # None
        /\ focal \in {husband[f], wife[f]} \/ (husband[f] = None /\ wife[f] = None)
    BY FamilyFound
  <2>3. l[1] = f /\ l[2] = focal_slots(f, focal) /\ l[3] = Childhood(f, {p})
    BY <2>1
  <2>4. focal \in {l[2][1], l[2][2]}
    BY <1>2, <2>2, <2>3 DEF focal_slots
  <2>5. ChildOf(p, w)
    BY <1>4, <2>3 DEF ChildOf
  <2>6. SlotsOf(w) = {l[2][1], l[2][2]}
    BY <1>3, <2>2, <2>3
  <2> QED BY <1>7, <2>2, <2>3, <2>4, <2>5, <2>6 DEF Placed
<1>8. CASE rel = "sibling"
  <2>1. PICK f \in parent_family(focal) :
            l = <<f, <<husband[f], wife[f]>>, Childhood(f, {focal, p})>>
    BY <1>8 DEF linked
  <2>2. f \in Families
    BY FamilyFound
  <2>3. l[1] = f /\ l[3] = Childhood(f, {focal, p})
    BY <2>1
  <2>4. ChildOf(p, w) /\ ChildOf(focal, w)
    BY <1>4, <2>3 DEF ChildOf
  <2> QED BY <1>8, <2>2, <2>3, <2>4 DEF Placed
<1> QED BY <1>5, <1>6, <1>7, <1>8 DEF Relatives

LEMMA AcceptKin ==
    ASSUME RowInv, DOMAIN resolved = Mentions, NEW r \in Requests, accept_proposal(r)
    PROVE  \E w : open(r, w) /\ Shape(w) /\ Kin(w)
<1>1. PICK c \in {x \in Candidates : status[x] = "confirmed"}, m \in Mentions :
        /\ ActOf[m] = ActOf[c[2]]
        /\ \E p \in person_for(m, <<>>) :
           \E l \in linked(relation(Role[m]), p, implied_sex(m), c[1]) :
              open(r, AcceptWrite(c, m, p, l))
  BY DEF accept_proposal, AcceptWrite
<1>2. PICK p \in person_for(m, <<>>) :
        \E l \in linked(relation(Role[m]), p, implied_sex(m), c[1]) :
            open(r, AcceptWrite(c, m, p, l))
  BY <1>1
<1>3. PICK l \in linked(relation(Role[m]), p, implied_sex(m), c[1]) :
            open(r, AcceptWrite(c, m, p, l))
  BY <1>2
<1> DEFINE w == AcceptWrite(c, m, p, l)
<1>4. /\ w.kind = "accept" /\ w.cand = c /\ w.mention = m /\ w.who = p
      /\ w.family = l[1] /\ w.child = l[3]
      /\ w.husband = SlotSet(l[1], husband, l[2][1]) /\ w.wife = SlotSet(l[1], wife, l[2][2])
      /\ w.resolved = Sets(resolved, m, p)
  BY DEF Nothing, AcceptWrite
<1>5. open(r, w)
  BY <1>3
<1> HIDE DEF w
<1>6. p \in People /\ c[1] \in People
  BY FoundIsPerson DEF Candidates
<1>7. Shape(w)
  <2>1. DOMAIN <<>> = {}
    OBVIOUS
  <2>2. \A f \in DOMAIN w.husband \cup DOMAIN w.wife : f = w.family
    BY <1>4, <2>1 DEF SlotSet, Sets
  <2>3. \A x \in DOMAIN w.resolved : x = m
    BY <1>4 DEF Sets
  <2> QED BY <1>1, <1>4, <1>6, <2>2, <2>3 DEF Shape
<1>8. Kin(w)
  <2>1. Over(w.resolved, resolved)[m] = p
    BY <1>4, SetsSets
  <2>2. ASSUME relation(Role[m]) \in Relatives PROVE Placed(relation(Role[m]), p, c[1], w)
    BY <1>4, <1>6, <2>2, LinkedPlaces
  <2> QED BY <1>4, <2>1, <2>2 DEF Kin, RelationOf
<1> QED BY <1>5, <1>7, <1>8

LEMMA SiblingKin ==
    ASSUME RowInv, DOMAIN resolved = Mentions, NEW r \in Requests, confirm_sibling(r)
    PROVE  \E w : open(r, w) /\ Shape(w) /\ Kin(w)
<1>1. PICK c \in Pending \cap sibling :
        \E s \in person_for(c[2], <<>>), f \in parent_family(c[1]) :
        \E h \in materialized(husband[f], ActOf[c[2]], "father", created(s, c[2], <<>>)) :
        \E x \in materialized(wife[f], ActOf[c[2]], "mother", h[2]) :
            open(r, SiblingWrite(c, s, f, h, x))
  BY DEF confirm_sibling, SiblingWrite
<1> DEFINE m == c[2]
           a == ActOf[m]
<1>2. PICK s \in person_for(m, <<>>), f \in parent_family(c[1]) :
        \E h \in materialized(husband[f], a, "father", created(s, m, <<>>)) :
        \E x \in materialized(wife[f], a, "mother", h[2]) :
            open(r, SiblingWrite(c, s, f, h, x))
  BY <1>1
<1>3. PICK h \in materialized(husband[f], a, "father", created(s, m, <<>>)) :
        \E x \in materialized(wife[f], a, "mother", h[2]) : open(r, SiblingWrite(c, s, f, h, x))
  BY <1>2
<1>4. PICK x \in materialized(wife[f], a, "mother", h[2]) : open(r, SiblingWrite(c, s, f, h, x))
  BY <1>3
<1> DEFINE w == SiblingWrite(c, s, f, h, x)
           parents == Also(parents_resolved(a, "father", h[1]), parents_resolved(a, "mother", x[1]))
<1>5. open(r, w)
  BY <1>4
<1>6. /\ w.kind = "sibling" /\ w.cand = c /\ w.mention = m /\ w.who = s /\ w.family = f
      /\ w.husband = filled(f, husband, h[1]) /\ w.wife = filled(f, wife, x[1])
      /\ w.child = Childhood(f, {c[1], s})
      /\ w.resolved = Also(Sets(resolved, m, s), parents)
  BY DEF Nothing, SiblingWrite
<1>7. c \in Candidates /\ m \in Mentions /\ c[1] \in People /\ s \in People
  BY <1>2, FoundIsPerson DEF Pending, Candidates
<1>8. \A y \in DOMAIN parents : resolved[y] = None /\ ActOf[y] = a
  BY DEF Also, parents_resolved, ParentsIn, InAct
<1> HIDE DEF w, parents, m
<1>9. Shape(w)
  <2>1. \A g \in DOMAIN w.husband \cup DOMAIN w.wife : g = w.family
    BY <1>6 DEF filled
  <2>2. \A y \in DOMAIN w.resolved : y = m \/ y \in DOMAIN parents
    BY <1>6 DEF Also, Sets
  <2> QED BY <1>6, <1>7, <1>8, <2>1, <2>2 DEF Shape, m
<1>10. Over(w.resolved, resolved)[m] = s
  <2>1. CASE resolved[m] = s
    <3>1. m \notin DOMAIN parents
      BY <1>7, <1>8, <2>1, Somebody
    <3>2. m \notin DOMAIN w.resolved
      BY <1>6, <2>1, <3>1 DEF Also, Sets
    <3> QED BY <1>7, <2>1, <3>2 DEF Over
  <2>2. CASE resolved[m] # s
    <3>1. m \in DOMAIN w.resolved /\ w.resolved[m] = s
      BY <1>6, <2>2 DEF Also, Sets
    <3> QED BY <1>7, <3>1 DEF Over
  <2> QED BY <2>1, <2>2
<1>11. Placed("sibling", s, c[1], w)
  <2>1. f \in Families
    BY FamilyFound
  <2>2. ChildOf(s, w) /\ ChildOf(c[1], w)
    BY <1>6 DEF ChildOf, Childhood
  <2> QED BY <1>6, <2>1, <2>2 DEF Placed
<1>12. Kin(w)
  BY <1>6, <1>10, <1>11 DEF Kin, RelationOf
<1> QED BY <1>5, <1>9, <1>12

\* Every request begins with a write of that shape.
LEMMA OpensKin ==
    ASSUME RowInv, DOMAIN resolved = Mentions, NEW r \in Requests, Opens(r)
    PROVE  \E w : open(r, w) /\ Shape(w) /\ Kin(w)
<1>1. CASE confirm_candidate(r)
  <2>1. PICK c \in Pending \ sibling :
        open(r, [Nothing EXCEPT
            !.kind = "confirm", !.cand = c, !.who = c[1], !.status = "confirmed",
            !.event = HasEvent(ActOf[c[2]]),
            !.resolved = Sets(resolved, c[2], c[1]), !.matched = Sets(matched, c[2], "confirmed")])
    BY <1>1 DEF confirm_candidate
  <2> DEFINE w == [Nothing EXCEPT
            !.kind = "confirm", !.cand = c, !.who = c[1], !.status = "confirmed",
            !.event = HasEvent(ActOf[c[2]]),
            !.resolved = Sets(resolved, c[2], c[1]), !.matched = Sets(matched, c[2], "confirmed")]
  <2>2. /\ w.kind = "confirm" /\ w.cand = c /\ DOMAIN w.husband = {} /\ DOMAIN w.wife = {}
        /\ w.resolved = Sets(resolved, c[2], c[1])
    BY NothingWritten DEF Nothing
  <2>3. open(r, w)
    BY <2>1
  <2> HIDE DEF w
  <2>4. \A m \in DOMAIN w.resolved : m = c[2]
    BY <2>2 DEF Sets
  <2>5. Shape(w) /\ Kin(w)
    BY <2>2, <2>4 DEF Shape, Kin, Links
  <2> QED BY <2>3, <2>5
<1>2. CASE reject_candidate(r)
  <2>1. PICK c \in Pending :
        open(r, [Nothing EXCEPT
            !.kind = "reject", !.cand = c, !.who = c[1], !.status = "rejected",
            !.matched = IF matched[c[2]] = "confirmed" THEN <<>> ELSE Sets(matched, c[2], "rejected")])
    BY <1>2 DEF reject_candidate
  <2> DEFINE w == [Nothing EXCEPT
            !.kind = "reject", !.cand = c, !.who = c[1], !.status = "rejected",
            !.matched = IF matched[c[2]] = "confirmed" THEN <<>> ELSE Sets(matched, c[2], "rejected")]
  <2>2. /\ w.kind = "reject" /\ DOMAIN w.husband = {} /\ DOMAIN w.wife = {}
        /\ w.resolved = <<>>
    BY NothingWritten DEF Nothing
  <2>3. open(r, w)
    BY <2>1
  <2> HIDE DEF w
  <2>4. DOMAIN w.resolved = {}
    BY <2>2
  <2>5. Shape(w) /\ Kin(w)
    BY <2>2, <2>4 DEF Shape, Kin, Links
  <2> QED BY <2>3, <2>5
<1> QED BY <1>1, <1>2, AcceptKin, SiblingKin DEF Opens

\* What a request makes of the relative stays so if a step leaves the family, the two people
\* and the mention alone.
LEMMA KinStays ==
    ASSUME NEW w, Kin(w), Shape(w), DOMAIN resolved = Mentions, DOMAIN resolved' = Mentions,
           RowInv, RowInv',
           Links(w) => /\ \/ w.mention \in DOMAIN w.resolved
                          \/ resolved'[w.mention] = w.who
                          \/ resolved'[w.mention] = resolved[w.mention]
                       /\ husband'[w.family] = husband[w.family] \/ w.family \notin Families
                       /\ wife'[w.family] = wife[w.family] \/ w.family \notin Families
                       /\ \A p \in {w.who, w.cand[1]} :
                             <<w.family, p>> \in child => <<w.family, p>> \in child'
    PROVE  Kin(w)'
<1>1. DOMAIN husband = Families /\ DOMAIN wife = Families /\ DOMAIN husband' = Families /\ DOMAIN wife' = Families
  BY DEF RowInv
<1> SUFFICES ASSUME Links(w)
             PROVE  /\ Over(w.resolved, resolved)[w.mention]' = w.who
                    /\ RelationOf(w) \in Relatives =>
                          Placed(RelationOf(w), w.who, w.cand[1], w)'
  BY DEF Kin, Links, RelationOf
<1>2. w.mention \in Mentions /\ Over(w.resolved, resolved)[w.mention] = w.who
  BY DEF Kin, Shape
<1>3. Over(w.resolved, resolved')[w.mention] = w.who
  BY <1>2 DEF Over
<1>4. ASSUME RelationOf(w) \in Relatives
      PROVE  Placed(RelationOf(w), w.who, w.cand[1], w)'
  <2>1. Placed(RelationOf(w), w.who, w.cand[1], w)
    BY <1>4 DEF Kin
  <2>2. w.family \in Families
    BY <2>1 DEF Placed
  <2>3. husband'[w.family] = husband[w.family] /\ wife'[w.family] = wife[w.family]
    BY <2>2
  <2>4. SlotsOf(w)' = SlotsOf(w)
    BY <1>1, <2>2, <2>3 DEF SlotsOf, Over
  <2>5. \A p \in {w.who, w.cand[1]} : ChildOf(p, w) => ChildOf(p, w)'
    BY DEF ChildOf
  <2> QED BY <2>1, <2>2, <2>3, <2>4, <2>5 DEF Placed
<1> QED BY <1>3, <1>4

KinNow == LinkInv /\ KinInv

\* A step that leaves the tree and the mentions alone and changes no write under way.
LEMMA KinOthers ==
    ASSUME KinNow, LinkInv', UNCHANGED <<husband, wife, child, resolved>>, crossed \subseteq crossed',
           \A s \in Requests : \/ req'[s] \in {req[s], None}
                               \/ Shape(req'[s]) /\ Kin(req'[s])
    PROVE  KinInv'
<1>1. DOMAIN resolved' = Mentions
  BY DEF KinNow, KinInv
<1>2. \A w : Shape(w)' = Shape(w)
  BY DEF Shape, Links
<1>3. \A w : Kin(w)' = Kin(w)
  BY DEF Kin, Placed, SlotsOf, ChildOf, Over, RelationOf, Links
<1>4. \A w : Alone(w)' => Alone(w)
  BY DEF Alone
<1>5. ASSUME NEW s \in Requests, NEW w, w = req'[s], w # None PROVE Shape(w)' /\ (Alone(w)' => Kin(w)')
  BY <1>2, <1>3, <1>4, <1>5 DEF KinNow, KinInv
<1> QED BY <1>1, <1>5 DEF KinInv

LEMMA KinOpen ==
    ASSUME KinNow, LinkInv', NEW r \in Requests, Opens(r) PROVE KinInv'
<1>1. PICK w : open(r, w) /\ Shape(w) /\ Kin(w)
  BY OpensKin DEF KinNow, KinInv, LinkInv
<1>2. /\ UNCHANGED <<husband, wife, child, resolved>> /\ crossed \subseteq crossed'
      /\ req' = [req EXCEPT ![r] = w]
  BY <1>1 DEF open
<1>3. \A s \in Requests : req'[s] = req[s] \/ req'[s] = w
  BY <1>2 DEF KinNow, LinkInv, RowInv
<1> QED BY <1>1, <1>2, <1>3, KinOthers

\* Two requests of one act, or of one family, are not alone.
LEMMA KinApart ==
    ASSUME KinNow, NEW r \in Requests, NEW s \in Requests, r # s, NEW w, NEW v,
           w = req[r], v = req[s], w # None, v # None, Alone(v), Links(v)
    PROVE  /\ v.mention \notin DOMAIN w.resolved
           /\ v.family # None => w.family # v.family
<1>1. Shape(w) /\ Shape(v)
  BY DEF KinNow, KinInv
<1>2. \A x \in InHand(w) : x \in InHand(v) => x \in crossed
  BY DEF KinNow, LinkInv, CrossInv
<1>3. /\ <<"act", ActOf[v.mention]>> \notin crossed
      /\ <<"kin", v.family>> \notin crossed
  BY DEF Alone
<1>4. v.mention \notin DOMAIN w.resolved
  <2> SUFFICES ASSUME v.mention \in DOMAIN w.resolved PROVE FALSE
    OBVIOUS
  <2>1. ActOf[v.mention] = ActOf[w.cand[2]] /\ ActOf[v.mention] = ActOf[v.cand[2]]
    BY <1>1 DEF Shape
  <2> QED BY <1>2, <1>3, <2>1, HandHolds
<1>5. ASSUME v.family # None, w.family = v.family PROVE FALSE
  <2>1. <<"kin", v.family>> \in InHand(w) /\ <<"kin", v.family>> \in InHand(v)
    BY <1>5 DEF InHand
  <2> QED BY <1>2, <1>3, <2>1
<1> QED BY <1>4, <1>5

LEMMA KinCommit ==
    ASSUME KinNow, LinkInv', NEW r \in Requests, commit(r) PROVE KinInv'
<1>1. PICK w : /\ w = req[r] /\ w # None
               /\ husband' = Over(w.husband, husband) /\ wife' = Over(w.wife, wife)
               /\ child' = child \cup w.child
               /\ resolved' = Over(w.resolved, resolved)
  BY DEF commit
<1>2. req' = [req EXCEPT ![r] = None] /\ crossed' = crossed
  BY DEF commit
<1>3. DOMAIN resolved = Mentions /\ DOMAIN resolved' = Mentions
  BY <1>1 DEF KinNow, KinInv, Over
<1>4. ASSUME NEW s \in Requests, NEW v, v = req'[s], v # None
      PROVE  Shape(v)' /\ (Alone(v)' => Kin(v)')
  <2>1. s # r /\ v = req[s]
    BY <1>2, <1>4 DEF KinNow, LinkInv, RowInv
  <2>2. Shape(v) /\ (Alone(v) => Kin(v)) /\ Shape(w)
    BY <1>1, <1>4, <2>1 DEF KinNow, KinInv
  <2>3. Shape(v)' /\ (Alone(v)' => Alone(v))
    BY <1>2, <2>2 DEF Shape, Links, Alone
  <2>4. ASSUME Alone(v) PROVE Kin(v)'
    <3>1. Kin(v)
      BY <2>2, <2>4
    <3>2. ASSUME Links(v)
          PROVE  /\ v.mention \in Mentions
                 /\ resolved'[v.mention] = resolved[v.mention]
                 /\ v.family \in Families => /\ husband'[v.family] = husband[v.family]
                                             /\ wife'[v.family] = wife[v.family]
      <4>1. v.mention \notin DOMAIN w.resolved /\ (v.family # None => w.family # v.family)
        BY <1>1, <1>4, <2>1, <2>4, <3>2, KinApart
      <4>2. v.mention \in Mentions /\ resolved'[v.mention] = resolved[v.mention]
        BY <1>1, <1>3, <2>2, <3>2, <4>1 DEF Shape, Over
      <4>3. ASSUME v.family \in Families
            PROVE  husband'[v.family] = husband[v.family] /\ wife'[v.family] = wife[v.family]
        <5>1. v.family # None
          BY <4>3, ActsAssumption DEF ActsAssumption
        <5>2. v.family \notin DOMAIN w.husband \cup DOMAIN w.wife
          BY <2>2, <4>1, <5>1 DEF Shape
        <5> QED BY <1>1, <4>3, <5>2 DEF Over, KinNow, LinkInv, RowInv
      <4> QED BY <4>2, <4>3
    <3>3. RowInv /\ RowInv'
      BY DEF KinNow, LinkInv
    <3> QED BY <1>1, <1>3, <2>2, <3>1, <3>2, <3>3, KinStays
  <2> QED BY <2>3, <2>4
<1> QED BY <1>3, <1>4 DEF KinInv

LEMMA KinDelete ==
    ASSUME KinNow, LinkInv', NEW q \in People, delete_person(q) PROVE KinInv'
<1>1. /\ husband' = Forget(husband, q) /\ wife' = Forget(wife, q)
      /\ child' = {e \in child : e[2] # q}
      /\ resolved' = Forget(resolved, q)
      /\ crossed' = crossed \cup (({<<"person", q>>} \cup {<<"kin", f>> : f \in FamiliesOfSpouse(q)})
                                    \cap BusyWith)
      /\ req' = req
  BY DEF delete_person
<1>2. DOMAIN resolved = Mentions /\ DOMAIN resolved' = Mentions
  BY <1>1 DEF KinNow, KinInv, Forget
<1>3. ASSUME NEW s \in Requests, NEW v, v = req[s], v # None
      PROVE  Shape(v)' /\ (Alone(v)' => Kin(v)')
  <2>1. Shape(v) /\ (Alone(v) => Kin(v))
    BY <1>3 DEF KinNow, KinInv
  <2>2. Shape(v)' /\ (Alone(v)' => Alone(v))
    BY <1>1, <2>1 DEF Shape, Links, Alone
  <2>3. InHand(v) \subseteq BusyWith
    BY <1>3 DEF BusyWith, Open
  <2>4. ASSUME Alone(v)' PROVE Kin(v)'
    <3>1. Kin(v)
      BY <2>1, <2>2, <2>4
    <3>2. q # v.who /\ q # v.cand[1]
      <4>1. <<"person", v.who>> \in InHand(v) /\ <<"person", v.cand[1]>> \in InHand(v)
        BY DEF InHand
      <4> QED BY <1>1, <2>3, <2>4, <4>1 DEF Alone
    <3>3. ASSUME v.family \in Families
          PROVE  husband'[v.family] = husband[v.family] /\ wife'[v.family] = wife[v.family]
      <4>1. v.family # None
        BY <3>3, ActsAssumption DEF ActsAssumption
      <4>2. <<"kin", v.family>> \in InHand(v)
        BY <4>1 DEF InHand
      <4>3. v.family \notin FamiliesOfSpouse(q)
        BY <1>1, <2>3, <2>4, <4>2 DEF Alone
      <4>4. husband[v.family] # q /\ wife[v.family] # q
        BY <3>3, <4>3 DEF FamiliesOfSpouse
      <4> QED BY <1>1, <3>3, <4>4 DEF Forget, KinNow, LinkInv, RowInv
    <3>4. \A p \in {v.who, v.cand[1]} : <<v.family, p>> \in child => <<v.family, p>> \in child'
      BY <1>1, <3>2
    <3>5. ASSUME Links(v)
          PROVE  \/ v.mention \in DOMAIN v.resolved
                 \/ resolved'[v.mention] = v.who
      <4>1. v.mention \in Mentions /\ Over(v.resolved, resolved)[v.mention] = v.who
        BY <2>1, <3>1, <3>5 DEF Shape, Kin
      <4>2. CASE v.mention \notin DOMAIN v.resolved
        BY <1>1, <1>2, <3>2, <4>1, <4>2 DEF Over, Forget
      <4> QED BY <4>2
    <3>6. RowInv /\ RowInv'
      BY DEF KinNow, LinkInv
    <3> QED BY <1>2, <2>1, <3>1, <3>3, <3>4, <3>5, <3>6, KinStays
  <2> QED BY <2>2, <2>4
<1> QED BY <1>1, <1>2, <1>3 DEF KinInv

LEMMA KinInit == Init => KinInv
BY DEF Init, KinInv

LEMMA KinNext == KinNow /\ LinkInv' /\ [Next]_vars => KinInv'
<1> SUFFICES ASSUME KinNow, LinkInv', [Next]_vars PROVE KinInv'
  OBVIOUS
<1>0. DOMAIN req = Requests
  BY DEF KinNow, LinkInv, RowInv
<1>1. ASSUME NEW r \in Requests, Opens(r) PROVE KinInv'
  BY <1>1, KinOpen
<1>2. ASSUME NEW r \in Requests, commit(r) PROVE KinInv'
  BY <1>2, KinCommit
<1>3. ASSUME NEW r \in Requests, rollback(r) PROVE KinInv'
  BY <1>0, <1>3, KinOthers DEF rollback
<1>4. ASSUME NEW j \in Jobs, generate_candidates(j) \/ generate_family_candidates(j) PROVE KinInv'
  <2>1. UNCHANGED <<husband, wife, child, resolved, req>> /\ crossed \subseteq crossed'
    BY <1>4 DEF generate_candidates, generate_family_candidates, start
  <2> QED BY <2>1, KinOthers
<1>5. ASSUME NEW j \in Jobs, store(j) \/ fail(j) PROVE KinInv'
  <2>1. UNCHANGED <<husband, wife, child, resolved, req, crossed>>
    BY <1>5 DEF store, fail
  <2> QED BY <2>1, KinOthers
<1>6. ASSUME NEW p \in People, delete_person(p) PROVE KinInv'
  BY <1>6, KinDelete
<1>7. CASE UNCHANGED vars
  BY <1>7, KinOthers
<1>8. CASE Next
  BY <1>1, <1>2, <1>3, <1>4, <1>5, <1>6, <1>8 DEF Next, Opens
<1> QED BY <1>7, <1>8

\* A commit puts the relative where its request said it would.
LEMMA CommitLinks ==
    ASSUME KinNow, NEW r \in Requests, NEW w, w = req[r], commit(r), Links(w), Alone(w),
           RelationOf(w) = "parent" => HasRoom(w.cand[1]),
           RelationOf(w) = "spouse" => FamiliesOfSpouse(w.cand[1]) = {}
    PROVE  Linked(RelationOf(w), resolved[w.mention], w.cand[1])'
<1>1. /\ w # None
      /\ husband' = Over(w.husband, husband) /\ wife' = Over(w.wife, wife)
      /\ child' = child \cup w.child
      /\ resolved' = Over(w.resolved, resolved)
  BY DEF commit
<1>2. Shape(w) /\ Kin(w)
  BY <1>1 DEF KinNow, KinInv
<1>3. resolved'[w.mention] = w.who
  BY <1>1, <1>2 DEF Kin
<1>4. RelationOf(w)' = RelationOf(w)
  BY DEF RelationOf
<1> DEFINE p == w.who
           focal == w.cand[1]
           f == w.family
<1>5. CASE RelationOf(w) \in Relatives
  <2>1. Placed(RelationOf(w), p, focal, w)
    BY <1>2, <1>5 DEF Kin
  <2>2. f \in Families
    BY <2>1 DEF Placed
  <2>3. SlotsOf(w) = {husband'[f], wife'[f]}
    BY <1>1 DEF SlotsOf
  <2>4. \A x : ChildOf(x, w) => f \in FamiliesOfChild(x)'
    BY <1>1, <2>2 DEF ChildOf, FamiliesOfChild
  <2>5. CASE RelationOf(w) = "parent"
    <3>1. ChildOf(focal, w) /\ (p \in SlotsOf(w) \/ (/\ <<f, focal>> \in child
                                                     /\ None \notin {husband[f], wife[f]}))
      BY <2>1, <2>5 DEF Placed
    <3>2. p \in SlotsOf(w)
      BY <2>2, <2>5, <3>1 DEF HasRoom, FamiliesOfChild
    <3> QED BY <1>3, <1>4, <2>3, <2>4, <2>5, <3>1, <3>2 DEF Linked
  <2>6. CASE RelationOf(w) = "spouse"
    <3>1. SlotsOf(w) = {p, focal}
      BY <2>1, <2>2, <2>6 DEF Placed, FamiliesOfSpouse
    <3> QED BY <1>3, <1>4, <2>2, <2>3, <2>6, <3>1 DEF Linked
  <2>7. CASE RelationOf(w) = "child"
    <3>1. ChildOf(p, w) /\ focal \in SlotsOf(w)
      BY <2>1, <2>7 DEF Placed
    <3> QED BY <1>3, <1>4, <2>3, <2>4, <2>7, <3>1 DEF Linked
  <2>8. CASE RelationOf(w) = "sibling"
    <3>1. ChildOf(p, w) /\ ChildOf(focal, w)
      BY <2>1, <2>8 DEF Placed
    <3> QED BY <1>3, <1>4, <2>4, <2>8, <3>1 DEF Linked
  <2> QED BY <1>5, <2>5, <2>6, <2>7, <2>8 DEF Relatives
<1>6. CASE RelationOf(w) \notin Relatives
  BY <1>4, <1>6 DEF Linked, Relatives
<1> QED BY <1>5, <1>6

\* An accepted child or sibling is where the act puts it, and so are a parent for whom there
\* is room and the spouse of a person without a family; a confirmed sibling is a child of the
\* family of the person it was found for; unless another had the act, the people or the
\* family in hand, or somebody in it was deleted (accept_proposal, _confirm_sibling).
THEOREM RelativesStay == Spec => RelativesAreLinked
<1>1. Spec => []KinNow
  <2>1. Init => KinNow
    BY InvInit, KinInit DEF KinNow
  <2>2. KinNow /\ [Next]_vars => KinNow'
    BY InvNext, KinNext DEF KinNow
  <2> QED BY <2>1, <2>2, PTL DEF Spec
<1> DEFINE ok(w) == CASE relation(Role[w.mention]) = "spouse" -> FamiliesOfSpouse(w.cand[1]) = {}
                      [] relation(Role[w.mention]) = "parent" -> HasRoom(w.cand[1])
                      [] OTHER                                -> TRUE
           All == /\ LinksAll("sibling", Confirmed, LAMBDA w : TRUE)
                  /\ LinksAll("accept", Accepted, ok)
<1>2. ASSUME KinNow PROVE LinksAll("sibling", Confirmed, LAMBDA w : TRUE)
  <2> SUFFICES ASSUME NEW r \in Open, NEW w \in {req[r]}, w.kind = "sibling", commit(r), Alone(w)
               PROVE  Linked("sibling", resolved[w.mention], w.cand[1])'
    BY DEF LinksAll, Confirmed, Alone
  <2>1. RelationOf(w) = "sibling" /\ Links(w) /\ r \in Requests
    BY DEF RelationOf, Links, Open
  <2> QED BY <1>2, <2>1, CommitLinks
<1>3. ASSUME KinNow PROVE LinksAll("accept", Accepted, ok)
  <2> SUFFICES ASSUME NEW r \in Open, NEW w \in {req[r]}, w.kind = "accept", commit(r), Alone(w), ok(w)
               PROVE  Linked(relation(Role[w.mention]), resolved[w.mention], w.cand[1])'
    BY DEF LinksAll, Accepted, Alone
  <2>1. RelationOf(w) = relation(Role[w.mention]) /\ Links(w) /\ r \in Requests
    BY DEF RelationOf, Links, Open
  <2> QED BY <1>3, <2>1, CommitLinks
<1>4. KinNow /\ [Next]_vars => [All]_vars
  BY <1>2, <1>3
<1> QED BY <1>1, <1>4, PTL DEF Spec, RelativesAreLinked
=============================================================================
