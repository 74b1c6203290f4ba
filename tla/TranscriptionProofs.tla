------------------------- MODULE TranscriptionProofs -------------------------
(***************************************************************************)
(* Proofs about Transcription, for every set of pages, runs and embedding  *)
(* jobs, every bound and every order of the keys.                          *)
(***************************************************************************)
EXTENDS Transcription, TLAPS

\* The part of the type invariant the proofs need.
RowType ==
    /\ page \in [Version -> Page \union {0}]
    /\ active \in [Version -> BOOLEAN]
    /\ last \in 0..MaxVersions
    /\ at \in [Run -> Page \union {0}]
    /\ base \in [Run -> Version \union {0}]
    /\ phase \in [Run -> {"off", "ready", "tx"}]
    /\ todo \in [Run -> SUBSET Page]

\* Only rows that were inserted have a page, and only those are active.
RowsInv ==
    /\ \A v \in Version : page[v] # 0 => v <= last
    /\ \A v \in Version : active[v] => page[v] # 0

\* The row a run supersedes is a row of the page it is at, or deleted.
LockInv ==
    \A r \in Run : phase[r] = "tx" =>
        /\ at[r] \in Page
        /\ base[r] # 0 => base[r] <= last /\ page[base[r]] \in {0, at[r]}

\* A row keeps its page until it is deleted, and while a reconcile request is
\* under way only another reconciliation makes a row active that was there when
\* the request read.
SeenInv ==
    /\ DOMAIN seen = Request /\ DOMAIN crossed = Request
    /\ \A q \in Request : seen[q] # <<>> =>
          \A v \in Version : seen[q].page[v] # 0 =>
             /\ v <= last /\ page[v] \in {0, seen[q].page[v]}
             /\ active[v] /\ ~seen[q].active[v] => seen[q].page[v] \in crossed[q]

VersionInv == RowType /\ RowsInv /\ LockInv /\ SeenInv /\ OneActive

\* What PagesKeepActive says of a step.
PagesKept == \A p \in Page : ActiveAt(p) # {} => (ActiveAt(p) # {})' \/ Overtaken(p)

-----------------------------------------------------------------------------
\* What the INSERT of a version does: one new row, and at most one superseded.
LEMMA InsertVersion ==
  ASSUME VersionInv, NEW p \in Page, NEW ok \in BOOLEAN, NEW act \in BOOLEAN,
         NEW old \in Version \union {0}, insert_version(p, ok, act, old)
  PROVE  \E v \in Version :
            /\ v = last + 1 /\ last' = v /\ page[v] = 0 /\ ~active[v]
            /\ page' = [page EXCEPT ![v] = p]
            /\ active' \in [Version -> BOOLEAN]
            /\ active'[v] = act
            /\ \A w \in Version \ {v} : active'[w] <=> active[w] /\ w # old
<1> DEFINE v == last + 1
<1>1. v \in Version /\ page[v] = 0 /\ ~active[v]
  <2>1. v \in Version
    BY TranscriptionAssumption DEF insert_version, Version, VersionInv, RowType
  <2>2. ~(v <= last)
    BY DEF VersionInv, RowType
  <2> QED BY <2>1, <2>2 DEF VersionInv, RowsInv
<1>2. /\ last' = v /\ page' = [page EXCEPT ![v] = p]
      /\ active' = [w \in Version |-> IF w = v THEN act ELSE active[w] /\ w # old]
  BY DEF insert_version
<1> HIDE DEF v
<1>3. active' \in [Version -> BOOLEAN]
  BY <1>2 DEF VersionInv, RowType
<1>4. active'[v] = act /\ \A w \in Version \ {v} : active'[w] <=> active[w] /\ w # old
  BY <1>1, <1>2
<1> QED BY <1>1, <1>2, <1>3, <1>4 DEF v

LEMMA InsertType ==
  ASSUME VersionInv, NEW p \in Page, NEW ok \in BOOLEAN, NEW act \in BOOLEAN,
         NEW old \in Version \union {0}, insert_version(p, ok, act, old)
  PROVE  /\ page' \in [Version -> Page \union {0}]
         /\ active' \in [Version -> BOOLEAN]
         /\ last' \in 0..MaxVersions
<1>1. PICK v \in Version : /\ last' = v /\ page' = [page EXCEPT ![v] = p]
                           /\ active' \in [Version -> BOOLEAN]
  BY InsertVersion
<1> QED BY <1>1, TranscriptionAssumption DEF VersionInv, RowType, Version

\* Two candidates are of different pages.
LEMMA OneCandidate ==
  ASSUME NEW q \in Request, NEW v \in candidates(q), NEW w \in candidates(q),
         seen[q].page[v] = seen[q].page[w]
  PROVE  v = w
<1>1. v \in Version /\ w \in Version /\ v <= w /\ w <= v
  BY DEF candidates, waiting
<1> QED BY <1>1 DEF Version

\* A flush that finds room leaves at most one active row per page, and none
\* bare but the ones another reconciliation settled.
LEMMA FlushOneActive ==
  ASSUME VersionInv, NEW q \in Request, reconcile_flush(q)
  PROVE  VersionInv' /\ PagesKept
<1>1. PICK keep \in BOOLEAN, choice \in [candidates(q) -> {"old", "new", "edited", "undecided"}] :
       LET chosen  == {v \in candidates(q) : choice[v] # "undecided"}
           old     == UNION {old_active(q, seen[q].page[v]) : v \in chosen}
           dropped == (waiting(q) \ candidates(q)) \union (IF keep THEN {} ELSE old)
       IN
       /\ \A v \in chosen : makes_room(q, v, keep)
       /\ page' = [v \in Version |-> IF v \in dropped THEN 0 ELSE page[v]]
       /\ active' = [v \in Version |-> v \in chosen \/ (active[v] /\ v \notin old \union dropped)]
       /\ answered(q, {seen[q].page[v] : v \in chosen})
  BY DEF reconcile_flush
<1> DEFINE chosen  == {v \in candidates(q) : choice[v] # "undecided"}
           old     == UNION {old_active(q, seen[q].page[v]) : v \in chosen}
           dropped == (waiting(q) \ candidates(q)) \union (IF keep THEN {} ELSE old)
           settled == {seen[q].page[v] : v \in chosen}
<1>2. /\ \A v \in chosen : makes_room(q, v, keep)
      /\ page' = [v \in Version |-> IF v \in dropped THEN 0 ELSE page[v]]
      /\ active' = [v \in Version |-> v \in chosen \/ (active[v] /\ v \notin old \union dropped)]
      /\ answered(q, settled)
  BY <1>1
<1>3. seen[q] # <<>> /\ UNCHANGED <<last, phase, at, base, todo>>
  BY DEF reconcile_flush, runVars
<1>4. \A v \in chosen : /\ v \in Version /\ v \in candidates(q) /\ v \notin dropped
                        /\ seen[q].page[v] # 0 /\ page[v] = seen[q].page[v]
  <2> SUFFICES ASSUME NEW v \in chosen
               PROVE  /\ v \in Version /\ v \in candidates(q) /\ v \notin dropped
                      /\ seen[q].page[v] # 0 /\ page[v] = seen[q].page[v]
    OBVIOUS
  <2>1. v \in candidates(q) /\ v \in waiting(q) /\ v \in Version
    BY DEF candidates, waiting
  <2>2. seen[q].page[v] # 0 /\ ~seen[q].active[v]
    BY <2>1 DEF waiting
  <2>3. page[v] # 0
    BY <1>2 DEF makes_room
  <2>4. page[v] = seen[q].page[v]
    BY <1>3, <2>1, <2>2, <2>3 DEF VersionInv, SeenInv
  <2>5. v \notin old
    BY <2>2 DEF old_active
  <2> QED BY <2>1, <2>2, <2>4, <2>5
<1>5. \A v \in old : \E c \in chosen : v \in Version /\ seen[q].page[v] = seen[q].page[c]
  BY DEF old_active
<1>6. \A v \in dropped : v \notin old => v \in waiting(q)
  OBVIOUS
<1>7. settled = {seen[q].page[v] : v \in chosen}
  OBVIOUS
<1> HIDE DEF chosen, old, dropped, settled
<1>8. ASSUME NEW v \in chosen, NEW w \in Version, active'[w], page'[w] = page'[v]
      PROVE  w = v
  <2>1. v \in Version /\ page'[v] = page[v] /\ page[v] = seen[q].page[v] /\ page[v] # 0
    BY <1>2, <1>4
  <2>2. w \notin dropped /\ page[w] = page[v]
    BY <1>2, <1>8, <2>1
  <2>3. CASE w \in chosen
    <3>1. seen[q].page[w] = seen[q].page[v]
      BY <1>4, <2>1, <2>2, <2>3
    <3> QED BY <1>4, <2>3, <3>1, OneCandidate
  <2>4. CASE w \notin chosen
    <3>1. active[w] /\ w \notin old
      BY <1>2, <1>8, <2>4
    <3>2. w \in ActiveAt(seen[q].page[v]) \ {v}
      BY <2>1, <2>2, <2>4, <3>1 DEF ActiveAt
    <3>3. w \in old_active(q, seen[q].page[v])
      BY <1>2, <3>2 DEF makes_room
    <3>4. w \in old
      BY <3>3 DEF old
    <3> QED BY <3>1, <3>4
  <2> QED BY <2>3, <2>4
<1>9. ASSUME NEW v \in Version \ chosen, active'[v]
      PROVE  active[v] /\ page'[v] = page[v]
  BY <1>2, <1>9
<1>10. OneActive'
  <2> SUFFICES ASSUME NEW v \in Version, NEW w \in Version,
                      active'[v], active'[w], page'[v] = page'[w]
               PROVE  v = w
    BY DEF OneActive
  <2>1. CASE v \in chosen \/ w \in chosen
    BY <1>8, <2>1
  <2>2. CASE v \notin chosen /\ w \notin chosen
    BY <1>9, <2>2 DEF VersionInv, OneActive
  <2> QED BY <2>1, <2>2
<1>11. RowType'
  <2>1. page' \in [Version -> Page \union {0}]
    BY <1>2 DEF VersionInv, RowType
  <2>2. active' \in [Version -> BOOLEAN]
    BY <1>2 DEF VersionInv, RowType
  <2> QED BY <1>3, <2>1, <2>2 DEF VersionInv, RowType
<1>12. \A v \in Version : page'[v] \in {0, page[v]}
  BY <1>2
<1>13. RowsInv'
  <2>1. \A v \in Version : page'[v] # 0 => v <= last'
    BY <1>3, <1>12 DEF VersionInv, RowsInv
  <2>2. \A v \in Version : active'[v] => page'[v] # 0
    <3> TAKE v \in Version
    <3>1. CASE v \in chosen
      BY <1>2, <1>4, <3>1
    <3>2. CASE v \notin chosen
      BY <1>9, <3>2 DEF VersionInv, RowsInv
    <3> QED BY <3>1, <3>2
  <2> QED BY <2>1, <2>2 DEF RowsInv
<1>14. LockInv'
  BY <1>3, <1>12 DEF VersionInv, LockInv, RowType
<1>15. /\ DOMAIN seen' = Request /\ DOMAIN crossed' = Request /\ seen'[q] = <<>>
       /\ \A o \in Request \ {q} : /\ seen'[o] = seen[o]
                                   /\ seen[o] # <<>> => crossed'[o] = crossed[o] \union settled
  BY <1>2 DEF answered, VersionInv, SeenInv
<1>16. SeenInv'
  <2> SUFFICES ASSUME NEW o \in Request, seen'[o] # <<>>,
                      NEW v \in Version, seen'[o].page[v] # 0
               PROVE  /\ v <= last' /\ page'[v] \in {0, seen'[o].page[v]}
                      /\ active'[v] /\ ~seen'[o].active[v] => seen'[o].page[v] \in crossed'[o]
    BY <1>15 DEF SeenInv
  <2>1. o # q /\ seen'[o] = seen[o] /\ crossed'[o] = crossed[o] \union settled
    BY <1>15
  <2>2. v <= last' /\ page[v] \in {0, seen[o].page[v]}
    BY <1>3, <2>1 DEF VersionInv, SeenInv
  <2>3. ASSUME v \in chosen PROVE seen[o].page[v] \in settled
    <3>1. page[v] = seen[q].page[v] /\ page[v] # 0
      BY <1>4, <2>3
    <3> QED BY <1>7, <2>2, <2>3, <3>1
  <2>4. ASSUME active'[v], ~seen[o].active[v], v \notin chosen PROVE seen[o].page[v] \in crossed[o]
    <3>1. active[v]
      BY <1>9, <2>4
    <3> QED BY <2>1, <2>4, <3>1 DEF VersionInv, SeenInv
  <2> QED BY <1>12, <2>1, <2>2, <2>3, <2>4
<1>17. ASSUME NEW p \in Page, NEW a \in ActiveAt(p), p \notin crossed[q]
       PROVE  \E v \in Version : page'[v] = p /\ active'[v]
  <2>1. a \in Version /\ page[a] = p /\ active[a] /\ p # 0
    BY TranscriptionAssumption DEF ActiveAt
  <2>2. CASE a \in old
    <3>1. PICK c \in chosen : seen[q].page[a] = seen[q].page[c]
      BY <1>5, <2>2
    <3>2. c \in Version /\ page[a] = seen[q].page[a]
      BY <1>3, <1>4, <2>1, <3>1 DEF VersionInv, SeenInv
    <3>3. page'[c] = p /\ active'[c]
      BY <1>2, <1>4, <2>1, <3>1, <3>2
    <3> QED BY <3>2, <3>3
  <2>3. CASE a \notin old
    <3>1. a \notin dropped
      <4> SUFFICES ASSUME a \in waiting(q) PROVE FALSE
        BY <1>6, <2>3
      <4>1. seen[q].page[a] # 0 /\ ~seen[q].active[a]
        BY DEF waiting
      <4>2. seen[q].page[a] = p /\ seen[q].page[a] \in crossed[q]
        BY <1>3, <2>1, <4>1 DEF VersionInv, SeenInv
      <4> QED BY <1>17, <4>2
    <3> QED BY <1>2, <2>1, <2>3, <3>1
  <2> QED BY <2>2, <2>3
<1>18. PagesKept
  <2> SUFFICES ASSUME NEW p \in Page, ActiveAt(p) # {}, p \notin crossed[q]
               PROVE  (ActiveAt(p) # {})'
    BY <1>3, <1>15 DEF PagesKept, Overtaken
  <2> QED BY <1>17 DEF ActiveAt
<1> QED BY <1>10, <1>11, <1>13, <1>14, <1>16, <1>18 DEF VersionInv

\* An inserted version, active or not, leaves at most one active row per page.
LEMMA InsertOneActive ==
  ASSUME VersionInv, NEW p \in Page, NEW ok \in BOOLEAN, NEW act \in BOOLEAN,
         NEW old \in Version \union {0}, insert_version(p, ok, act, old),
         act => unique_active(p, old), old # 0 => page[old] \in {0, p},
         old # 0 => act,
         UNCHANGED seenVars,
         RowType',
         \A r \in Run : phase'[r] = "tx" => phase[r] = "tx" /\ at'[r] = at[r] /\ base'[r] = base[r]
  PROVE  VersionInv' /\ PagesKept
<1> USE TranscriptionAssumption
<1>1. PICK v \in Version :
            /\ v = last + 1 /\ last' = v /\ page[v] = 0 /\ ~active[v]
            /\ page' = [page EXCEPT ![v] = p]
            /\ active' \in [Version -> BOOLEAN]
            /\ active'[v] = act
            /\ \A w \in Version \ {v} : active'[w] <=> active[w] /\ w # old
  BY InsertVersion
<1>2. page'[v] = p /\ p # 0 /\ \A w \in Version \ {v} : page'[w] = page[w]
  BY <1>1 DEF VersionInv, RowType
<1>3. RowsInv'
  <2>1. \A w \in Version : page'[w] # 0 => w <= last'
    BY <1>1, <1>2 DEF VersionInv, RowsInv, RowType, Version
  <2>2. \A w \in Version : active'[w] => page'[w] # 0
    BY <1>1, <1>2 DEF VersionInv, RowsInv
  <2> QED BY <2>1, <2>2 DEF RowsInv
<1>4. LockInv'
  <2> SUFFICES ASSUME NEW r \in Run, phase'[r] = "tx"
               PROVE  /\ at'[r] \in Page
                      /\ base'[r] # 0 => base'[r] <= last' /\ page'[base'[r]] \in {0, at'[r]}
    BY DEF LockInv
  <2>1. at'[r] = at[r] /\ base'[r] = base[r] /\ at[r] \in Page
    BY DEF VersionInv, LockInv
  <2>2. ASSUME base[r] # 0
        PROVE  base[r] <= last' /\ page'[base[r]] \in {0, at[r]}
    <3>1. base[r] \in Version /\ base[r] <= last /\ page[base[r]] \in {0, at[r]}
      BY <2>2 DEF VersionInv, LockInv, RowType
    <3>2. base[r] # v /\ base[r] <= last'
      BY <1>1, <3>1 DEF Version, VersionInv, RowType
    <3> QED BY <1>2, <3>1, <3>2
  <2> QED BY <2>1, <2>2
<1>5. SeenInv'
  <2>1. UNCHANGED <<seen, crossed>>
    BY DEF seenVars
  <2> SUFFICES ASSUME NEW o \in Request, seen[o] # <<>>,
                      NEW w \in Version, seen[o].page[w] # 0
               PROVE  /\ w <= last' /\ page'[w] \in {0, seen[o].page[w]}
                      /\ active'[w] /\ ~seen[o].active[w] => seen[o].page[w] \in crossed[o]
    BY <2>1 DEF VersionInv, SeenInv
  <2>2. w <= last
    BY DEF VersionInv, SeenInv
  <2>3. w # v /\ w <= last'
    BY <1>1, <2>2 DEF VersionInv, RowType, Version
  <2>4. page'[w] = page[w] /\ (active'[w] => active[w])
    BY <1>1, <1>2, <2>3
  <2> QED BY <2>3, <2>4 DEF VersionInv, SeenInv
<1>6. OneActive'
  <2> SUFFICES ASSUME NEW w \in Version, NEW x \in Version,
                      active'[w], active'[x], page'[w] = page'[x]
               PROVE  w = x
    BY DEF OneActive
  <2>1. ASSUME NEW y \in Version \ {v}, active'[y], page'[y] = p, act
        PROVE  FALSE
    <3>1. active[y] /\ y # old /\ page[y] = p
      BY <1>1, <1>2, <2>1
    <3>2. y \in ActiveAt(p)
      BY <3>1 DEF ActiveAt
    <3> QED BY <2>1, <3>1, <3>2 DEF unique_active
  <2>2. CASE w = v \/ x = v
    <3>1. act
      BY <1>1, <2>2
    <3> QED BY <1>2, <2>1, <2>2, <3>1
  <2>3. CASE w # v /\ x # v
    BY <1>1, <1>2, <2>3 DEF VersionInv, OneActive
  <2> QED BY <2>2, <2>3
<1>7. ASSUME NEW q \in Page, NEW a \in ActiveAt(q)
      PROVE  \E w \in Version : page'[w] = q /\ active'[w]
  <2>1. a \in Version /\ page[a] = q /\ active[a] /\ a # v /\ q # 0
    BY <1>1 DEF ActiveAt
  <2>2. CASE a = old
    BY <1>1, <1>2, <2>1, <2>2 DEF Version
  <2>3. CASE a # old
    BY <1>1, <1>2, <2>1, <2>3
  <2> QED BY <2>2, <2>3
<1>8. PagesKept
  BY <1>7 DEF ActiveAt, PagesKept
<1> QED BY <1>3, <1>4, <1>5, <1>6, <1>8 DEF VersionInv

\* No step breaks the invariant, and none leaves a page without the active
\* transcription it had.
LEMMA VersionStep == VersionInv /\ [Next]_vars => VersionInv' /\ PagesKept
<1> SUFFICES ASSUME VersionInv, [Next]_vars
             PROVE  VersionInv' /\ PagesKept
  OBVIOUS
<1> DEFINE Goal == VersionInv' /\ PagesKept
<1>1. ASSUME UNCHANGED <<page, active, last>>, RowType', LockInv', SeenInv'
      PROVE  Goal
  BY <1>1 DEF VersionInv, RowsInv, OneActive, ActiveAt, PagesKept
<1>2. ASSUME UNCHANGED <<page, active, last, phase, at, base, todo>>, SeenInv'
      PROVE  Goal
  BY <1>1, <1>2 DEF VersionInv, RowType, LockInv
<1>s. ASSUME UNCHANGED <<page, active, last, seenVars>> PROVE SeenInv'
  BY <1>s DEF VersionInv, SeenInv, seenVars
<1>3. ASSUME UNCHANGED <<page, active, last, phase, at, base, todo, seenVars>>
      PROVE  Goal
  BY <1>2, <1>3, <1>s
<1>4. ASSUME NEW r \in Run, forget(r), UNCHANGED <<page, active, last, seenVars>>
      PROVE  Goal
  <2>1. RowType'
    BY <1>4 DEF forget, VersionInv, RowType
  <2>2. LockInv'
    BY <1>4 DEF forget, VersionInv, RowType, LockInv
  <2> QED BY <1>1, <1>4, <1>s, <2>1, <2>2
<1> USE DEF rowVars, runVars, embedVars
<1>5. ASSUME NEW r \in Run, transcribe_document(r)
      PROVE  Goal
  <2>1. RowType' /\ LockInv'
    BY <1>5 DEF transcribe_document, VersionInv, RowType, LockInv
  <2>2. SeenInv'
    BY <1>5, <1>s DEF transcribe_document
  <2> QED BY <1>1, <1>5, <2>1, <2>2 DEF transcribe_document
<1>6. ASSUME NEW r \in Run, supersede(r)
      PROVE  Goal
  <2>0. PICK p \in todo[r] :
          /\ at' = [at EXCEPT ![r] = p]
          /\ \E v \in ActiveAt(p) \union {0} : base' = [base EXCEPT ![r] = v]
    BY <1>6 DEF supersede
  <2>1. PICK v \in ActiveAt(p) \union {0} : base' = [base EXCEPT ![r] = v]
    BY <2>0
  <2>2. /\ phase' = [phase EXCEPT ![r] = "tx"]
        /\ UNCHANGED <<page, active, last, todo, seenVars>>
    BY <1>6 DEF supersede
  <2>3. p \in Page /\ v \in Version \union {0} /\ (v # 0 => page[v] = p /\ v <= last)
    BY TranscriptionAssumption DEF VersionInv, RowType, RowsInv, ActiveAt
  <2>4. RowType'
    BY <2>0, <2>1, <2>2, <2>3 DEF VersionInv, RowType
  <2>5. LockInv'
    BY <2>0, <2>1, <2>2, <2>3 DEF VersionInv, RowType, LockInv
  <2>6. SeenInv'
    BY <1>s, <2>2
  <2> QED BY <1>1, <2>2, <2>4, <2>5, <2>6
<1>7. ASSUME NEW r \in Run, commit_active(r)
      PROVE  Goal
  <2>1. CASE forget(r) /\ UNCHANGED rowVars
    BY <1>4, <1>7, <2>1 DEF commit_active
  <2>2. CASE /\ unique_active(at[r], base[r])
             /\ insert_version(at[r], TRUE, TRUE, base[r])
             /\ phase' = [phase EXCEPT ![r] = "ready"]
             /\ at' = [at EXCEPT ![r] = 0]
             /\ base' = [base EXCEPT ![r] = 0]
             /\ todo' = [todo EXCEPT ![r] = @ \ {at[r]}]
    <3>1. /\ at[r] \in Page /\ base[r] \in Version \union {0}
          /\ base[r] # 0 => page[base[r]] \in {0, at[r]}
      BY <1>7 DEF commit_active, VersionInv, LockInv, RowType
    <3>2. RowType'
      <4>1. /\ page' \in [Version -> Page \union {0}]
            /\ active' \in [Version -> BOOLEAN]
            /\ last' \in 0..MaxVersions
        BY <2>2, <3>1, InsertType
      <4> QED BY <2>2, <4>1 DEF VersionInv, RowType
    <3>3. UNCHANGED seenVars
      BY <1>7 DEF commit_active
    <3>4. \A i \in Run : phase'[i] = "tx" => phase[i] = "tx" /\ at'[i] = at[i] /\ base'[i] = base[i]
      BY <2>2 DEF VersionInv, RowType
    <3> QED BY <2>2, <3>1, <3>2, <3>3, <3>4, InsertOneActive
  <2> QED BY <1>7, <2>1, <2>2 DEF commit_active
<1>8. ASSUME NEW r \in Run, commit_inactive(r)
      PROVE  Goal
  <2>1. PICK p \in todo[r], ok \in BOOLEAN :
          insert_version(p, ok, FALSE, 0) /\ todo' = [todo EXCEPT ![r] = @ \ {p}]
    BY <1>8 DEF commit_inactive
  <2>2. p \in Page /\ UNCHANGED <<phase, at, base, seenVars>>
    BY <1>8 DEF commit_inactive, VersionInv, RowType
  <2>3. RowType'
    <3>1. /\ page' \in [Version -> Page \union {0}]
          /\ active' \in [Version -> BOOLEAN]
          /\ last' \in 0..MaxVersions
      BY <2>1, <2>2, InsertType
    <3> QED BY <2>1, <2>2, <3>1 DEF VersionInv, RowType
  <2> QED BY <2>1, <2>2, <2>3, InsertOneActive
<1>9. ASSUME NEW r \in Run, end_run(r)
      PROVE  Goal
  BY <1>4, <1>9 DEF end_run
<1>10. ASSUME NEW v \in Version, correct_text(v)
       PROVE  Goal
  BY <1>3, <1>10 DEF correct_text
<1>11. ASSUME NEW q \in Request, reconcile_versions(q)
       PROVE  Goal
  <2>1. SeenInv'
    <3> DEFINE rows == [page |-> page, active |-> active, status |-> status, text |-> text, vec |-> vec]
    <3>1. seen' = [seen EXCEPT ![q] = rows] /\ UNCHANGED <<page, active, last, crossed>>
      BY <1>11 DEF reconcile_versions
    <3>2. rows.page = page /\ rows.active = active
      OBVIOUS
    <3> HIDE DEF rows
    <3>3. \A v \in Version : page[v] # 0 => v <= last
      BY DEF VersionInv, RowsInv
    <3> QED BY <3>1, <3>2, <3>3 DEF VersionInv, SeenInv
  <2> QED BY <1>2, <1>11, <2>1 DEF reconcile_versions
<1>12. ASSUME NEW q \in Request, reconcile_flush(q)
       PROVE  Goal
  BY <1>12, FlushOneActive
<1>13. ASSUME NEW q \in Request, reconcile_refused(q)
       PROVE  Goal
  <2>1. UNCHANGED <<page, active, last, phase, at, base, todo>> /\ answered(q, {})
    BY <1>13 DEF reconcile_refused
  <2>2. /\ DOMAIN seen' = Request /\ DOMAIN crossed' = Request /\ seen'[q] = <<>>
        /\ \A o \in Request \ {q} : seen'[o] = seen[o] /\ (seen[o] # <<>> => crossed[o] \subseteq crossed'[o])
    BY <2>1 DEF answered, VersionInv, SeenInv
  <2>3. SeenInv'
    BY <2>1, <2>2 DEF VersionInv, SeenInv
  <2> QED BY <1>2, <2>1, <2>3
<1>14. CASE ask_embed
  BY <1>3, <1>14 DEF ask_embed
<1>15. ASSUME NEW e \in Embed, embed_document(e) \/ store_vectors(e) \/ fail_embed(e)
       PROVE  Goal
  BY <1>3, <1>15 DEF embed_document, store_vectors, fail_embed
<1>16. CASE UNCHANGED vars
  BY <1>3, <1>16 DEF vars
<1> QED
  BY <1>5, <1>6, <1>7, <1>8, <1>9, <1>10, <1>11, <1>12, <1>13, <1>14, <1>15, <1>16 DEF Next

LEMMA InitInv == Init => VersionInv
BY TranscriptionAssumption
   DEF Init, VersionInv, RowType, RowsInv, LockInv, SeenInv, OneActive

\* "Exactly one row per (document, page) is active": never two, however many
\* runs, redeliveries, corrections and reconciliations overlap.
THEOREM AtMostOneActive == Spec => []OneActive
<1>1. VersionInv => OneActive
  BY DEF VersionInv
<1>2. VersionInv /\ [Next]_vars => VersionInv'
  BY VersionStep
<1> QED BY <1>1, <1>2, InitInv, PTL DEF Spec

\* A page that has an active transcription keeps one, for any number of runs and
\* requests: neither a run that dies, nor two that race, nor a reconciliation
\* leaves it bare -- but one that another reconciliation of the page overtook.
THEOREM ActivePagesStayActive == Spec => PagesKeepActive
<1>1. VersionInv /\ [Next]_vars =>
        /\ VersionInv'
        /\ [\A p \in Page : ActiveAt(p) # {} => (ActiveAt(p) # {})' \/ Overtaken(p)]_vars
  BY VersionStep DEF PagesKept
<1> QED BY <1>1, InitInv, PTL DEF Spec, PagesKeepActive

-----------------------------------------------------------------------------
(* What people can read                                                    *)

\* A new text has a number of its own, and that is never the 0 of NULL.
TextInv == texts \in Nat /\ DOMAIN text = Version

\* A row that can be read before and after the step, or one that takes its place.
StaysReadable == \A p \in Page : Readable(p) /\ seen' = seen => Readable(p)'

LEMMA SameRowsReadable ==
  UNCHANGED <<page, active, text>> => StaysReadable
BY DEF StaysReadable, Readable, ActiveAt

LEMMA TextStep == VersionInv /\ TextInv /\ [Next]_vars => TextInv' /\ StaysReadable
<1> SUFFICES ASSUME VersionInv, TextInv, [Next]_vars PROVE TextInv' /\ StaysReadable
  OBVIOUS
<1> USE DEF rowVars, runVars, embedVars
<1>1. ASSUME UNCHANGED <<page, active, text, texts>> PROVE TextInv' /\ StaysReadable
  BY <1>1, SameRowsReadable DEF TextInv
<1>2. ASSUME NEW p \in Page, NEW ok \in BOOLEAN, NEW act \in BOOLEAN,
             NEW old \in Version \union {0}, insert_version(p, ok, act, old),
             old # 0 => act /\ ok /\ page[old] \in {0, p}
      PROVE  TextInv' /\ StaysReadable
  <2>1. PICK v \in Version :
            /\ v = last + 1 /\ last' = v /\ page[v] = 0 /\ ~active[v]
            /\ page' = [page EXCEPT ![v] = p]
            /\ active'[v] = act
            /\ \A w \in Version \ {v} : active'[w] <=> active[w] /\ w # old
    BY <1>2, InsertVersion
  <2>2. /\ text' = [text EXCEPT ![v] = IF ok THEN texts + 1 ELSE 0]
        /\ texts' = IF ok THEN texts + 1 ELSE texts
    BY <1>2, <2>1 DEF insert_version
  <2>3. TextInv'
    BY <2>2 DEF TextInv
  <2>4. ASSUME NEW q \in Page, NEW a \in Version, page[a] = q, active[a], text[a] # 0
        PROVE  \E w \in Version : page'[w] = q /\ active'[w] /\ text'[w] # 0
    <3>1. a # v
      BY <2>1, <2>4
    <3>2. CASE a = old
      <4>1. act /\ ok /\ q = p
        BY <1>2, <2>4, <3>2, TranscriptionAssumption DEF Version
      <4>2. page'[v] = p /\ active'[v] /\ text'[v] # 0
        BY <2>1, <2>2, <4>1 DEF VersionInv, RowType, TextInv
      <4> QED BY <4>1, <4>2
    <3>3. CASE a # old
      BY <2>1, <2>2, <2>4, <3>1, <3>3 DEF VersionInv, RowType, TextInv
    <3> QED BY <3>2, <3>3
  <2> QED BY <2>3, <2>4 DEF StaysReadable, Readable, ActiveAt
<1>3. ASSUME NEW r \in Run, commit_active(r) PROVE TextInv' /\ StaysReadable
  <2>1. CASE UNCHANGED rowVars
    BY <1>1, <2>1
  <2>2. CASE insert_version(at[r], TRUE, TRUE, base[r])
    <3>1. /\ at[r] \in Page /\ base[r] \in Version \union {0}
          /\ base[r] # 0 => page[base[r]] \in {0, at[r]}
      BY <1>3 DEF commit_active, VersionInv, LockInv, RowType
    <3> QED BY <1>2, <2>2, <3>1
  <2> QED BY <1>3, <2>1, <2>2 DEF commit_active
<1>4. ASSUME NEW r \in Run, commit_inactive(r) PROVE TextInv' /\ StaysReadable
  <2>1. PICK p \in todo[r], ok \in BOOLEAN : insert_version(p, ok, FALSE, 0)
    BY <1>4 DEF commit_inactive
  <2>2. p \in Page
    BY DEF VersionInv, RowType
  <2> QED BY <1>2, <2>1, <2>2
<1>5. ASSUME NEW v \in Version, correct_text(v) PROVE TextInv' /\ StaysReadable
  <2>1. /\ texts' = texts + 1 /\ text' = [text EXCEPT ![v] = texts + 1]
        /\ UNCHANGED <<page, active>>
    BY <1>5 DEF correct_text
  <2> QED BY <2>1 DEF TextInv, StaysReadable, Readable, ActiveAt
<1>6. ASSUME NEW q \in Request, reconcile_flush(q) PROVE TextInv' /\ StaysReadable
  <2>1. PICK keep \in BOOLEAN, choice \in [candidates(q) -> {"old", "new", "edited", "undecided"}] :
       LET chosen  == {v \in candidates(q) : choice[v] # "undecided"}
           edits   == \E v \in chosen : choice[v] = "edited"
       IN
       /\ texts' = IF edits THEN texts + 1 ELSE texts
       /\ text' = [v \in Version |->
             IF v \in chosen /\ final(q, v, choice[v]) # seen[q].text[v]
             THEN final(q, v, choice[v]) ELSE text[v]]
       /\ answered(q, {seen[q].page[v] : v \in chosen})
    BY <1>6 DEF reconcile_flush
  <2>2. texts' \in Nat /\ DOMAIN text' = Version
    BY <2>1 DEF TextInv
  <2>3. seen'[q] = <<>>
    BY <2>1 DEF answered, VersionInv, SeenInv
  <2>4. seen[q] # <<>>
    BY <1>6 DEF reconcile_flush
  <2> QED BY <2>2, <2>3, <2>4 DEF TextInv, StaysReadable
<1>7. ASSUME NEW r \in Run, transcribe_document(r) \/ supersede(r) \/ end_run(r)
      PROVE  TextInv' /\ StaysReadable
  BY <1>1, <1>7 DEF transcribe_document, supersede, end_run
<1>8. CASE ask_embed \/ UNCHANGED vars
  BY <1>1, <1>8 DEF ask_embed, vars
<1>10. ASSUME NEW q \in Request, reconcile_versions(q) \/ reconcile_refused(q)
       PROVE  TextInv' /\ StaysReadable
  BY <1>1, <1>10 DEF reconcile_versions, reconcile_refused
<1>9. ASSUME NEW e \in Embed, embed_document(e) \/ store_vectors(e) \/ fail_embed(e)
      PROVE  TextInv' /\ StaysReadable
  BY <1>1, <1>9 DEF embed_document, store_vectors, fail_embed
<1> QED BY <1>3, <1>4, <1>5, <1>6, <1>7, <1>8, <1>9, <1>10 DEF Next

\* However runs end, fail or overlap, a page people can read stays readable until somebody
\* reconciles it: a transient failure never wipes a good transcription.
THEOREM ReadablePagesStay == Spec => RunsNeverWipe
<1>1. VersionInv /\ TextInv /\ [Next]_vars =>
        /\ VersionInv' /\ TextInv'
        /\ [\A p \in Page : Readable(p) /\ seen' = seen => Readable(p)']_vars
  BY VersionStep, TextStep DEF StaysReadable
<1>2. Init => TextInv
  BY DEF Init, TextInv
<1> QED BY <1>1, <1>2, InitInv, PTL DEF Spec, RunsNeverWipe
=============================================================================
