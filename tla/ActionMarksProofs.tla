--------------------------- MODULE ActionMarksProofs ---------------------------
(****************************************************************************)
(* Proofs about the pending-action store, for every number of accounts,     *)
(* messages, drafts and markers, every limit and every TTL.                 *)
(****************************************************************************)
EXTENDS ActionMarks, TLAPS, FiniteSetTheorems

\* Every mark in the map carries what its marker was issued for.
MarksIssued ==
    \A k \in DOMAIN marks :
        LET i == marks[k].id
        IN  /\ i \in DOMAIN issued
            /\ issued[i].subject = k[1]
            /\ issued[i].message = k[2]
            /\ issued[i].draft = marks[k].draft
            /\ issued[i].kind = marks[k].kind
            /\ issued[i].at + TTL = marks[k].expires_at
            /\ issued[i].at <= now

\* A marker names one slot.
IdsUnique == \A k, j \in DOMAIN marks : marks[k].id = marks[j].id => k = j

\* A consumed marker is never pending again.
SpentExecuting == \A k \in DOMAIN marks : marks[k].id \in spent => marks[k].executing

SerialBound == \A i \in DOMAIN issued : issued[i].serial < NextSerial

FiniteWithinLimit == IsFiniteSet(DOMAIN marks) /\ WithinLimit

\* The inductive invariant.
IInv ==
    /\ TypeOK
    /\ MarksIssued
    /\ IdsUnique
    /\ SpentExecuting
    /\ SerialBound
    /\ FiniteWithinLimit
    /\ DraftSlotExclusive
    /\ HeldIsExecuting
    /\ HeldAuthorised
    /\ LatestMarkWins

\* What Replace does to the map and to the history, without its CHOOSE.
Inserted(s, rs, kind, id) ==
    /\ \A k : k \in DOMAIN marks' <=>
               k \in Retained \ Overlapping(s, rs) \/ \E r \in rs : k = <<s, r.message>>
    /\ \A k \in Retained \ Overlapping(s, rs) :
          marks'[k] = marks[k] /\ \A r \in rs : k # <<s, r.message>>
    /\ \A r \in rs : marks'[<<s, r.message>>] = NewMark(r, kind, id[r])
    /\ marks' = [k \in DOMAIN marks' |-> marks'[k]]

Recorded(s, rs, kind, id) ==
    /\ \A i : i \in DOMAIN issued' <=> i \in DOMAIN issued \/ \E r \in rs : i = id[r]
    /\ \A i \in DOMAIN issued : issued'[i] = issued[i]
    /\ \A r \in rs :
          /\ id[r] \notin DOMAIN issued
          /\ issued'[id[r]] = [subject |-> s, message |-> r.message, draft |-> r.draft,
                               kind |-> kind, at |-> now, serial |-> NextSerial]
          /\ \A q \in rs : r # q => id[r] # id[q] /\ r.message # q.message
    /\ issued' = [i \in DOMAIN issued' |-> issued'[i]]

\* What Replace does to the map, entry by entry, and to the record of what was issued.
LEMMA ReplaceEffect ==
  ASSUME NEW s \in Subjects, NEW kind \in Kinds, NEW rs \in Requests(kind),
         NEW id \in FreshIds(rs), Distinct(rs), Replace(s, rs, kind, id)
  PROVE  Inserted(s, rs, kind, id) /\ Recorded(s, rs, kind, id)
PROOF
  <1> DEFINE new == {<<s, r.message>> : r \in rs}
             keep == Retained \ Overlapping(s, rs)
             at(k) == CHOOSE r \in rs : r.message = k[2]
             who(i) == CHOOSE q \in rs : id[q] = i
  <1>1. marks' = [k \in keep \cup new |->
                    IF k \in new THEN NewMark(at(k), kind, id[at(k)]) ELSE marks[k]]
    BY DEF Replace
  <1>2. issued' = [i \in DOMAIN issued \cup {id[r] : r \in rs} |->
                    IF i \in DOMAIN issued THEN issued[i]
                    ELSE [subject |-> s, message |-> who(i).message, draft |-> who(i).draft,
                          kind |-> kind, at |-> now, serial |-> NextSerial]]
    BY DEF Replace
  <1>3. \A r \in rs : at(<<s, r.message>>) = r
    <2>1. SUFFICES ASSUME NEW r \in rs PROVE at(<<s, r.message>>) = r
      OBVIOUS
    <2>2. \A q \in rs : q.message = r.message => q = r
      BY DEF Distinct
    <2>3. \E q \in rs : q.message = <<s, r.message>>[2]
      OBVIOUS
    <2>4. at(<<s, r.message>>) \in rs /\ at(<<s, r.message>>).message = <<s, r.message>>[2]
      BY <2>3
    <2>5. QED
      BY <2>2, <2>4
  <1>4. \A r \in rs : who(id[r]) = r
    <2>1. SUFFICES ASSUME NEW r \in rs PROVE who(id[r]) = r
      OBVIOUS
    <2>2. who(id[r]) \in rs /\ id[who(id[r])] = id[r]
      OBVIOUS
    <2>3. QED
      BY <2>2 DEF FreshIds
  <1>5. \A r \in rs : id[r] \in MarkerIds /\ id[r] \notin DOMAIN issued
    BY DEF FreshIds
  <1>6. \A k \in keep : \A r \in rs : k # <<s, r.message>>
    BY DEF Overlapping, SameResource
  <1>7. \A r, q \in rs : r # q => id[r] # id[q] /\ r.message # q.message
    BY DEF FreshIds, Distinct
  <1> HIDE DEF keep, at, who
  <1>8. DOMAIN marks' = keep \cup new /\ marks' = [k \in DOMAIN marks' |-> marks'[k]]
    BY <1>1
  <1>9. \A k \in keep : marks'[k] = marks[k]
    BY <1>1, <1>6
  <1>10. \A r \in rs : marks'[<<s, r.message>>] = NewMark(r, kind, id[r])
    BY <1>1, <1>3
  <1>11. DOMAIN issued' = DOMAIN issued \cup {id[r] : r \in rs}
         /\ issued' = [i \in DOMAIN issued' |-> issued'[i]]
    BY <1>2
  <1>12. \A i \in DOMAIN issued : issued'[i] = issued[i]
    BY <1>2
  <1>13. \A r \in rs : issued'[id[r]] = [subject |-> s, message |-> r.message, draft |-> r.draft,
                                    kind |-> kind, at |-> now, serial |-> NextSerial]
    BY <1>2, <1>4, <1>5
  <1>14. QED
    BY <1>5, <1>6, <1>7, <1>8, <1>9, <1>10, <1>11, <1>12, <1>13 DEF keep, Inserted, Recorded

\* Two disjoint finite sets together have as many elements as the two.
LEMMA DisjointUnion ==
  ASSUME NEW S, NEW T, IsFiniteSet(S), IsFiniteSet(T)
  PROVE  /\ IsFiniteSet(S \cup T)
         /\ S \cap T = {} => Cardinality(S \cup T) = Cardinality(S) + Cardinality(T)
PROOF
  <1>1. /\ IsFiniteSet(S \cup T)
        /\ Cardinality(S \cup T) = Cardinality(S) + Cardinality(T) - Cardinality(S \cap T)
    BY FS_Union
  <1>2. Cardinality(S) \in Nat /\ Cardinality(T) \in Nat
    BY FS_CardinalityType
  <1>3. S \cap T = {} => Cardinality(S \cap T) = 0
    BY FS_EmptySet
  <1>4. QED
    BY <1>1, <1>2, <1>3

\* The image of a finite set under a function is finite and no larger.
LEMMA ImageBound ==
  ASSUME NEW S, IsFiniteSet(S), NEW f, DOMAIN f = S, f = [x \in S |-> f[x]]
  PROVE  /\ IsFiniteSet({f[x] : x \in S})
         /\ Cardinality({f[x] : x \in S}) <= Cardinality(S)
PROOF
  <1> DEFINE T == {f[x] : x \in S}
  <1>1. f \in Surjection(S, T)
    BY DEF Surjection
  <1>2. QED
    BY <1>1, FS_Surjection

\* A registration that passed its checks preserves the inductive invariant.
LEMMA ReplacePreserves ==
  ASSUME NEW s \in Subjects, NEW kind \in Kinds, NEW rs \in Requests(kind),
         NEW id \in FreshIds(rs), Distinct(rs), Replace(s, rs, kind, id), IInv,
         ~InProgress(s, rs),
         Cardinality(Retained \ Overlapping(s, rs)) + Cardinality(rs) <= MaxMarks
  PROVE  IInv'
PROOF
  <1> DEFINE keep == Retained \ Overlapping(s, rs)
             key(r) == <<s, r.message>>
  <1>0. /\ TypeOK /\ MarksIssued /\ IdsUnique /\ SpentExecuting /\ SerialBound
        /\ FiniteWithinLimit /\ DraftSlotExclusive /\ HeldIsExecuting
        /\ HeldAuthorised /\ LatestMarkWins
    BY DEF IInv
  <1>1. Inserted(s, rs, kind, id) /\ Recorded(s, rs, kind, id)
    BY ReplaceEffect
  <1>2a. \A k : k \in DOMAIN marks' <=> k \in keep \/ \E r \in rs : k = key(r)
    BY <1>1 DEF Inserted
  <1>2b. \A k \in keep : marks'[k] = marks[k] /\ \A r \in rs : k # key(r)
    BY <1>1 DEF Inserted
  <1>2c. \A r \in rs : marks'[key(r)] = NewMark(r, kind, id[r])
    BY <1>1 DEF Inserted
  <1>2d. marks' = [k \in DOMAIN marks' |-> marks'[k]]
    BY <1>1 DEF Inserted
  <1>3a. \A i : i \in DOMAIN issued' <=> i \in DOMAIN issued \/ \E r \in rs : i = id[r]
    BY <1>1 DEF Recorded
  <1>3b. \A i \in DOMAIN issued : issued'[i] = issued[i]
    BY <1>1 DEF Recorded
  <1>3c. \A r \in rs : id[r] \notin DOMAIN issued
    BY <1>1 DEF Recorded
  <1>3d. \A r, q \in rs : r # q => id[r] # id[q] /\ r.message # q.message
    BY <1>1 DEF Recorded
  <1>3e. \A r \in rs :
           issued'[id[r]] = [subject |-> s, message |-> r.message, draft |-> r.draft,
                             kind |-> kind, at |-> now, serial |-> NextSerial]
    BY <1>1 DEF Recorded
  <1>3f. issued' = [i \in DOMAIN issued' |-> issued'[i]]
    BY <1>1 DEF Recorded
  <1>3g. \A r \in rs : /\ issued'[id[r]].subject = s
                       /\ issued'[id[r]].message = r.message
                       /\ issued'[id[r]].draft = r.draft
                       /\ issued'[id[r]].kind = kind
                       /\ issued'[id[r]].at = now
                       /\ issued'[id[r]].serial = NextSerial
    <2>1. TAKE r \in rs
    <2>2. issued'[id[r]] = [subject |-> s, message |-> r.message, draft |-> r.draft,
                            kind |-> kind, at |-> now, serial |-> NextSerial]
      BY <1>3e
    <2>3. QED
      BY <2>2
  <1>4. UNCHANGED <<now, held, spent>>
    BY DEF Replace
  <1>5. \A r \in rs : /\ r.message \in Messages
                      /\ r.draft \in Drafts \cup {NoDraft}
                      /\ id[r] \in MarkerIds
    BY DEF Requests, Resources, FreshIds
  <1>6. IsFiniteSet(rs) /\ Cardinality(rs) \in Nat
    BY FS_CardinalityType DEF Requests
  <1>7. keep \subseteq DOMAIN marks
    BY DEF Retained
  <1>8. IsFiniteSet({id[r] : r \in rs})
    BY <1>6, ImageBound DEF FreshIds
  <1>9. IsFiniteSet(DOMAIN issued') /\ DOMAIN issued' \subseteq MarkerIds
    <2>1. DOMAIN issued' = DOMAIN issued \cup {id[r] : r \in rs}
      BY <1>3a
    <2>2. IsFiniteSet(DOMAIN issued')
      <3>1. IsFiniteSet(DOMAIN issued)
        BY <1>0 DEF TypeOK
      <3>2. IsFiniteSet(DOMAIN issued \cup {id[r] : r \in rs})
        BY <1>8, <3>1, DisjointUnion
      <3>3. QED
        BY <2>1, <3>2
    <2>3. QED
      BY <1>0, <1>3a, <1>5, <2>2 DEF TypeOK
  <1>10. NextSerial \in Nat /\ NextSerial' \in Nat /\ NextSerial < NextSerial'
    <2>1. IsFiniteSet(DOMAIN issued)
      BY <1>0 DEF TypeOK
    <2>2. PICK r \in rs : TRUE
      BY DEF Requests
    <2>3. DOMAIN issued \subseteq DOMAIN issued' /\ DOMAIN issued # DOMAIN issued'
      BY <1>3a, <1>3c, <2>2
    <2>4. Cardinality(DOMAIN issued) \in Nat /\ Cardinality(DOMAIN issued') \in Nat
      BY <2>1, <1>9, FS_CardinalityType
    <2>5. /\ Cardinality(DOMAIN issued) <= Cardinality(DOMAIN issued')
          /\ Cardinality(DOMAIN issued') = Cardinality(DOMAIN issued)
                => DOMAIN issued' = DOMAIN issued
      BY <1>9, <2>3, FS_Subset
    <2>6. QED
      BY <2>3, <2>4, <2>5 DEF NextSerial
  <1>11. \A k \in keep : \A r \in rs : ~SameResource(k, s, r)
    BY DEF Overlapping
  <1>12. \A h \in held : h.key \in keep
    <2>1. SUFFICES ASSUME NEW h \in held PROVE h.key \in keep
      OBVIOUS
    <2>2. h.key \in Retained /\ marks[h.key].executing
      BY <1>0 DEF HeldIsExecuting, Retained
    <2>3. QED
      BY <2>2 DEF InProgress
  <1>13. Cardinality(keep) + Cardinality(rs) <= MaxMarks
    OBVIOUS
  <1>14. now \in Nat /\ TTL \in Nat /\ MaxMarks \in Nat
    BY <1>0, ActionMarksAssumption DEF TypeOK
  <1> HIDE DEF keep
  <1>20. TypeOK'
    <2>1. DOMAIN marks' \subseteq Keys
      BY <1>0, <1>2a, <1>5, <1>7 DEF TypeOK, Keys
    <2>2. \A r \in rs : NewMark(r, kind, id[r]) \in Mark
      BY <1>5, <1>14 DEF NewMark, Mark
    <2>3. \A k \in DOMAIN marks' : marks'[k] \in Mark
      BY <1>0, <1>2a, <1>2b, <1>2c, <1>7, <2>2 DEF TypeOK
    <2>4. \A i \in DOMAIN issued' : issued'[i] \in Issue
      <3>1. \A r \in rs : issued'[id[r]] \in Issue
        <4>1. TAKE r \in rs
        <4>2. issued'[id[r]] = [subject |-> s, message |-> r.message, draft |-> r.draft,
                                kind |-> kind, at |-> now, serial |-> NextSerial]
          BY <1>3e
        <4>3. r.message \in Messages /\ r.draft \in Drafts \cup {NoDraft}
          BY <1>5
        <4>4. QED
          BY <1>10, <1>14, <4>2, <4>3 DEF Issue
      <3>2. QED
        BY <1>0, <1>3a, <1>3b, <3>1 DEF TypeOK
    <2>5. spent' \subseteq DOMAIN issued'
      BY <1>0, <1>3a, <1>4 DEF TypeOK
    <2>6. now' \in Nat /\ held' \subseteq Handle
      BY <1>0, <1>4 DEF TypeOK
    <2>7. QED
      BY <1>2d, <1>3f, <1>9, <2>1, <2>3, <2>4, <2>5, <2>6 DEF TypeOK
  <1>21. MarksIssued'
    <2>1. SUFFICES ASSUME NEW k \in DOMAIN marks'
                   PROVE  /\ marks'[k].id \in DOMAIN issued'
                          /\ issued'[marks'[k].id].subject = k[1]
                          /\ issued'[marks'[k].id].message = k[2]
                          /\ issued'[marks'[k].id].draft = marks'[k].draft
                          /\ issued'[marks'[k].id].kind = marks'[k].kind
                          /\ issued'[marks'[k].id].at + TTL = marks'[k].expires_at
                          /\ issued'[marks'[k].id].at <= now'
      BY DEF MarksIssued
    <2>2. CASE k \in keep
      BY <1>0, <1>2b, <1>3a, <1>3b, <1>4, <1>7, <2>2 DEF MarksIssued
    <2>3. CASE \E r \in rs : k = key(r)
      <3>1. PICK r \in rs : k = key(r)
        BY <2>3
      <3>2. marks'[k] = NewMark(r, kind, id[r])
        BY <1>2c, <3>1
      <3>3. QED
        BY <1>3a, <1>3g, <1>4, <1>14, <3>1, <3>2 DEF NewMark
    <2>4. QED
      BY <1>2a, <2>2, <2>3
  <1>22. \A k \in keep : marks'[k].id \in DOMAIN issued
    BY <1>0, <1>2b, <1>7 DEF MarksIssued
  <1>23. \A r \in rs : /\ marks'[key(r)].id = id[r] /\ ~marks'[key(r)].executing
                       /\ marks'[key(r)].draft = r.draft
    <2>1. TAKE r \in rs
    <2>2. marks'[key(r)] = NewMark(r, kind, id[r])
      BY <1>2c
    <2>3. QED
      BY <2>2 DEF NewMark
  <1> HIDE DEF key
  <1>24. IdsUnique'
    <2>1. SUFFICES ASSUME NEW k \in DOMAIN marks', NEW j \in DOMAIN marks',
                          marks'[k].id = marks'[j].id
                   PROVE  k = j
      BY DEF IdsUnique
    <2>2. CASE k \in keep /\ j \in keep
      BY <1>0, <1>2b, <1>7, <2>1, <2>2 DEF IdsUnique
    <2>3. CASE k \notin keep /\ j \notin keep
      BY <1>2a, <1>3d, <1>23, <2>1, <2>3
    <2>4. CASE (k \in keep) # (j \in keep)
      BY <1>2a, <1>3c, <1>22, <1>23, <2>1, <2>4
    <2>5. QED
      BY <2>2, <2>3, <2>4
  <1>25. SpentExecuting'
    <2>1. SUFFICES ASSUME NEW k \in DOMAIN marks', marks'[k].id \in spent'
                   PROVE  marks'[k].executing
      BY DEF SpentExecuting
    <2>2. k \in keep
      BY <1>0, <1>2a, <1>3c, <1>4, <1>23, <2>1 DEF TypeOK
    <2>3. QED
      BY <1>0, <1>2b, <1>4, <1>7, <2>1, <2>2 DEF SpentExecuting
  <1>26a. \A i \in DOMAIN issued : issued[i].serial \in Nat /\ issued[i].serial < NextSerial
    BY <1>0 DEF SerialBound, TypeOK, Issue
  <1>26. SerialBound'
    <2>2. SUFFICES ASSUME NEW i \in DOMAIN issued' PROVE issued'[i].serial < NextSerial'
      BY DEF SerialBound
    <2>3. CASE i \in DOMAIN issued
      BY <1>3b, <1>10, <1>26a, <2>3
    <2>4. CASE \E r \in rs : i = id[r]
      BY <1>3g, <1>10, <2>4
    <2>5. QED
      BY <1>3a, <2>3, <2>4
  <1>27. FiniteWithinLimit'
    <2> DEFINE new == {key(r) : r \in rs}
    <2>1. IsFiniteSet(keep) /\ Cardinality(keep) \in Nat
      BY <1>0, <1>7, FS_Subset, FS_CardinalityType DEF FiniteWithinLimit
    <2>2. IsFiniteSet(new) /\ Cardinality(new) <= Cardinality(rs)
      <3> DEFINE f == [r \in rs |-> key(r)]
      <3>1. new = {f[r] : r \in rs}
        OBVIOUS
      <3>2. DOMAIN f = rs /\ f = [r \in rs |-> f[r]]
        OBVIOUS
      <3> HIDE DEF f, new
      <3>3. QED
        BY <1>6, <3>1, <3>2, ImageBound
    <2>3. Cardinality(new) \in Nat
      BY <2>2, FS_CardinalityType
    <2>4. DOMAIN marks' = keep \cup new
      BY <1>2a
    <2>5. keep \cap new = {}
      BY <1>2b
    <2> HIDE DEF new
    <2>6. /\ IsFiniteSet(keep \cup new)
          /\ Cardinality(keep \cup new) = Cardinality(keep) + Cardinality(new)
      BY <2>1, <2>2, <2>5, DisjointUnion
    <2>7. QED
      BY <1>6, <1>13, <1>14, <2>1, <2>2, <2>3, <2>4, <2>6 DEF FiniteWithinLimit, WithinLimit
  <1>28. DraftSlotExclusive'
    <2>1. SUFFICES ASSUME NEW k \in DOMAIN marks', NEW j \in DOMAIN marks',
                          k[1] = j[1], marks'[k].draft # NoDraft,
                          marks'[k].draft = marks'[j].draft
                   PROVE  k = j
      BY DEF DraftSlotExclusive
    <2>2. \A r, q \in rs : r.draft # NoDraft /\ r.draft = q.draft => r = q
      BY DEF Distinct
    <2>3. \A r \in rs : key(r)[1] = s
      BY DEF key
    <2>4. CASE k \in keep /\ j \in keep
      BY <1>0, <1>2b, <1>7, <2>1, <2>4 DEF DraftSlotExclusive
    <2>5. CASE k \notin keep /\ j \notin keep
      BY <1>2a, <1>23, <2>1, <2>2, <2>5
    <2>6. ASSUME NEW l \in keep, NEW r \in rs, l[1] = s, r.draft # NoDraft,
                 marks'[l].draft = r.draft
          PROVE  FALSE
      BY <1>2b, <1>11, <2>6 DEF SameResource
    <2>8. CASE (k \in keep) # (j \in keep)
      BY <1>2a, <1>23, <2>1, <2>3, <2>6, <2>8
    <2>7. QED
      BY <2>4, <2>5, <2>8
  <1>29. HeldIsExecuting'
    <2>1. ASSUME NEW h \in held'
          PROVE  h.key \in DOMAIN marks' /\ marks'[h.key].id = h.id /\ marks'[h.key].executing
      BY <1>0, <1>2a, <1>2b, <1>4, <1>12, <2>1 DEF HeldIsExecuting
    <2>2. ASSUME NEW k \in DOMAIN marks', marks'[k].executing
          PROVE  \E h \in held' : h.key = k /\ h.id = marks'[k].id
      BY <1>0, <1>2a, <1>2b, <1>4, <1>7, <1>23, <2>2 DEF HeldIsExecuting
    <2>3. QED
      BY <2>1, <2>2 DEF HeldIsExecuting
  <1>30. HeldAuthorised'
    BY <1>0, <1>3a, <1>3b, <1>4 DEF HeldAuthorised
  <1>31. LatestMarkWins'
    <2>1. SUFFICES ASSUME NEW k \in DOMAIN marks', NEW j \in DOMAIN issued',
                          issued'[j].serial > issued'[marks'[k].id].serial
                   PROVE  ~Conflict(issued'[j], issued'[marks'[k].id])
      BY DEF LatestMarkWins, Conflict
    <2>2. issued'[j].serial \in Nat /\ issued'[j].serial <= NextSerial
      BY <1>0, <1>3a, <1>3b, <1>3g, <1>10, <1>26a
    <2>3. k \in keep
      <3>1. SUFFICES ASSUME NEW r \in rs, k = key(r) PROVE FALSE
        BY <1>2a, <2>1
      <3>2. issued'[marks'[k].id].serial = NextSerial
        BY <1>3g, <1>23, <3>1
      <3>3. QED
        BY <1>10, <2>1, <2>2, <3>2
    <2>4. /\ marks'[k] = marks[k]
          /\ issued'[marks[k].id] = issued[marks[k].id]
          /\ marks[k].id \in DOMAIN issued
          /\ issued[marks[k].id].subject = k[1]
          /\ issued[marks[k].id].message = k[2]
          /\ issued[marks[k].id].draft = marks[k].draft
      BY <1>0, <1>2b, <1>3b, <1>7, <2>3 DEF MarksIssued
    <2>5. CASE j \in DOMAIN issued
      BY <1>0, <1>3b, <1>7, <2>1, <2>3, <2>4, <2>5 DEF LatestMarkWins
    <2>6. CASE \E r \in rs : j = id[r]
      <3>1. PICK r \in rs : j = id[r]
        BY <2>6
      <3>2. /\ issued'[j].subject = s
            /\ issued'[j].message = r.message
            /\ issued'[j].draft = r.draft
        BY <1>3g, <3>1
      <3>3. QED
        BY <1>11, <2>3, <2>4, <3>2 DEF SameResource, Conflict
    <2>7. QED
      BY <1>3a, <2>5, <2>6
  <1>40. QED
    BY <1>20, <1>21, <1>24, <1>25, <1>26, <1>27, <1>28, <1>29, <1>30, <1>31 DEF IInv

\* The limit single registration tests is the limit bulk registration tests, on
\* the one-element set: the two entry points cannot drift apart.
LEMMA SingleIsBulk ==
  ASSUME NEW s \in Subjects, NEW r \in AnyResource, FiniteWithinLimit
  PROVE  SingleLimit(s, r) <=> BulkLimit(s, {r})
PROOF
  <1> DEFINE hit == Overlapping(s, {r})
  <1>1. hit \subseteq Retained /\ Retained \subseteq DOMAIN marks
    BY DEF Overlapping, Retained
  <1>2. /\ IsFiniteSet(Retained)
        /\ Cardinality(Retained) \in Nat
        /\ Cardinality(Retained) <= MaxMarks
    <2>1. IsFiniteSet(Retained) /\ Cardinality(Retained) <= Cardinality(DOMAIN marks)
      BY <1>1, FS_Subset DEF FiniteWithinLimit
    <2>2. Cardinality(Retained) \in Nat /\ Cardinality(DOMAIN marks) \in Nat
      BY <2>1, FS_CardinalityType DEF FiniteWithinLimit
    <2>3. QED
      BY <2>1, <2>2, ActionMarksAssumption DEF FiniteWithinLimit, WithinLimit
  <1>3. Cardinality({r}) = 1
    BY FS_Singleton
  <1> HIDE DEF hit
  <1>4. CASE hit = {}
    <2>1. Retained \ Overlapping(s, {r}) = Retained
      BY <1>4 DEF hit
    <2>2. SingleLimit(s, r) <=> Cardinality(Retained) >= MaxMarks
      BY <1>4 DEF SingleLimit, hit
    <2>3. BulkLimit(s, {r}) <=> Cardinality(Retained) + 1 > MaxMarks
      BY <1>3, <2>1 DEF BulkLimit
    <2>4. QED
      BY <1>2, <2>2, <2>3, ActionMarksAssumption
  <1>5. CASE hit # {}
    <2>1. PICK k \in hit : TRUE
      BY <1>5
    <2>2. Retained \ hit \subseteq Retained \ {k}
      BY <2>1
    <2>3. IsFiniteSet(Retained \ {k}) /\ Cardinality(Retained \ {k}) = Cardinality(Retained) - 1
      BY <1>1, <1>2, <2>1, FS_RemoveElement
    <2>4. /\ IsFiniteSet(Retained \ hit)
          /\ Cardinality(Retained \ hit) <= Cardinality(Retained \ {k})
      BY <2>2, <2>3, FS_Subset
    <2>5. Cardinality(Retained \ hit) \in Nat
      BY <2>4, FS_CardinalityType
    <2>6. Cardinality(Retained \ hit) + 1 <= MaxMarks
      BY <1>2, <2>3, <2>4, <2>5, ActionMarksAssumption
    <2>7. ~BulkLimit(s, {r})
      BY <1>3, <2>5, <2>6, ActionMarksAssumption DEF BulkLimit, hit
    <2>8. ~SingleLimit(s, r)
      BY <1>5 DEF SingleLimit, hit
    <2>9. QED
      BY <2>7, <2>8
  <1>6. QED
    BY <1>4, <1>5

\* A granted registration, single or bulk, preserves the invariant:
\* the checks it makes are the premises of ReplacePreserves.
LEMMA RegisterPreserves ==
  ASSUME NEW s \in Subjects, NEW kind \in Kinds, IInv
  PROVE  /\ \A r \in Resources(kind) : RegisterActionMark(s, r, kind) => IInv'
         /\ \A rs \in Requests(kind) : RegisterActionMarks(s, rs, kind) => IInv'
PROOF
  <1>1. FiniteWithinLimit
    BY DEF IInv
  <1>2. \A rs \in Requests(kind) :
          /\ Cardinality(Retained \ Overlapping(s, rs)) \in Nat
          /\ Cardinality(rs) \in Nat
    <2>1. TAKE rs \in Requests(kind)
    <2>2. Retained \ Overlapping(s, rs) \subseteq DOMAIN marks
      BY DEF Retained
    <2>3. IsFiniteSet(Retained \ Overlapping(s, rs)) /\ IsFiniteSet(rs)
      BY <1>1, <2>2, FS_Subset DEF FiniteWithinLimit, Requests
    <2>4. QED
      BY <2>3, FS_CardinalityType
  <1>3. \A rs \in Requests(kind) :
          ~BulkLimit(s, rs) =>
              Cardinality(Retained \ Overlapping(s, rs)) + Cardinality(rs) <= MaxMarks
    BY <1>2, ActionMarksAssumption DEF BulkLimit
  <1>4. ASSUME NEW r \in Resources(kind), RegisterActionMark(s, r, kind)
        PROVE  IInv'
    <2>1. r \in AnyResource
      BY DEF Resources, AnyResource
    <2>2. {r} \in Requests(kind) /\ Distinct({r})
      BY FS_Singleton DEF Requests, Distinct
    <2>3. ~BulkLimit(s, {r})
      BY <1>1, <1>4, <2>1, SingleIsBulk DEF RegisterActionMark
    <2>4. PICK id \in FreshIds({r}) : Replace(s, {r}, kind, id)
      BY <1>4 DEF RegisterActionMark
    <2>5. ~InProgress(s, {r})
      BY <1>4 DEF RegisterActionMark
    <2>6. QED
      BY <1>3, <2>2, <2>3, <2>4, <2>5, ReplacePreserves
  <1>5. ASSUME NEW rs \in Requests(kind), RegisterActionMarks(s, rs, kind)
        PROVE  IInv'
    <2>1. PICK id \in FreshIds(rs) : Replace(s, rs, kind, id)
      BY <1>5 DEF RegisterActionMarks
    <2>2. QED
      BY <1>3, <1>5, <2>1, ReplacePreserves DEF RegisterActionMarks
  <1>6. QED
    BY <1>4, <1>5

\* Dropping marks nobody executes preserves the invariant.
LEMMA DropPreserves ==
  ASSUME NEW keep, keep \subseteq DOMAIN marks, IInv,
         marks' = [k \in keep |-> marks[k]],
         \A k \in DOMAIN marks : marks[k].executing => k \in keep,
         UNCHANGED <<held, issued, spent>>,
         now' \in Nat, now <= now'
  PROVE  IInv'
PROOF
  <1>1. DOMAIN marks' = keep /\ \A k \in keep : marks'[k] = marks[k]
    OBVIOUS
  <1>2. TypeOK'
    BY <1>1 DEF IInv, TypeOK
  <1>3. MarksIssued' /\ IdsUnique' /\ SpentExecuting' /\ SerialBound'
    <2>1. now \in Nat /\ \A i \in DOMAIN issued : issued[i].at \in Nat
      BY DEF IInv, TypeOK, Issue
    <2>2. MarksIssued'
      BY <1>1, <2>1 DEF IInv, MarksIssued
    <2>3. QED
      BY <1>1, <2>2 DEF IInv, IdsUnique, SpentExecuting, SerialBound, NextSerial
  <1>4. FiniteWithinLimit'
    <2>1. IsFiniteSet(keep) /\ Cardinality(keep) <= Cardinality(DOMAIN marks)
      BY FS_Subset DEF IInv, FiniteWithinLimit
    <2>2. Cardinality(keep) \in Nat /\ Cardinality(DOMAIN marks) \in Nat
      BY <2>1, FS_CardinalityType DEF IInv, FiniteWithinLimit
    <2>3. QED
      BY <1>1, <2>1, <2>2, ActionMarksAssumption DEF IInv, FiniteWithinLimit, WithinLimit
  <1>5. DraftSlotExclusive' /\ HeldIsExecuting' /\ HeldAuthorised'
    BY <1>1 DEF IInv, DraftSlotExclusive, HeldIsExecuting, HeldAuthorised
  <1>6. LatestMarkWins'
    BY <1>1 DEF IInv, LatestMarkWins, Conflict
  <1>7. QED
    BY <1>2, <1>3, <1>4, <1>5, <1>6 DEF IInv

\* Consuming markers preserves the invariant: what it hands out was redeemable,
\* so pending, unexpired and issued for this account and action.
LEMMA ConsumePreserves ==
  ASSUME NEW s \in Subjects, NEW kind \in Kinds, NEW ids \in SUBSET DOMAIN issued,
         ConsumeActionMarks(s, ids, kind), IInv
  PROVE  IInv'
PROOF
  <1> DEFINE found == {k \in DOMAIN marks : marks[k].id \in ids}
  <1>1. /\ DOMAIN marks' = DOMAIN marks
        /\ marks' = [k \in DOMAIN marks' |-> marks'[k]]
        /\ \A k \in DOMAIN marks \ found : marks'[k] = marks[k]
        /\ \A k \in found : marks'[k] = [marks[k] EXCEPT !.executing = TRUE]
    BY DEF ConsumeActionMarks
  <1>2. held' = held \cup {[id |-> marks[k].id, subject |-> s, kind |-> kind,
                            key |-> k] : k \in found}
    BY DEF ConsumeActionMarks
  <1>3. spent' = spent \cup ids /\ UNCHANGED <<now, issued>>
    BY DEF ConsumeActionMarks
  <1>4. \A k \in found : /\ k[1] = s
                         /\ marks[k].kind = kind
                         /\ ~marks[k].executing
    BY DEF ConsumeActionMarks, Redeemable
  <1>5. \A k \in DOMAIN marks : marks[k] \in Mark
    BY DEF IInv, TypeOK
  <1>6. \A k \in found : /\ marks'[k] \in Mark
                         /\ marks'[k].id = marks[k].id
                         /\ marks'[k].draft = marks[k].draft
                         /\ marks'[k].kind = marks[k].kind
                         /\ marks'[k].expires_at = marks[k].expires_at
                         /\ marks'[k].executing
    <2>1. TAKE k \in found
    <2>2. k \in DOMAIN marks
      OBVIOUS
    <2>3. marks[k] \in Mark /\ marks'[k] = [marks[k] EXCEPT !.executing = TRUE]
      BY <1>1, <1>5, <2>2
    <2>4. QED
      BY <2>3 DEF Mark
  <1>7. \A k \in DOMAIN marks : /\ marks'[k].id = marks[k].id
                                /\ marks'[k].draft = marks[k].draft
                                /\ marks'[k].kind = marks[k].kind
                                /\ marks'[k].expires_at = marks[k].expires_at
                                /\ marks[k].executing => marks'[k].executing
    BY <1>1, <1>6
  <1>8. \A k \in found : [id |-> marks[k].id, subject |-> s, kind |-> kind, key |-> k] \in Handle
    BY <1>5 DEF Handle, Mark, IInv, TypeOK
  <1> HIDE DEF found
  <1>10. TypeOK'
    <2>1. \A k \in DOMAIN marks' : marks'[k] \in Mark
      BY <1>1, <1>5, <1>6
    <2>2. held' \subseteq Handle
      BY <1>2, <1>8 DEF IInv, TypeOK
    <2>3. QED
      BY <1>1, <1>3, <2>1, <2>2 DEF IInv, TypeOK
  <1>11. MarksIssued' /\ IdsUnique' /\ DraftSlotExclusive'
    BY <1>1, <1>3, <1>7 DEF IInv, MarksIssued, IdsUnique, DraftSlotExclusive
  <1>12. SerialBound' /\ FiniteWithinLimit'
    BY <1>1, <1>3 DEF IInv, SerialBound, NextSerial, FiniteWithinLimit, WithinLimit
  <1>13. LatestMarkWins'
    BY <1>1, <1>3, <1>7 DEF IInv, LatestMarkWins, Conflict
  <1>14. SpentExecuting'
    <2>1. SUFFICES ASSUME NEW k \in DOMAIN marks, marks[k].id \in spent \cup ids
                   PROVE  marks'[k].executing
      BY <1>1, <1>3, <1>7 DEF SpentExecuting
    <2>2. CASE marks[k].id \in ids
      BY <1>6, <2>2 DEF found
    <2>3. CASE marks[k].id \in spent
      BY <1>7, <2>3 DEF IInv, SpentExecuting
    <2>4. QED
      BY <2>1, <2>2, <2>3
  <1>15. HeldIsExecuting'
    <2>1. ASSUME NEW h \in held'
          PROVE  h.key \in DOMAIN marks' /\ marks'[h.key].id = h.id /\ marks'[h.key].executing
      <3>1. CASE h \in held
        BY <1>1, <1>7, <3>1 DEF IInv, HeldIsExecuting
      <3>2. CASE \E k \in found : h = [id |-> marks[k].id, subject |-> s, kind |-> kind, key |-> k]
        <4>1. PICK k \in found : h.key = k /\ h.id = marks[k].id
          BY <3>2
        <4>2. k \in DOMAIN marks
          BY DEF found
        <4>3. QED
          BY <1>1, <1>6, <4>1, <4>2
      <3>3. QED
        BY <1>2, <2>1, <3>1, <3>2
    <2>2. ASSUME NEW k \in DOMAIN marks', marks'[k].executing
          PROVE  \E h \in held' : h.key = k /\ h.id = marks'[k].id
      <3>1. CASE k \in found
        <4> DEFINE h == [id |-> marks[k].id, subject |-> s, kind |-> kind, key |-> k]
        <4>1. h \in held' /\ h.key = k /\ h.id = marks'[k].id
          BY <1>2, <1>6, <3>1
        <4>2. QED
          BY <4>1
      <3>2. CASE k \notin found
        BY <1>1, <1>2, <2>2, <3>2 DEF IInv, HeldIsExecuting
      <3>3. QED
        BY <3>1, <3>2
    <2>3. QED
      BY <2>1, <2>2 DEF HeldIsExecuting
  <1>16. HeldAuthorised'
    <2>1. SUFFICES ASSUME NEW h \in held'
                   PROVE  /\ h.id \in DOMAIN issued
                          /\ issued[h.id].subject = h.subject
                          /\ issued[h.id].kind = h.kind
                          /\ h.key = <<issued[h.id].subject, issued[h.id].message>>
      BY <1>3 DEF HeldAuthorised
    <2>2. CASE h \in held
      BY <2>2 DEF IInv, HeldAuthorised
    <2>3. CASE \E k \in found : h = [id |-> marks[k].id, subject |-> s, kind |-> kind, key |-> k]
      <3>1. PICK k \in found : /\ h.key = k /\ h.id = marks[k].id
                               /\ h.subject = s /\ h.kind = kind
        BY <2>3
      <3>2. k \in DOMAIN marks /\ k \in Keys
        BY DEF found, IInv, TypeOK
      <3>3. k = <<k[1], k[2]>>
        BY <3>2 DEF Keys
      <3>4. QED
        BY <1>4, <3>1, <3>2, <3>3 DEF IInv, MarksIssued
    <2>4. QED
      BY <1>2, <2>1, <2>2, <2>3
  <1>17. QED
    BY <1>10, <1>11, <1>12, <1>13, <1>14, <1>15, <1>16 DEF IInv

\* Finishing a handler preserves the invariant: the key it removes is the one
\* its own marker still occupies.
LEMMA FinishPreserves ==
  ASSUME NEW h \in held, FinishActionMark(h), IInv
  PROVE  IInv'
PROOF
  <1> DEFINE keep == {j \in DOMAIN marks : ~(j = h.key /\ marks[j].id = h.id)}
  <1>1. /\ marks' = [k \in keep |-> marks[k]]
        /\ held' = held \ {h}
        /\ UNCHANGED <<now, issued, spent>>
    BY DEF FinishActionMark
  <1>2. DOMAIN marks' = keep /\ \A k \in keep : marks'[k] = marks[k]
    BY <1>1
  <1>3. keep \subseteq DOMAIN marks
    OBVIOUS
  <1>4. \A g \in held : g.id = h.id => g = h
    <2>1. SUFFICES ASSUME NEW g \in held, g.id = h.id PROVE g = h
      OBVIOUS
    <2>2. g.subject = h.subject /\ g.kind = h.kind /\ g.key = h.key
      BY <2>1 DEF IInv, HeldAuthorised
    <2>3. g \in Handle /\ h \in Handle
      BY DEF IInv, TypeOK
    <2>4. QED
      BY <2>1, <2>2, <2>3 DEF Handle
  <1>5. \A g \in held \ {h} : g.key \in keep
    BY <1>4 DEF IInv, HeldIsExecuting
  <1> HIDE DEF keep
  <1>6. TypeOK'
    BY <1>1, <1>2, <1>3 DEF IInv, TypeOK
  <1>7. MarksIssued' /\ IdsUnique' /\ SpentExecuting' /\ SerialBound' /\ DraftSlotExclusive'
    BY <1>1, <1>2, <1>3
    DEF IInv, MarksIssued, IdsUnique, SpentExecuting, SerialBound, NextSerial, DraftSlotExclusive
  <1>8. FiniteWithinLimit'
    <2>1. IsFiniteSet(keep) /\ Cardinality(keep) <= Cardinality(DOMAIN marks)
      BY <1>3, FS_Subset DEF IInv, FiniteWithinLimit
    <2>2. Cardinality(keep) \in Nat /\ Cardinality(DOMAIN marks) \in Nat
      BY <2>1, FS_CardinalityType DEF IInv, FiniteWithinLimit
    <2>3. QED
      BY <1>2, <2>1, <2>2, ActionMarksAssumption DEF IInv, FiniteWithinLimit, WithinLimit
  <1>9. HeldIsExecuting'
    <2>1. ASSUME NEW g \in held'
          PROVE  g.key \in DOMAIN marks' /\ marks'[g.key].id = g.id /\ marks'[g.key].executing
      BY <1>1, <1>2, <1>5, <2>1 DEF IInv, HeldIsExecuting
    <2>2. ASSUME NEW k \in DOMAIN marks', marks'[k].executing
          PROVE  \E g \in held' : g.key = k /\ g.id = marks'[k].id
      <3>1. k \in DOMAIN marks /\ marks'[k] = marks[k]
        BY <1>2, <1>3, <2>2
      <3>2. PICK g \in held : g.key = k /\ g.id = marks[k].id
        BY <2>2, <3>1 DEF IInv, HeldIsExecuting
      <3>3. g # h
        BY <1>2, <2>2, <3>1, <3>2 DEF keep
      <3>4. QED
        BY <1>1, <3>1, <3>2, <3>3
    <2>3. QED
      BY <2>1, <2>2 DEF HeldIsExecuting
  <1>10. HeldAuthorised'
    BY <1>1 DEF IInv, HeldAuthorised
  <1>11. LatestMarkWins'
    BY <1>1, <1>2, <1>3 DEF IInv, LatestMarkWins, Conflict
  <1>12. QED
    BY <1>6, <1>7, <1>8, <1>9, <1>10, <1>11 DEF IInv

\* A restart forgets the map and the handlers together, and keeps the invariant.
LEMMA RestartPreserves == IInv /\ Restart => IInv'
PROOF
  <1> SUFFICES ASSUME IInv, Restart PROVE IInv'
    OBVIOUS
  <1>1. DOMAIN marks' = {} /\ marks' = [k \in DOMAIN marks' |-> marks'[k]]
    BY DEF Restart
  <1>2. held' = {} /\ UNCHANGED <<now, issued, spent>>
    BY DEF Restart
  <1>3. TypeOK'
    BY <1>1, <1>2 DEF IInv, TypeOK
  <1>4. FiniteWithinLimit'
    BY <1>1, FS_EmptySet, ActionMarksAssumption DEF FiniteWithinLimit, WithinLimit
  <1>5. SerialBound'
    BY <1>2 DEF IInv, SerialBound, NextSerial
  <1>6. QED
    BY <1>1, <1>2, <1>3, <1>4, <1>5
    DEF IInv, MarksIssued, IdsUnique, SpentExecuting, DraftSlotExclusive, HeldIsExecuting,
        HeldAuthorised, LatestMarkWins

\* Every step of the store preserves the invariant, and so does stuttering.
LEMMA NextPreserves == IInv /\ [Next]_vars => IInv'
PROOF
  <1> SUFFICES ASSUME IInv, [Next]_vars PROVE IInv'
    OBVIOUS
  <1>0. now \in Nat /\ TypeOK /\ HeldIsExecuting
    BY DEF IInv, TypeOK
  <1>1. ASSUME NEW s \in Subjects, NEW kind \in Kinds, NEW r \in Resources(kind),
               RegisterActionMark(s, r, kind)
        PROVE  IInv'
    BY <1>1, RegisterPreserves
  <1>2. ASSUME NEW s \in Subjects, NEW kind \in Kinds, NEW rs \in Requests(kind),
               RegisterActionMarks(s, rs, kind)
        PROVE  IInv'
    BY <1>2, RegisterPreserves
  <1>3. ASSUME NEW s \in Subjects, NEW kind \in Kinds, NEW rs \in Requests(kind),
               RegisterRefused(s, rs)
        PROVE  IInv'
    <2>1. /\ marks' = [k \in Retained |-> marks[k]]
          /\ UNCHANGED <<now, held, issued, spent>>
      BY <1>3 DEF RegisterRefused
    <2>2. Retained \subseteq DOMAIN marks
      BY DEF Retained
    <2>3. \A k \in DOMAIN marks : marks[k].executing => k \in Retained
      BY DEF Retained
    <2>4. now' \in Nat /\ now <= now'
      BY <1>0, <2>1
    <2> HIDE DEF Retained
    <2>5. QED
      BY <2>1, <2>2, <2>3, <2>4, DropPreserves
  <1>4. ASSUME NEW s \in Subjects, NEW kind \in Kinds, NEW ids \in SUBSET DOMAIN issued,
               ConsumeActionMarks(s, ids, kind)
        PROVE  IInv'
    BY <1>4, ConsumePreserves
  <1>5. ASSUME NEW h \in held, FinishActionMark(h)
        PROVE  IInv'
    BY <1>5, FinishPreserves
  <1>6. CASE Restart
    BY <1>6, RestartPreserves
  <1>7. CASE Tick \/ UNCHANGED vars
    <2>1. /\ UNCHANGED <<marks, held, issued, spent>>
          /\ now' \in Nat /\ now <= now'
      BY <1>0, <1>7 DEF Tick, vars
    <2>2. marks' = [k \in DOMAIN marks |-> marks[k]]
      BY <1>0, <2>1 DEF TypeOK
    <2>3. QED
      BY <2>1, <2>2, DropPreserves
  <1>8. QED
    BY <1>1, <1>2, <1>3, <1>4, <1>5, <1>6, <1>7 DEF Next

\* The empty store of a broker that has just started satisfies the invariant.
LEMMA InitInvariant == Init => IInv
PROOF
  <1> SUFFICES ASSUME Init PROVE IInv
    OBVIOUS
  <1>1. /\ DOMAIN marks = {} /\ marks = [k \in DOMAIN marks |-> marks[k]]
        /\ DOMAIN issued = {} /\ issued = [i \in DOMAIN issued |-> issued[i]]
        /\ now = 0 /\ held = {} /\ spent = {}
    BY DEF Init
  <1>2. IsFiniteSet({}) /\ Cardinality({}) = 0
    BY FS_EmptySet
  <1>3. FiniteWithinLimit
    BY <1>1, <1>2, ActionMarksAssumption DEF FiniteWithinLimit, WithinLimit
  <1>4. QED
    BY <1>1, <1>2, <1>3
    DEF IInv, TypeOK, MarksIssued, IdsUnique, SpentExecuting, SerialBound, DraftSlotExclusive,
        HeldIsExecuting, HeldAuthorised, LatestMarkWins

\* The inductive invariant holds in every reachable state of the store.
THEOREM Invariant == Spec => []IInv
PROOF
  <1>1. QED
    BY InitInvariant, NextPreserves, PTL DEF Spec

\* The store is well typed: every entry of the map is a mark, every handle one
\* that some handler may hold.
THEOREM TypeCorrect == Spec => []TypeOK
PROOF
  <1>1. IInv => TypeOK
    BY DEF IInv
  <1>2. QED
    BY <1>1, Invariant, PTL

\* No account ever has two marks for one draft, whatever edits gave it new
\* message IDs between the registrations.
THEOREM DraftSlotsExclusive == Spec => []DraftSlotExclusive
PROOF
  <1>1. IInv => DraftSlotExclusive
    BY DEF IInv
  <1>2. QED
    BY <1>1, Invariant, PTL

\* While a handler executes a mark, no purge, registration or other handler's
\* finish takes the slot from it, and no slot executes without a handler.
THEOREM HandlersOwnTheirSlots == Spec => []HeldIsExecuting
PROOF
  <1>1. IInv => HeldIsExecuting
    BY DEF IInv
  <1>2. QED
    BY <1>1, Invariant, PTL

\* A handler performs what its marker was issued for.
THEOREM HandlersAuthorised == Spec => []HeldAuthorised
PROOF
  <1>1. IInv => HeldAuthorised
    BY DEF IInv
  <1>2. QED
    BY <1>1, Invariant, PTL

\* A mark in the map is always the latest one issued for its resource.
THEOREM OnlyLatestMarkLives == Spec => []LatestMarkWins
PROOF
  <1>1. IInv => LatestMarkWins
    BY DEF IInv
  <1>2. QED
    BY <1>1, Invariant, PTL

\* The map never holds more than MAX_PENDING_ACTION_MARKS marks.
THEOREM StoreBounded == Spec => []WithinLimit
PROOF
  <1>1. IInv => WithinLimit
    BY DEF IInv, FiniteWithinLimit
  <1>2. QED
    BY <1>1, Invariant, PTL

\* Single and bulk registration refuse alike on one resource.
THEOREM SingleAndBulkAgree == Spec => []PathsAgree
PROOF
  <1>1. IInv => PathsAgree
    BY SingleIsBulk DEF IInv, PathsAgree
  <1>2. QED
    BY <1>1, Invariant, PTL

\* A marker is consumed at most once, and within its time to live.
THEOREM MarkersOneUseInTime == Spec => OneUseInTime
PROOF
  <1>1. IInv /\ [Next]_vars =>
          [\A i \in DOMAIN issued :
              /\ \E h \in held' : h.id = i
              /\ \A h \in held : h.id # i
              => i \notin spent /\ issued[i].at <= now /\ now < issued[i].at + TTL]_vars
    <2> SUFFICES ASSUME IInv, Next, NEW i \in DOMAIN issued,
                        \E h \in held' : h.id = i,
                        \A h \in held : h.id # i
                 PROVE  i \notin spent /\ issued[i].at <= now /\ now < issued[i].at + TTL
      BY DEF vars
    <2>1. PICK s \in Subjects, kind \in Kinds, ids \in SUBSET DOMAIN issued :
             ConsumeActionMarks(s, ids, kind)
      <3>1. held' \subseteq held => FALSE
        OBVIOUS
      <3>2. ASSUME NEW s \in Subjects, NEW kind \in Kinds
            PROVE  /\ \A r \in Resources(kind) : ~RegisterActionMark(s, r, kind)
                   /\ \A rs \in Requests(kind) :
                         ~RegisterActionMarks(s, rs, kind) /\ ~RegisterRefused(s, rs)
        <4>1. ASSUME NEW rs, NEW id, Replace(s, rs, kind, id) PROVE FALSE
          <5>1. held' = held
            BY <4>1 DEF Replace
          <5>2. QED
            BY <5>1, <3>1
        <4>2. ASSUME NEW r \in Resources(kind), RegisterActionMark(s, r, kind) PROVE FALSE
          BY <4>1, <4>2, Zenon DEF RegisterActionMark
        <4>3. ASSUME NEW rs \in Requests(kind), RegisterActionMarks(s, rs, kind) PROVE FALSE
          BY <4>1, <4>3, Zenon DEF RegisterActionMarks
        <4>4. ASSUME NEW rs \in Requests(kind), RegisterRefused(s, rs) PROVE FALSE
          <5>1. held' = held
            BY <4>4 DEF RegisterRefused
          <5>2. QED
            BY <5>1, <3>1
        <4>5. QED
          BY <4>2, <4>3, <4>4
      <3>3. (\A h \in held : ~FinishActionMark(h)) /\ ~Restart /\ ~Tick
        BY <3>1 DEF FinishActionMark, Restart, Tick
      <3>4. QED
        BY <3>2, <3>3 DEF Next
    <2>2. PICK k \in DOMAIN marks : marks[k].id = i /\ Redeemable(k, s, kind)
      <3>1. PICK h \in held' : h.id = i
        OBVIOUS
      <3>2. h \notin held
        BY <3>1
      <3>3. PICK k \in {j \in DOMAIN marks : marks[j].id \in ids} : h.id = marks[k].id
        BY <2>1, <3>1, <3>2 DEF ConsumeActionMarks
      <3>4. QED
        BY <2>1, <3>1, <3>3 DEF ConsumeActionMarks
    <2>3. ~marks[k].executing /\ marks[k].expires_at > now
      BY <2>2 DEF Redeemable, Unexpired
    <2>4. /\ issued[i].at + TTL = marks[k].expires_at
          /\ issued[i].at <= now
          /\ marks[k].id \in spent => marks[k].executing
      BY <2>2 DEF IInv, MarksIssued, SpentExecuting
    <2>5. QED
      BY <2>2, <2>3, <2>4
  <1>2. QED
    BY <1>1, Invariant, PTL DEF Spec, OneUseInTime

------------------------------------------------------------------------------
Granted == IdsOf(DOMAIN marks \ ExecutingKeys)
Running == IdsOf(ExecutingKeys)

\* The markers the abstract authority calls granted and running, read off the map.
LEMMA GrantedRunning ==
  /\ \A i : i \in Granted <=> \E k \in DOMAIN marks : ~marks[k].executing /\ marks[k].id = i
  /\ \A i : i \in Running <=> \E k \in DOMAIN marks : marks[k].executing /\ marks[k].id = i
PROOF
  <1>1. QED
    BY DEF Granted, Running, IdsOf, ExecutingKeys

\* The same of the next state.
LEMMA GrantedRunningNext ==
  /\ \A i : i \in Granted' <=> \E k \in DOMAIN marks' : ~marks'[k].executing /\ marks'[k].id = i
  /\ \A i : i \in Running' <=> \E k \in DOMAIN marks' : marks'[k].executing /\ marks'[k].id = i
PROOF
  <1>1. QED
    BY DEF Granted, Running, IdsOf, ExecutingKeys

\* A registration is a grant of the abstract authority.
LEMMA ReplaceGrants ==
  ASSUME NEW s \in Subjects, NEW kind \in Kinds, NEW rs \in Requests(kind),
         NEW id \in FreshIds(rs), Distinct(rs), Replace(s, rs, kind, id), IInv,
         ~InProgress(s, rs)
  PROVE  Authority!Grant
PROOF
  <1> DEFINE keep == Retained \ Overlapping(s, rs)
             new == {id[r] : r \in rs}
             key(r) == <<s, r.message>>
  <1>1. Inserted(s, rs, kind, id) /\ Recorded(s, rs, kind, id)
    BY ReplaceEffect
  <1>2. \A k : k \in DOMAIN marks' <=> k \in keep \/ \E r \in rs : k = key(r)
    BY <1>1 DEF Inserted
  <1>3. \A k \in keep : marks'[k] = marks[k]
    BY <1>1 DEF Inserted
  <1>4. \A r \in rs : marks'[key(r)].id = id[r] /\ ~marks'[key(r)].executing
    <2>1. TAKE r \in rs
    <2>2. marks'[key(r)] = NewMark(r, kind, id[r])
      BY <1>1 DEF Inserted
    <2>3. QED
      BY <2>2 DEF NewMark
  <1>5. /\ DOMAIN issued' = DOMAIN issued \cup new
        /\ \A i \in DOMAIN issued : issued'[i] = issued[i]
    BY <1>1 DEF Recorded
  <1>6. \A r \in rs : /\ issued'[id[r]].subject = s
                      /\ issued'[id[r]].message = r.message
                      /\ issued'[id[r]].draft = r.draft
    <2>1. TAKE r \in rs
    <2>2. issued'[id[r]] = [subject |-> s, message |-> r.message, draft |-> r.draft,
                            kind |-> kind, at |-> now, serial |-> NextSerial]
      BY <1>1 DEF Recorded
    <2>3. QED
      BY <2>2
  <1>7. keep \subseteq DOMAIN marks
    BY DEF Retained
  <1>8. \A k \in DOMAIN marks : marks[k].executing => k \in keep
    BY DEF Retained, InProgress
  <1>9. \A k \in keep : \A r \in rs : ~SameResource(k, s, r)
    BY DEF Overlapping
  <1>10. new \subseteq MarkerIds \ DOMAIN issued
    BY DEF FreshIds
  <1>11. \A k \in keep : /\ marks[k].id \in DOMAIN issued
                         /\ issued[marks[k].id].subject = k[1]
                         /\ issued[marks[k].id].message = k[2]
                         /\ issued[marks[k].id].draft = marks[k].draft
    BY <1>7 DEF IInv, MarksIssued
  <1>12. \A k \in keep : \A r \in rs : ~Conflict(issued'[id[r]], issued[marks[k].id])
    BY <1>6, <1>9, <1>11 DEF Conflict, SameResource
  <1>13. \A r, q \in rs : id[r] # id[q] => ~Conflict(issued'[id[r]], issued'[id[q]])
    BY <1>6 DEF Conflict, Distinct
  <1> HIDE DEF keep, key
  <1>14. \A i \in Granted' : i \in new \/ \E k \in keep : ~marks[k].executing /\ marks[k].id = i
    <2>1. SUFFICES ASSUME NEW k \in DOMAIN marks', ~marks'[k].executing
                   PROVE  \/ marks'[k].id \in new
                          \/ \E j \in keep : ~marks[j].executing /\ marks[j].id = marks'[k].id
      BY GrantedRunningNext
    <2>2. QED
      BY <1>2, <1>3, <1>4, <2>1
  <1>15. new \subseteq Granted'
    <2>1. SUFFICES ASSUME NEW r \in rs PROVE id[r] \in Granted'
      OBVIOUS
    <2>2. key(r) \in DOMAIN marks' /\ ~marks'[key(r)].executing /\ marks'[key(r)].id = id[r]
      BY <1>2, <1>4
    <2>3. QED
      BY <2>2, GrantedRunningNext
  <1>16. Granted' \subseteq Granted \cup new
    BY <1>7, <1>14, GrantedRunning
  <1>17. Running' = Running
    <2>1. ASSUME NEW i \in Running PROVE i \in Running'
      <3>1. PICK k \in DOMAIN marks : marks[k].executing /\ marks[k].id = i
        BY GrantedRunning
      <3>2. k \in DOMAIN marks' /\ marks'[k].executing /\ marks'[k].id = i
        BY <1>2, <1>3, <1>8, <3>1
      <3>3. QED
        BY <3>2, GrantedRunningNext
    <2>2. ASSUME NEW i \in Running' PROVE i \in Running
      <3>1. PICK k \in DOMAIN marks' : marks'[k].executing /\ marks'[k].id = i
        BY GrantedRunningNext
      <3>2. k \in keep
        BY <1>2, <1>4, <3>1
      <3>3. QED
        BY <1>3, <1>7, <3>1, <3>2, GrantedRunning
    <2>3. QED
      BY <2>1, <2>2
  <1>18. \A i \in new : \A j \in Running \cup (Granted' \ new) : ~Conflict(issued'[i], issued[j])
    <2>1. SUFFICES ASSUME NEW r \in rs, NEW j \in Running \cup (Granted' \ new)
                   PROVE  ~Conflict(issued'[id[r]], issued[j])
      OBVIOUS
    <2>2. PICK k \in keep : marks[k].id = j
      BY <1>8, <1>14, GrantedRunning
    <2>3. QED
      BY <1>12, <2>2
  <1>19. \A i, j \in new : i # j => ~Conflict(issued'[i], issued'[j])
    BY <1>13
  <1> HIDE DEF new
  <1>20. QED
    BY <1>5, <1>10, <1>15, <1>16, <1>17, <1>18, <1>19 DEF Authority!Grant, Granted, Running

\* Every step of the store is a step of the authority or leaves it alone.
LEMMA StepImplements ==
  ASSUME IInv, [Next]_vars
  PROVE  [Authority!Next]_(Authority!vars)
PROOF
  <1>1. ASSUME NEW s \in Subjects, NEW kind \in Kinds, NEW r \in Resources(kind),
               RegisterActionMark(s, r, kind)
        PROVE  Authority!Grant
    <2>1. {r} \in Requests(kind) /\ Distinct({r})
      BY FS_Singleton DEF Requests, Distinct
    <2>2. PICK id \in FreshIds({r}) : Replace(s, {r}, kind, id)
      BY <1>1 DEF RegisterActionMark
    <2>3. QED
      BY <1>1, <2>1, <2>2, ReplaceGrants DEF RegisterActionMark
  <1>2. ASSUME NEW s \in Subjects, NEW kind \in Kinds, NEW rs \in Requests(kind),
               RegisterActionMarks(s, rs, kind)
        PROVE  Authority!Grant
    <2>1. PICK id \in FreshIds(rs) : Replace(s, rs, kind, id)
      BY <1>2 DEF RegisterActionMarks
    <2>2. QED
      BY <1>2, <2>1, ReplaceGrants DEF RegisterActionMarks
  <1>3. ASSUME NEW s \in Subjects, NEW kind \in Kinds, NEW rs \in Requests(kind),
               RegisterRefused(s, rs)
        PROVE  Authority!Lapse
    <2>1. DOMAIN marks' = Retained /\ \A k \in Retained : marks'[k] = marks[k]
      BY <1>3 DEF RegisterRefused
    <2>2. /\ Retained \subseteq DOMAIN marks
          /\ \A k \in DOMAIN marks : marks[k].executing => k \in Retained
      BY DEF Retained
    <2>3. Granted' \subseteq Granted
      BY <2>1, <2>2, GrantedRunning, GrantedRunningNext
    <2>4. Running' = Running
      <3>1. Running' \subseteq Running
        BY <2>1, <2>2, GrantedRunning, GrantedRunningNext
      <3>2. Running \subseteq Running'
        BY <2>1, <2>2, GrantedRunning, GrantedRunningNext
      <3>3. QED
        BY <3>1, <3>2
    <2>5. UNCHANGED issued
      BY <1>3 DEF RegisterRefused
    <2>6. QED
      BY <2>3, <2>4, <2>5 DEF Authority!Lapse, Granted, Running
  <1>4. ASSUME NEW s \in Subjects, NEW kind \in Kinds, NEW ids \in SUBSET DOMAIN issued,
               ConsumeActionMarks(s, ids, kind)
        PROVE  Authority!Begin
    <2> DEFINE found == {k \in DOMAIN marks : marks[k].id \in ids}
    <2>1. /\ DOMAIN marks' = DOMAIN marks
          /\ \A k \in DOMAIN marks \ found : marks'[k] = marks[k]
          /\ \A k \in found : marks'[k] = [marks[k] EXCEPT !.executing = TRUE]
          /\ UNCHANGED issued
      BY <1>4 DEF ConsumeActionMarks
    <2>2. \A k \in found : ~marks[k].executing
      BY <1>4 DEF ConsumeActionMarks, Redeemable
    <2>3. \A i \in ids : \E k \in found : marks[k].id = i
      BY <1>4 DEF ConsumeActionMarks
    <2>4. \A k \in found : marks'[k].executing /\ marks'[k].id = marks[k].id
      <3>1. TAKE k \in found
      <3>2. marks[k] \in Mark /\ marks'[k] = [marks[k] EXCEPT !.executing = TRUE]
        BY <2>1 DEF IInv, TypeOK
      <3>3. QED
        BY <3>2 DEF Mark
    <2>5. \A k \in DOMAIN marks : k \in found <=> marks[k].id \in ids
      OBVIOUS
    <2>6. found \subseteq DOMAIN marks
      OBVIOUS
    <2> HIDE DEF found
    <2>7. ids \subseteq Granted
      BY <2>2, <2>3, <2>6, GrantedRunning
    <2>8. Granted' = Granted \ ids
      <3>1. ASSUME NEW i \in Granted' PROVE i \in Granted \ ids
        <4>1. PICK k \in DOMAIN marks' : ~marks'[k].executing /\ marks'[k].id = i
          BY GrantedRunningNext
        <4>2. k \in DOMAIN marks /\ k \notin found /\ marks'[k] = marks[k]
          BY <2>1, <2>4, <4>1
        <4>3. QED
          BY <2>5, <4>1, <4>2, GrantedRunning
      <3>2. ASSUME NEW i \in Granted \ ids PROVE i \in Granted'
        <4>1. PICK k \in DOMAIN marks : ~marks[k].executing /\ marks[k].id = i
          BY GrantedRunning
        <4>2. k \in DOMAIN marks' /\ marks'[k] = marks[k]
          BY <2>1, <2>5, <3>2, <4>1
        <4>3. QED
          BY <4>1, <4>2, GrantedRunningNext
      <3>3. QED
        BY <3>1, <3>2
    <2>9. Running' = Running \cup ids
      <3>1. ASSUME NEW i \in Running' PROVE i \in Running \cup ids
        <4>1. PICK k \in DOMAIN marks' : marks'[k].executing /\ marks'[k].id = i
          BY GrantedRunningNext
        <4>2. CASE k \in found
          BY <2>4, <2>5, <2>6, <4>1, <4>2
        <4>3. CASE k \notin found
          BY <2>1, <4>1, <4>3, GrantedRunning
        <4>4. QED
          BY <4>2, <4>3
      <3>2. ASSUME NEW i \in Running PROVE i \in Running'
        <4>1. PICK k \in DOMAIN marks : marks[k].executing /\ marks[k].id = i
          BY GrantedRunning
        <4>2. k \in DOMAIN marks' /\ marks'[k] = marks[k]
          BY <2>1, <2>2, <4>1
        <4>3. QED
          BY <4>1, <4>2, GrantedRunningNext
      <3>3. ASSUME NEW i \in ids PROVE i \in Running'
        <4>1. PICK k \in found : marks[k].id = i
          BY <2>3
        <4>2. k \in DOMAIN marks' /\ marks'[k].executing /\ marks'[k].id = i
          BY <2>1, <2>4, <2>6, <4>1
        <4>3. QED
          BY <4>2, GrantedRunningNext
      <3>4. QED
        BY <3>1, <3>2, <3>3
    <2>10. QED
      BY <2>1, <2>7, <2>8, <2>9 DEF Authority!Begin, Granted, Running
  <1>5. ASSUME NEW h \in held, FinishActionMark(h)
        PROVE  Authority!End
    <2> DEFINE keep == {j \in DOMAIN marks : ~(j = h.key /\ marks[j].id = h.id)}
    <2>1. DOMAIN marks' = keep /\ (\A k \in keep : marks'[k] = marks[k]) /\ UNCHANGED issued
      BY <1>5 DEF FinishActionMark
    <2>2. keep \subseteq DOMAIN marks
      OBVIOUS
    <2>3. \A k \in DOMAIN marks : ~marks[k].executing => k \in keep
      BY DEF IInv, HeldIsExecuting
    <2> HIDE DEF keep
    <2>4. Running' \subseteq Running
      BY <2>1, <2>2, GrantedRunning, GrantedRunningNext
    <2>5. Granted' = Granted
      <3>1. Granted' \subseteq Granted
        BY <2>1, <2>2, GrantedRunning, GrantedRunningNext
      <3>2. Granted \subseteq Granted'
        BY <2>1, <2>2, <2>3, GrantedRunning, GrantedRunningNext
      <3>3. QED
        BY <3>1, <3>2
    <2>6. QED
      BY <2>1, <2>4, <2>5 DEF Authority!End, Granted, Running
  <1>6. CASE Restart
    <2>1. DOMAIN marks' = {} /\ UNCHANGED issued
      BY <1>6 DEF Restart
    <2>2. Granted' = {} /\ Running' = {}
      BY <2>1, GrantedRunningNext
    <2>3. Authority!Forget
      BY <2>1, <2>2 DEF Authority!Forget, Granted, Running
    <2>4. QED
      BY <2>3 DEF Authority!Next
  <1>7. CASE Tick \/ UNCHANGED vars
    <2>1. UNCHANGED <<marks, issued>>
      BY <1>7 DEF Tick, vars
    <2>2. QED
      BY <2>1 DEF Authority!vars, IdsOf, ExecutingKeys
  <1>8. QED
    BY <1>1, <1>2, <1>3, <1>4, <1>5, <1>6, <1>7 DEF Next, Authority!Next

\* The map, the clock and the limit implement the authority they promise: a
\* marker is granted once, executed at most once and never beside a clashing one.
THEOREM StoreImplementsAuthority == Spec => ImplementsAuthority
PROOF
  <1>1. Init => Authority!Init
    <2> SUFFICES ASSUME Init PROVE Authority!Init
      OBVIOUS
    <2>1. DOMAIN marks = {} /\ issued = [i \in {} |-> {}]
      BY DEF Init
    <2>2. QED
      BY <2>1 DEF Authority!Init, IdsOf, ExecutingKeys
  <1>2. IInv /\ [Next]_vars => [Authority!Next]_(Authority!vars)
    BY StepImplements
  <1>3. QED
    BY <1>1, <1>2, Invariant, PTL DEF Spec, ImplementsAuthority, Authority!Spec
================================================================================
