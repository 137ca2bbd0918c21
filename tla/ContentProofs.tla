---------------------------- MODULE ContentProofs ----------------------------
(***************************************************************************)
(* Proofs about the readers of the content tables: Publisher, then         *)
(* Learning, each beside any administration.                               *)
(***************************************************************************)
EXTENDS Publisher, Learning, ContentLemmas

-----------------------------------------------------------------------------
(***************************************************************************)
(* Publisher: any number of publishes beside each other.                   *)
(***************************************************************************)
(* Whatever an administration request does to a database that satisfies the *)
(* schema, it is one transaction that leaves such a database.               *)
LEMMA EditsAreSound ==
  ASSUME Sound(db),
         \/ EditQuestion \/ EditWorkbook \/ EditCategory \/ EditAnnouncement \/ EditApp \/ AddImage
  PROVE  \E after : Sound(after) /\ Edit(after)
<1>1. CASE EditQuestion
  BY <1>1, ContentAssumption, RequestsAreSound DEF EditQuestion
<1>2. CASE EditWorkbook
  BY <1>2, ContentAssumption, RequestsAreSound DEF EditWorkbook
<1>3. CASE EditCategory
  BY <1>3, RequestsAreSound DEF EditCategory
<1>4. CASE EditAnnouncement
  BY <1>4, CreatedAnnouncement, UpdatedAnnouncement, DeletedAnnouncement DEF EditAnnouncement
<1>5. CASE EditApp
  BY <1>5, CreatedApp, UpdatedApp, DeletedApp DEF EditApp
<1>6. CASE AddImage
  BY <1>6, RequestsAreSound DEF AddImage
<1> QED
  BY <1>1, <1>2, <1>3, <1>4, <1>5, <1>6

-----------------------------------------------------------------------------
(* A publish on its way: the record it is, what it has read of a list, and  *)
(* that something is left to build while it builds the details of one.      *)
Stages == Lists \cup Details \cup {"idle", "done", "failed"}
PublishOK(r) ==
  /\ DOMAIN r = {"stage", "todo", "draft", "alone"}
  /\ r.stage \in Stages /\ r.alone \in BOOLEAN
  /\ r.stage \in Lists /\ r.draft # << >> => IsSequence(r.draft[1])
  /\ r.stage \in Details => IsSequence(r.todo) /\ r.todo # << >>
PublishInv ==
  /\ DOMAIN pub = Publishes
  /\ \A p \in Publishes : PublishOK(pub[p])
  /\ \A k \in DOMAIN bucket : k[1] \in Lists \cup Details /\ bucket[k].by \in Publishes

(* An entry of a list is in the bucket, or still to be built by the publish *)
(* that wrote the list, unless that one failed.                             *)
TodoIds(r) ==
  IF r.stage = "announcement" THEN {r.todo[i].id : i \in DOMAIN r.todo}
                              ELSE {r.todo[i] : i \in DOMAIN r.todo}
Awaits(l, id) == /\ pub[bucket[ListKey(l)].by].stage = DetailOf[l]
                 /\ id \in TodoIds(pub[bucket[ListKey(l)].by])
ListInv ==
  \A l \in Lists :
    (ListKey(l) \in DOMAIN bucket /\ pub[bucket[ListKey(l)].by].stage # "failed") =>
       \A i \in DOMAIN Held(ListKey(l)) :
          LET id == Held(ListKey(l))[i].id
          IN  <<DetailOf[l], id>> \in DOMAIN bucket \/ Awaits(l, id)

(* What a publish uploads as a list is a sequence: the tables are finite.   *)
LEMMA ListsAreSequences ==
  ASSUME NEW d, Sound(d)
  PROVE  IsSequence(buildCategories(d)) /\ IsSequence(buildWorkbooks(d)) /\ IsSequence(buildAnnouncements(d))
<1>1. IsFiniteSet(d.categories) /\ IsFiniteSet(d.workbooks) /\ IsFiniteSet(d.announcements)
  BY DEF Sound, Intact, SerialsOK, SerialOK, Serial
<1>2. IsSequence(buildCategories(d))
  <2> DEFINE n == Cardinality(d.categories)
  <2>1. n \in Nat
    BY <1>1, FS_CardinalityType
  <2>2. DOMAIN ById(d.categories) = 1 .. n
    BY DEF ById, OrderBy
  <2>3. buildCategories(d) = [i \in 1 .. n |-> buildCategories(d)[i]]
    BY <2>2 DEF buildCategories, ListAllCategories, Counted
  <2> QED
    BY <2>1, <2>3, FunctionIsSequence
<1>3. IsSequence(buildWorkbooks(d))
  <2> DEFINE W == {w \in d.workbooks : w.published}
             n == Cardinality(W)
  <2>1. n \in Nat
    BY <1>1, FS_Subset, FS_CardinalityType
  <2>2. DOMAIN ById(W) = 1 .. n
    BY DEF ById, OrderBy
  <2>3. buildWorkbooks(d) = [i \in 1 .. n |-> buildWorkbooks(d)[i]]
    BY <2>2 DEF buildWorkbooks, ListAllWorkbooks, Listed
  <2> QED
    BY <2>1, <2>3, FunctionIsSequence
<1>4. IsSequence(buildAnnouncements(d))
  <2> DEFINE rows == NewestFirst(d.announcements)
             n == Cardinality(d.announcements)
             last == IF 0 + Announced < Len(rows) THEN 0 + Announced ELSE Len(rows)
             page == SubSeq(rows, 0 + 1, last)
             T == {rows[i] : i \in DOMAIN rows}
  <2>1. n \in Nat
    BY <1>1, FS_CardinalityType
  <2> DEFINE Before(a, b) == \/ a.publishedAt > b.publishedAt
                             \/ a.publishedAt = b.publishedAt /\ a.id > b.id
             At(i) == CHOOSE r \in d.announcements :
                        Cardinality({s \in d.announcements : Before(s, r)}) = i - 1
  <2>9. rows = [i \in 1 .. n |-> At(i)]
    BY DEF NewestFirst, OrderBy
  <2> HIDE DEF rows, n, At
  <2>2. rows = [i \in 1 .. n |-> rows[i]]
    BY <2>9
  <2>3. Len(rows) = n /\ DOMAIN rows = 1 .. n
    BY <2>1, <2>2
  <2>4. last \in Nat /\ last <= n
    BY <2>1, <2>3 DEF Announced
  <2> HIDE DEF last
  <2>5. \A i \in 0 + 1 .. last : rows[i] \in T
    BY <2>1, <2>3, <2>4
  <2>6. page \in Seq(T)
    BY <2>4, <2>5, SubSeqProperties
  <2> HIDE DEF page
  <2>7. Len(page) \in Nat /\ page = [i \in 1 .. Len(page) |-> page[i]]
    BY <2>6
  <2>8. IsSequence(page)
    BY <2>7, FunctionIsSequence
  <2> QED
    BY <2>8 DEF page, last, rows, buildAnnouncements, ListLatestAnnouncements, Page
<1> QED
  BY <1>2, <1>3, <1>4

(* The ids of the rows of a list, one for each.                             *)
LEMMA IdsOfSequence ==
  ASSUME NEW s, IsSequence(s), s # << >>
  PROVE  /\ IsSequence(Ids(s)) /\ Ids(s) # << >>
         /\ DOMAIN Ids(s) = DOMAIN s /\ \A i \in DOMAIN s : Ids(s)[i] = s[i].id
<1> DEFINE n == Len(s)
<1>1. n \in Nat /\ DOMAIN s = 1 .. n /\ n > 0
  BY DEF IsSequence
<1> HIDE DEF n
<1>2. DOMAIN Ids(s) = 1 .. n /\ Ids(s) = [i \in 1 .. n |-> Ids(s)[i]] /\ \A i \in 1 .. n : Ids(s)[i] = s[i].id
  BY <1>1 DEF Ids
<1>3. IsSequence(Ids(s)) /\ Ids(s) # << >>
  BY <1>1, <1>2, FunctionIsSequence
<1> QED
  BY <1>1, <1>2, <1>3

-----------------------------------------------------------------------------
(* What each kind of step does to a publish and the bucket.                 *)

(* Everything but an upload leaves the bucket, and a publish where it is,   *)
(* unless it begins or fails.                                               *)
Quiet(r, s) ==
  \/ s.stage = r.stage /\ s.todo = r.todo
  \/ r.stage = "idle" /\ s.stage \in Lists
  \/ s.stage = "failed"
LEMMA QuietSteps ==
  ASSUME UNCHANGED bucket, DOMAIN pub' = DOMAIN pub, PublishInv, ListInv,
         \A p \in Publishes : PublishOK(pub'[p]) /\ Quiet(pub[p], pub'[p])
  PROVE  PublishInv' /\ ListInv'
<1>1. PublishInv'
  BY DEF PublishInv
<1>2. ASSUME NEW l \in Lists, ListKey(l) \in DOMAIN bucket,
             pub'[bucket[ListKey(l)].by].stage # "failed",
             NEW i \in DOMAIN Held(ListKey(l))
      PROVE  LET id == Held(ListKey(l))[i].id
                 s == pub'[bucket[ListKey(l)].by]
             IN  \/ <<DetailOf[l], id>> \in DOMAIN bucket'
                 \/ s.stage = DetailOf[l] /\ id \in TodoIds(s)
  <2> DEFINE p == bucket[ListKey(l)].by
             id == Held(ListKey(l))[i].id
  <2>1. p \in Publishes
    BY <1>2 DEF PublishInv
  <2>2. Quiet(pub[p], pub'[p]) /\ pub'[p].stage # "failed"
    BY <1>2, <2>1
  <2>3. DetailOf[l] \in Details
    BY DEF Lists, DetailOf, Details
  <2>4. CASE pub'[p].stage = pub[p].stage /\ pub'[p].todo = pub[p].todo
    <3>1. TodoIds(pub'[p]) = TodoIds(pub[p])
      BY <2>4 DEF TodoIds
    <3>2. pub[p].stage # "failed"
      BY <1>2, <2>4
    <3>3. <<DetailOf[l], id>> \in DOMAIN bucket \/ Awaits(l, id)
      BY <1>2, <3>2 DEF ListInv
    <3> QED
      BY <2>4, <3>1, <3>3 DEF Awaits
  <2>5. CASE pub[p].stage = "idle"
    BY <1>2, <2>3, <2>5 DEF ListInv, Awaits, Details
  <2> QED
    BY <2>2, <2>4, <2>5 DEF Quiet
<1>3. ListInv'
  BY <1>2 DEF ListInv, Held, Awaits
<1> QED
  BY <1>1, <1>3

(* Uploading the list of a stage: all its entries are to be built now.      *)
LEMMA ListUploaded ==
  ASSUME Sound(db), PublishInv, ListInv, NEW p \in Publishes, PutList(p)
  PROVE  PublishInv' /\ ListInv'
<1> DEFINE l == pub[p].stage
           list == pub[p].draft[1]
           stage == DetailOf[l]
           todo == IF stage = "announcement" THEN list ELSE Ids(list)
           next == IF list = << >> THEN NextStage[stage] ELSE stage
           key == ListKey(l)
<1>1. /\ l \in Lists /\ pub[p].draft # << >>
      /\ bucket' = [k \in DOMAIN bucket \cup {key} |->
                      IF k = key THEN [by |-> p, body |-> list] ELSE bucket[k]]
      /\ pub' = [pub EXCEPT ![p].draft = << >>, ![p].todo = todo, ![p].stage = next]
  BY DEF PutList, uploadJSON
<1>2. /\ DOMAIN pub = Publishes /\ PublishOK(pub[p]) /\ IsSequence(list)
      /\ stage \in Details /\ next \in Details \cup Lists \cup {"done"}
  BY <1>1 DEF PublishInv, PublishOK, Lists, Details, DetailOf, NextStage
<1>3. /\ pub'[p].draft = << >> /\ pub'[p].todo = todo /\ pub'[p].stage = next
      /\ pub'[p].alone = pub[p].alone /\ DOMAIN pub'[p] = DOMAIN pub[p]
      /\ DOMAIN pub' = Publishes /\ \A q \in Publishes : q # p => pub'[q] = pub[q]
  BY <1>1, <1>2 DEF PublishOK
<1>4. list # << >> => /\ IsSequence(todo) /\ todo # << >>
                      /\ \A i \in DOMAIN list : list[i].id \in TodoIds(pub'[p])
  <2>1. ASSUME list # << >> PROVE /\ IsSequence(Ids(list)) /\ Ids(list) # << >> /\ DOMAIN Ids(list) = DOMAIN list
                                  /\ \A i \in DOMAIN list : Ids(list)[i] = list[i].id
    BY <1>2, <2>1, IdsOfSequence
  <2>2. ASSUME list # << >>, NEW i \in DOMAIN list PROVE list[i].id \in TodoIds(pub'[p])
    <3>1. pub'[p].stage = stage /\ pub'[p].todo = todo
      BY <1>3, <2>2
    <3> HIDE DEF list
    <3>2. CASE stage = "announcement"
      BY <2>2, <3>1, <3>2 DEF TodoIds
    <3>3. CASE stage # "announcement"
      BY <2>1, <2>2, <3>1, <3>3 DEF TodoIds
    <3> QED
      BY <3>2, <3>3
  <2> QED
    BY <1>2, <2>1, <2>2
<1>5. next \in Details => list # << >>
  BY <1>1 DEF Lists, Details, DetailOf, NextStage
<1> HIDE DEF list, todo, next, l
<1>6. key[1] \in Lists /\ \A m \in Lists : ListKey(m) = key => m = l
  BY <1>1 DEF ListKey
<1>7. PublishOK(pub'[p])
  BY <1>2, <1>3, <1>4, <1>5 DEF PublishOK, Stages
<1>8. /\ key \in DOMAIN bucket' /\ bucket'[key].by = p /\ bucket'[key].body = list
      /\ \A k \in DOMAIN bucket : k # key => k \in DOMAIN bucket' /\ bucket'[k] = bucket[k]
      /\ \A k \in DOMAIN bucket' : k = key \/ k \in DOMAIN bucket
  BY <1>1
<1> HIDE DEF key
<1>9. PublishInv'
  BY <1>3, <1>6, <1>7, <1>8 DEF PublishInv
<1>10. ASSUME NEW m \in Lists, ListKey(m) \in DOMAIN bucket',
              pub'[bucket'[ListKey(m)].by].stage # "failed",
              NEW i \in DOMAIN bucket'[ListKey(m)].body
       PROVE  LET id == bucket'[ListKey(m)].body[i].id
                  s == pub'[bucket'[ListKey(m)].by]
              IN  \/ <<DetailOf[m], id>> \in DOMAIN bucket'
                  \/ s.stage = DetailOf[m] /\ id \in TodoIds(s)
  <2> DEFINE id == bucket'[ListKey(m)].body[i].id
             q == bucket'[ListKey(m)].by
  <2>1. CASE ListKey(m) = key
    <3>1. m = l /\ q = p /\ bucket'[ListKey(m)].body = list /\ i \in DOMAIN list
      BY <1>6, <1>8, <1>10, <2>1
    <3>2. list # << >>
      BY <3>1
    <3>3. pub'[q].stage = DetailOf[m] /\ id \in TodoIds(pub'[q])
      BY <1>3, <1>4, <3>1, <3>2 DEF next
    <3> QED
      BY <3>3 DEF Awaits
  <2>2. CASE ListKey(m) # key
    <3>1. /\ ListKey(m) \in DOMAIN bucket /\ bucket'[ListKey(m)] = bucket[ListKey(m)]
          /\ q = bucket[ListKey(m)].by /\ q \in Publishes
      BY <1>8, <1>10, <2>2 DEF PublishInv
    <3>2. pub[q].stage # "failed"
      <4>1. l # "failed"
        BY <1>1 DEF Lists
      <4> QED
        BY <1>3, <1>10, <3>1, <4>1 DEF l
    <3>3. <<DetailOf[m], id>> \in DOMAIN bucket \/ Awaits(m, id)
      BY <1>10, <3>1, <3>2 DEF ListInv, Held
    <3>4. CASE <<DetailOf[m], id>> \in DOMAIN bucket
      BY <1>8, <3>4
    <3>5. CASE Awaits(m, id)
      <4>1. q # p
        <5>1. DetailOf[m] \in Details
          BY DEF Lists, Details, DetailOf
        <5>2. l \notin Details
          BY <1>1 DEF Lists, Details
        <5> QED
          BY <3>1, <3>5, <5>1, <5>2 DEF Awaits, l
      <4>2. pub'[q] = pub[q]
        BY <1>3, <3>1, <4>1
      <4> QED
        BY <3>1, <3>5, <4>2 DEF Awaits
    <3> QED
      BY <3>3, <3>4, <3>5
  <2> QED
    BY <2>1, <2>2
<1>11. ListInv'
  BY <1>10 DEF ListInv, Held, Awaits
<1> QED
  BY <1>9, <1>11

(* What is left to build when the first has been built.                     *)
LEMMA TodoLeft ==
  ASSUME NEW r, IsSequence(r.todo), r.todo # << >>, NEW s, s.todo = Tail(r.todo),
         s.stage = IF Len(r.todo) = 1 THEN NextStage[r.stage] ELSE r.stage,
         NEW id, id = IF r.stage = "announcement" THEN Head(r.todo).id ELSE Head(r.todo),
         NEW x \in TodoIds(r), x # id
  PROVE  s.stage = r.stage /\ x \in TodoIds(s)
<1>1. \A i \in DOMAIN r.todo : \/ r.todo[i] = Head(r.todo)
                               \/ /\ Len(r.todo) # 1
                                  /\ \E j \in DOMAIN Tail(r.todo) : Tail(r.todo)[j] = r.todo[i]
  BY TailOfSequence
<1>2. CASE r.stage = "announcement"
  <2>1. PICK i \in DOMAIN r.todo : x = r.todo[i].id
    BY <1>2 DEF TodoIds
  <2>2. Len(r.todo) # 1 /\ \E j \in DOMAIN Tail(r.todo) : Tail(r.todo)[j] = r.todo[i]
    BY <1>1, <1>2, <2>1
  <2> QED
    BY <1>2, <2>1, <2>2 DEF TodoIds
<1>3. CASE r.stage # "announcement"
  <2>1. PICK i \in DOMAIN r.todo : x = r.todo[i]
    BY <1>3 DEF TodoIds
  <2>2. Len(r.todo) # 1 /\ \E j \in DOMAIN Tail(r.todo) : Tail(r.todo)[j] = r.todo[i]
    BY <1>1, <1>3, <2>1
  <2> QED
    BY <1>3, <2>1, <2>2 DEF TodoIds
<1> QED
  BY <1>2, <1>3

(* Uploading the next detail takes it off what is to be built.              *)
LEMMA DetailUploaded ==
  ASSUME PublishInv, ListInv, NEW p \in Publishes, pub[p].stage \in Details,
         NEW id, NEW body, PutDetail(p, <<pub[p].stage, id>>, body),
         id = IF pub[p].stage = "announcement" THEN Head(pub[p].todo).id ELSE Head(pub[p].todo)
  PROVE  PublishInv' /\ ListInv'
<1> DEFINE stage == pub[p].stage
           todo == pub[p].todo
           key == <<stage, id>>
           next == IF Len(todo) = 1 THEN NextStage[stage] ELSE stage
<1>1. /\ bucket' = [k \in DOMAIN bucket \cup {key} |->
                      IF k = key THEN [by |-> p, body |-> body] ELSE bucket[k]]
      /\ pub' = [pub EXCEPT ![p].draft = << >>, ![p].todo = Tail(todo), ![p].stage = next]
  BY DEF PutDetail, uploadJSON
<1>2. /\ DOMAIN pub = Publishes /\ PublishOK(pub[p]) /\ IsSequence(todo) /\ todo # << >>
      /\ next \in Details \cup Lists \cup {"done"}
  BY DEF PublishInv, PublishOK, Lists, Details, NextStage
<1>3. /\ pub'[p].draft = << >> /\ pub'[p].todo = Tail(todo) /\ pub'[p].stage = next
      /\ pub'[p].alone = pub[p].alone /\ DOMAIN pub'[p] = DOMAIN pub[p]
      /\ DOMAIN pub' = Publishes /\ \A q \in Publishes : q # p => pub'[q] = pub[q]
  BY <1>1, <1>2 DEF PublishOK
<1>4. /\ IsSequence(Tail(todo)) /\ (Len(todo) # 1 => Tail(todo) # << >>)
      /\ \A i \in DOMAIN todo : \/ todo[i] = Head(todo)
                                \/ /\ Len(todo) # 1
                                   /\ \E j \in DOMAIN Tail(todo) : Tail(todo)[j] = todo[i]
  BY <1>2, TailOfSequence
<1>5. next \in Details => Len(todo) # 1
  <2>1. NextStage[stage] \in Lists \cup {"done"}
    BY DEF Lists, Details, NextStage
  <2>2. NextStage[stage] \notin Details
    BY <2>1 DEF Lists, Details
  <2> QED
    BY <2>2
<1>6. PublishOK(pub'[p])
  <2>1. pub'[p].stage \in Stages /\ pub'[p].alone \in BOOLEAN
    BY <1>2, <1>3 DEF PublishOK, Stages
  <2>2. pub'[p].stage \in Details => IsSequence(pub'[p].todo) /\ pub'[p].todo # << >>
    BY <1>3, <1>4, <1>5
  <2> HIDE DEF todo, next
  <2> QED
    BY <1>2, <1>3, <2>1, <2>2 DEF PublishOK
<1>7. ASSUME NEW x \in TodoIds(pub[p]), x # id PROVE next = stage /\ x \in TodoIds(pub'[p])
  <2> HIDE DEF todo, next
  <2>1. pub'[p].stage = next /\ pub'[p].todo = Tail(pub[p].todo)
    BY <1>3 DEF todo
  <2>2. pub'[p].stage = IF Len(pub[p].todo) = 1 THEN NextStage[pub[p].stage] ELSE pub[p].stage
    BY <2>1 DEF todo, next
  <2>3. IsSequence(pub[p].todo) /\ pub[p].todo # << >>
    BY <1>2 DEF todo
  <2>4. pub'[p].stage = pub[p].stage /\ x \in TodoIds(pub'[p])
    BY <1>7, <2>1, <2>2, <2>3, TodoLeft
  <2> QED
    BY <2>1, <2>4
<1>8. key[1] \in Details /\ \A m \in Lists : ListKey(m) # key
  BY DEF ListKey, Lists, Details
<1> HIDE DEF todo, next
<1>9. /\ key \in DOMAIN bucket' /\ bucket'[key].by = p
      /\ \A k \in DOMAIN bucket : k # key => k \in DOMAIN bucket' /\ bucket'[k] = bucket[k]
      /\ \A k \in DOMAIN bucket' : k = key \/ k \in DOMAIN bucket
  BY <1>1
<1>10. PublishInv'
  BY <1>3, <1>6, <1>8, <1>9 DEF PublishInv
<1>11. ASSUME NEW m \in Lists, ListKey(m) \in DOMAIN bucket',
              pub'[bucket'[ListKey(m)].by].stage # "failed",
              NEW i \in DOMAIN bucket'[ListKey(m)].body
       PROVE  LET x == bucket'[ListKey(m)].body[i].id
                  s == pub'[bucket'[ListKey(m)].by]
              IN  \/ <<DetailOf[m], x>> \in DOMAIN bucket'
                  \/ s.stage = DetailOf[m] /\ x \in TodoIds(s)
  <2> DEFINE x == bucket'[ListKey(m)].body[i].id
             q == bucket[ListKey(m)].by
  <2>1. /\ ListKey(m) \in DOMAIN bucket /\ bucket'[ListKey(m)] = bucket[ListKey(m)] /\ q \in Publishes
    BY <1>8, <1>9, <1>11 DEF PublishInv
  <2>2. pub[q].stage # "failed"
    BY <1>3, <1>11, <2>1 DEF Details
  <2>3. <<DetailOf[m], x>> \in DOMAIN bucket \/ Awaits(m, x)
    BY <1>11, <2>1, <2>2 DEF ListInv, Held
  <2>4. CASE <<DetailOf[m], x>> \in DOMAIN bucket
    BY <1>9, <2>4
  <2>5. CASE Awaits(m, x) /\ q # p
    <3>1. pub'[q] = pub[q]
      BY <1>3, <2>1, <2>5
    <3> QED
      BY <2>1, <2>5, <3>1 DEF Awaits
  <2>6. CASE Awaits(m, x) /\ q = p
    <3>1. stage = DetailOf[m] /\ x \in TodoIds(pub[p])
      BY <2>6 DEF Awaits
    <3>2. CASE x = id
      BY <1>9, <3>1, <3>2
    <3>3. CASE x # id
      <4>1. pub'[p].stage = DetailOf[m] /\ x \in TodoIds(pub'[p])
        BY <1>3, <1>7, <3>1, <3>3
      <4> QED
        BY <2>1, <2>6, <4>1 DEF Awaits
    <3> QED
      BY <3>2, <3>3
  <2> QED
    BY <2>3, <2>4, <2>5, <2>6
<1>12. ListInv'
  BY <1>11 DEF ListInv, Held, Awaits
<1> QED
  BY <1>10, <1>12

-----------------------------------------------------------------------------
(* The invariant: a database that satisfies the schema, publishes that are  *)
(* where they can be, and lists that resolve or are being resolved.         *)
PublisherInv ==
  /\ Sound(db) /\ PublishInv /\ ListInv
  /\ spent \in 0 .. Budget /\ failures \in 0 .. MaxFailures /\ settled \in BOOLEAN

(* Edits, requests to publish, reads and failures leave the bucket alone.   *)
LEMMA StepsWithoutUpload ==
  ASSUME PublisherInv,
         \/ \E after : Sound(after) /\ Edit(after)
         \/ \E p \in Publishes :
              \/ PostPublish(p) \/ BuildList(p)
              \/ ReadCategoryTitle(p) \/ ReadCategoryWorkbooks(p)
              \/ ReadWorkbookTitle(p) \/ ReadWorkbookQuestions(p) \/ ReadWorkbookImages(p)
              \/ Fail(p)
  PROVE  PublisherInv'
<1>1. /\ DOMAIN pub = Publishes /\ \A p \in Publishes : PublishOK(pub[p])
      /\ Budget \in Nat /\ MaxFailures \in Nat /\ spent \in 0 .. Budget /\ failures \in 0 .. MaxFailures
  BY PublisherAssumption DEF PublisherInv, PublishInv
<1>2. ASSUME NEW r, PublishOK(r)
      PROVE  LET s == [r EXCEPT !.alone = FALSE] IN PublishOK(s) /\ Quiet(r, s)
  BY <1>2 DEF PublishOK, Quiet
<1>3. CASE \E after : Sound(after) /\ Edit(after)
  <2>1. PICK after : Sound(after) /\ Edit(after)
    BY <1>3
  <2>2. /\ UNCHANGED bucket /\ DOMAIN pub' = DOMAIN pub
        /\ \A p \in Publishes : PublishOK(pub'[p]) /\ Quiet(pub[p], pub'[p])
    BY <1>1, <1>2, <2>1 DEF Edit
  <2>3. PublishInv' /\ ListInv'
    BY <2>2, QuietSteps DEF PublisherInv
  <2>4. db' = after /\ spent < Budget /\ spent' = spent + 1 /\ UNCHANGED failures /\ settled' \in BOOLEAN
    BY <2>1 DEF Edit
  <2>5. spent' \in 0 .. Budget /\ failures' \in 0 .. MaxFailures
    BY <1>1, <2>4
  <2>6. Sound(db')
    BY <2>1, <2>4
  <2> QED
    BY <2>3, <2>4, <2>5, <2>6 DEF PublisherInv
<1>4. ASSUME NEW p \in Publishes, PostPublish(p) PROVE PublisherInv'
  <2> DEFINE alone == \A o \in Publishes : ~Running(o)
             begun == [Idle EXCEPT !.stage = "categories", !.alone = alone]
  <2>1. /\ pub[p].stage = "idle" /\ UNCHANGED <<db, bucket, failures>>
        /\ pub' = [o \in Publishes |-> IF o = p THEN begun ELSE [pub[o] EXCEPT !.alone = FALSE]]
        /\ spent < Budget /\ spent' = spent + 1 /\ settled' = FALSE
    BY <1>4 DEF PostPublish
  <2>2. alone \in BOOLEAN
    OBVIOUS
  <2> HIDE DEF alone
  <2>3. begun.stage = "categories" /\ PublishOK(begun)
    BY <2>2 DEF PublishOK, Idle, Stages, Lists, Details
  <2> HIDE DEF begun
  <2>4. pub'[p] = begun /\ PublishOK(pub'[p]) /\ Quiet(pub[p], pub'[p])
    BY <2>1, <2>3 DEF Quiet, Lists
  <2>5. ASSUME NEW o \in Publishes, o # p PROVE PublishOK(pub'[o]) /\ Quiet(pub[o], pub'[o])
    BY <1>1, <1>2, <2>1, <2>5
  <2>6. PublishInv' /\ ListInv'
    BY <1>1, <2>1, <2>4, <2>5, QuietSteps DEF PublisherInv
  <2>7. spent' \in 0 .. Budget /\ failures' \in 0 .. MaxFailures
    BY <1>1, <2>1
  <2>8. settled' \in BOOLEAN /\ Sound(db')
    BY <2>1 DEF PublisherInv
  <2> QED
    BY <2>6, <2>7, <2>8 DEF PublisherInv
<1>5. ASSUME NEW p \in Publishes, NEW part, Read(p, part),
             pub[p].stage \in Lists => IsSequence(part) /\ pub[p].draft = << >>
      PROVE  PublisherInv'
  <2>1. /\ UNCHANGED <<db, bucket, spent, failures, settled>>
        /\ pub' = [pub EXCEPT ![p].draft = Append(pub[p].draft, part)]
    BY <1>5 DEF Read
  <2>2. Append(<< >>, part)[1] = part
    OBVIOUS
  <2>3. pub[p].stage \in Lists => IsSequence(Append(pub[p].draft, part)[1])
    BY <1>5, <2>2
  <2>4. /\ DOMAIN pub'[p] = DOMAIN pub[p] /\ pub'[p].stage = pub[p].stage /\ pub'[p].todo = pub[p].todo
        /\ pub'[p].alone = pub[p].alone /\ pub'[p].draft = Append(pub[p].draft, part)
        /\ DOMAIN pub' = Publishes /\ \A o \in Publishes : o # p => pub'[o] = pub[o]
    BY <1>1, <2>1 DEF PublishOK
  <2>5. PublishOK(pub'[p])
    BY <1>1, <2>3, <2>4 DEF PublishOK
  <2>6. \A o \in Publishes : PublishOK(pub'[o]) /\ Quiet(pub[o], pub'[o])
    BY <1>1, <2>4, <2>5 DEF Quiet
  <2>7. PublishInv' /\ ListInv'
    BY <1>1, <2>1, <2>4, <2>6, QuietSteps DEF PublisherInv
  <2> QED
    BY <1>1, <2>1, <2>7 DEF PublisherInv
<1>6. ASSUME NEW p \in Publishes, BuildList(p) PROVE PublisherInv'
  <2>1. IsSequence(buildCategories(db)) /\ IsSequence(buildWorkbooks(db)) /\ IsSequence(buildAnnouncements(db))
    BY ListsAreSequences DEF PublisherInv
  <2>2. pub[p].stage \in Lists /\ pub[p].draft = << >> /\ \E part : IsSequence(part) /\ Read(p, part)
    BY <1>6, <2>1 DEF BuildList, Lists
  <2> QED
    BY <1>5, <2>2
<1>7. ASSUME NEW p \in Publishes,
             \/ ReadCategoryTitle(p) \/ ReadCategoryWorkbooks(p)
             \/ ReadWorkbookTitle(p) \/ ReadWorkbookQuestions(p) \/ ReadWorkbookImages(p)
      PROVE  PublisherInv'
  <2>1. pub[p].stage \notin Lists /\ \E part : Read(p, part)
    BY <1>7 DEF ReadCategoryTitle, ReadCategoryWorkbooks, ReadWorkbookTitle, ReadWorkbookQuestions,
                ReadWorkbookImages, Lists
  <2> QED
    BY <1>5, <2>1
<1>8. ASSUME NEW p \in Publishes, Fail(p) PROVE PublisherInv'
  <2> DEFINE failed == [Idle EXCEPT !.stage = "failed"]
  <2>1. /\ UNCHANGED <<db, bucket, spent, settled>> /\ pub' = [pub EXCEPT ![p] = failed]
        /\ UNCHANGED failures \/ (failures < MaxFailures /\ failures' = failures + 1)
    BY <1>8 DEF Fail
  <2>2. failed.stage = "failed" /\ PublishOK(failed)
    BY DEF PublishOK, Idle, Stages, Lists, Details
  <2> HIDE DEF failed
  <2>3. DOMAIN pub' = Publishes /\ pub'[p] = failed /\ \A o \in Publishes : o # p => pub'[o] = pub[o]
    BY <1>1, <2>1
  <2>4. \A o \in Publishes : PublishOK(pub'[o]) /\ Quiet(pub[o], pub'[o])
    BY <1>1, <2>2, <2>3 DEF Quiet
  <2>5. PublishInv' /\ ListInv'
    BY <1>1, <2>1, <2>3, <2>4, QuietSteps DEF PublisherInv
  <2>6. failures' \in 0 .. MaxFailures
    BY <1>1, <2>1
  <2> QED
    BY <1>1, <2>1, <2>5, <2>6 DEF PublisherInv
<1> QED
  BY <1>3, <1>4, <1>6, <1>7, <1>8

(* Uploads write the bucket and leave the database alone.                   *)
LEMMA StepsWithUpload ==
  ASSUME PublisherInv, NEW p \in Publishes,
         PutList(p) \/ PutCategory(p) \/ PutWorkbook(p) \/ PutAnnouncement(p)
  PROVE  PublisherInv'
<1>1. Sound(db) /\ PublishInv /\ ListInv /\ pub[p].alone \in BOOLEAN
  BY DEF PublisherInv, PublishInv, PublishOK
<1>2. CASE PutList(p)
  <2>1. PublishInv' /\ ListInv'
    BY <1>1, <1>2, ListUploaded
  <2>2. UNCHANGED <<db, spent, failures>> /\ settled' \in BOOLEAN
    BY <1>1, <1>2 DEF PutList
  <2> QED
    BY <2>1, <2>2 DEF PublisherInv
<1>3. ASSUME NEW id, NEW body, PutDetail(p, <<pub[p].stage, id>>, body), pub[p].stage \in Details,
             id = IF pub[p].stage = "announcement" THEN Head(pub[p].todo).id ELSE Head(pub[p].todo)
      PROVE  PublisherInv'
  <2>1. PublishInv' /\ ListInv'
    BY <1>1, <1>3, DetailUploaded
  <2>2. UNCHANGED <<db, spent, failures>> /\ settled' \in BOOLEAN
    BY <1>1, <1>3 DEF PutDetail
  <2> QED
    BY <2>1, <2>2 DEF PublisherInv
<1>4. CASE PutCategory(p)
  BY <1>3, <1>4 DEF PutCategory, Details
<1>5. CASE PutWorkbook(p)
  BY <1>3, <1>5 DEF PutWorkbook, Details
<1>6. CASE PutAnnouncement(p)
  BY <1>3, <1>6 DEF PutAnnouncement, Details
<1> QED
  BY <1>2, <1>4, <1>5, <1>6

(* The invariant holds of every behaviour.                                  *)
LEMMA PublisherInvariant == Spec => []PublisherInv
<1>1. Init => PublisherInv
  <2> SUFFICES ASSUME Init PROVE PublisherInv
    OBVIOUS
  <2>1. Sound(db)
    BY ContentAssumption, SoundIsSchema DEF Init
  <2>2. \A p \in Publishes : PublishOK(Idle)
    BY DEF PublishOK, Idle, Stages, Lists, Details
  <2>3. DOMAIN bucket = {}
    BY DEF Init
  <2>4. PublishInv
    BY <2>2, <2>3 DEF Init, PublishInv
  <2>5. ListInv
    BY <2>3 DEF ListInv
  <2>6. spent \in 0 .. Budget /\ failures \in 0 .. MaxFailures
    BY PublisherAssumption DEF Init
  <2>7. settled \in BOOLEAN
    BY DEF Init
  <2> QED
    BY <2>1, <2>4, <2>5, <2>6, <2>7 DEF PublisherInv
<1>2. PublisherInv /\ [Next]_vars => PublisherInv'
  <2> SUFFICES ASSUME PublisherInv, [Next]_vars PROVE PublisherInv'
    OBVIOUS
  <2>1. CASE EditQuestion \/ EditWorkbook \/ EditCategory \/ EditAnnouncement \/ EditApp \/ AddImage
    <3>1. \E after : Sound(after) /\ Edit(after)
      BY <2>1, EditsAreSound DEF PublisherInv
    <3> QED
      BY <3>1, StepsWithoutUpload
  <2>2. ASSUME NEW p \in Publishes, PostPublish(p) \/ PublishStep(p) PROVE PublisherInv'
    BY <2>2, StepsWithoutUpload, StepsWithUpload DEF PublishStep
  <2>3. CASE UNCHANGED vars
    <3>1. UNCHANGED <<db, bucket, pub, spent, failures, settled>>
      BY <2>3 DEF vars
    <3>2. Sound(db)' /\ PublishInv' /\ ListInv'
      BY <3>1 DEF PublisherInv, PublishInv, ListInv, Held, Awaits
    <3> QED
      BY <3>1, <3>2 DEF PublisherInv
  <2> QED
    BY <2>1, <2>2, <2>3 DEF Next
<1> QED
  BY <1>1, <1>2, PTL DEF Spec

(* Whatever the administration API is asked to do, in whatever order and    *)
(* beside whatever publishes, the content database satisfies its schema:    *)
(* keys are unique, and every reference names a row.                        *)
THEOREM PublisherTypeCorrect == Spec => []TypeOK
<1>1. PublisherInv => TypeOK
  <2> SUFFICES ASSUME PublisherInv PROVE TypeOK
    OBVIOUS
  <2>1. TablesOK(db) /\ SchemaOK(db)
    BY SoundIsSchema DEF PublisherInv
  <2>2. DOMAIN pub = Publishes /\ \A p \in Publishes : pub[p].stage \in Stages
    BY DEF PublisherInv, PublishInv, PublishOK
  <2> QED
    BY <2>1, <2>2 DEF PublisherInv, PublishInv, TypeOK, Stages
<1> QED
  BY <1>1, PublisherInvariant, PTL

(* A list written by a publish that succeeded names only objects that are   *)
(* in the bucket, whatever other publishes and edits run beside it: it has  *)
(* uploaded a detail for every entry (or failed), and nothing is deleted.   *)
THEOREM PublishedListsResolve == Spec => []SuccessfulListsResolve
<1>1. PublisherInv => SuccessfulListsResolve
  <2> SUFFICES ASSUME ListInv PROVE SuccessfulListsResolve
    BY DEF PublisherInv
  <2>1. \A l \in Lists : DetailOf[l] # "done"
    BY DEF Lists, DetailOf
  <2> QED
    BY <2>1 DEF ListInv, Awaits, SuccessfulListsResolve
<1> QED
  BY <1>1, PublisherInvariant, PTL

-----------------------------------------------------------------------------
(***************************************************************************)
(* Learning: every length of a day and offset of Japan, every set of       *)
(* submissions, users and bodies.                                          *)
(***************************************************************************)
(* What is stored carries ids below the next one, each once, and no time    *)
(* after the clock.                                                         *)
CounterInv == nextId \in Nat \ {0} /\ clock \in Nat
RowsInv ==
  /\ IsFiniteSet(answers)
  /\ \A a \in answers : /\ a.id \in Nat /\ a.id < nextId
                        /\ a.at \in Nat /\ a.at <= clock
  /\ \A a, b \in answers : a.id = b.id => a = b
(* A submission on its way carries the body it was received with.           *)
BodiesInv ==
  /\ DOMAIN sub = Submissions
  /\ \A s \in Submissions : sub[s].stage \in {"keys", "insert"} => sub[s].body \in Bodies
LearningInv == CounterInv /\ RowsInv /\ BodiesInv

-----------------------------------------------------------------------------
(* One INSERT of several answers stores rows with the ids that follow.      *)
LEMMA CreatedRows ==
  ASSUME LearningAssumption, LearningInv, NEW user, NEW w, NEW graded,
         NEW b \in Bodies, NEW later \in Nat, clock <= later
  PROVE  LET rows == CreateUserAnswers(user, w, b.answers, graded)
             next == nextId + Len(b.answers)
         IN  /\ next \in Nat \ {0}
             /\ IsFiniteSet(rows)
             /\ \A a \in rows : a.id \in Nat /\ a.id < next /\ a.at \in Nat /\ a.at <= later
             /\ \A a, c \in rows : a.id = c.id => a = c
<1> DEFINE picks == b.answers
           n == Len(picks)
           row(i) == [id |-> nextId + i - 1, user |-> user, workbook |-> w, at |-> clock,
                      question |-> picks[i].question, selected |-> picks[i].selected,
                      correct |-> graded[i]]
           new == {row(i) : i \in 1 .. n}
<1>1. n \in Nat /\ DOMAIN picks = 1 .. n
  BY DEF LearningAssumption
<1> HIDE DEF picks, n
<1>2. CreateUserAnswers(user, w, b.answers, graded) = answers \cup new
  BY <1>1 DEF CreateUserAnswers, picks
<1>3. \A i \in 1 .. n : row(i).id = nextId + i - 1 /\ row(i).at = clock
  OBVIOUS
<1>4. IsFiniteSet(new)
  <2> DEFINE f == [i \in 1 .. n |-> row(i)]
  <2>1. f \in Surjection(1 .. n, new)
    BY DEF Surjection
  <2>2. IsFiniteSet(1 .. n)
    BY <1>1, FS_Interval
  <2> QED
    BY <2>1, <2>2, FS_Surjection
<1>5. IsFiniteSet(answers \cup new)
  BY <1>4, FS_Union DEF LearningInv, RowsInv
<1>6. \A a \in new : a.id \in Nat /\ nextId <= a.id /\ a.id < nextId + n /\ a.at = clock
  <2> SUFFICES ASSUME NEW i \in 1 .. n
               PROVE  LET a == row(i)
                      IN  a.id \in Nat /\ nextId <= a.id /\ a.id < nextId + n /\ a.at = clock
    OBVIOUS
  <2> QED
    BY <1>1, <1>3 DEF LearningInv, CounterInv
<1>7. \A a, c \in new : a.id = c.id => a = c
  <2> SUFFICES ASSUME NEW i \in 1 .. n, NEW j \in 1 .. n, row(i).id = row(j).id
               PROVE  i = j
    OBVIOUS
  <2> QED
    BY <1>1, <1>3 DEF LearningInv, CounterInv
<1> HIDE DEF new
<1>8. \A a \in answers \cup new :
         a.id \in Nat /\ a.id < nextId + n /\ a.at \in Nat /\ a.at <= later
  BY <1>1, <1>6 DEF LearningInv, CounterInv, RowsInv
<1>9. \A a, c \in answers \cup new : a.id = c.id => a = c
  BY <1>1, <1>6, <1>7 DEF LearningInv, CounterInv, RowsInv
<1>10. nextId + n \in Nat \ {0}
  BY <1>1 DEF LearningInv, CounterInv
<1> QED
  BY <1>2, <1>5, <1>8, <1>9, <1>10 DEF n, picks

(* Every step keeps the invariant.                                          *)
LEMMA LearningStep ==
  ASSUME LearningAssumption, LearningInv, [LearningNext]_learningVars
  PROVE  LearningInv'
<1>1. ASSUME NEW s \in Submissions, NEW u \in Users, NEW b \in Bodies, Receive(s, u, b)
      PROVE  LearningInv'
  BY <1>1 DEF Receive, LearningInv, CounterInv, RowsInv, BodiesInv
<1>2. ASSUME NEW s \in Submissions, ReadKeys(s) PROVE LearningInv'
  <2>1. sub[s].stage = "keys" /\ UNCHANGED <<answers, nextId, clock>>
    BY <1>2 DEF ReadKeys
  <2>2. \E new : /\ sub' = [sub EXCEPT ![s] = new]
                 /\ new.stage = "insert" /\ new.body = sub[s].body
    BY <1>2 DEF ReadKeys
  <2> QED
    BY <2>1, <2>2 DEF LearningInv, CounterInv, RowsInv, BodiesInv
<1>3. ASSUME NEW s \in Submissions, Insert(s) PROVE LearningInv'
  <2>1. sub[s].stage = "insert" /\ sub[s].body \in Bodies
    BY <1>3 DEF Insert, LearningInv, BodiesInv
  <2>2. \E stage \in {"stored", "done"} : sub' = [sub EXCEPT ![s].stage = stage]
    BY <1>3 DEF Insert
  <2>3. BodiesInv'
    BY <2>2 DEF LearningInv, BodiesInv
  <2>4. CASE UNCHANGED <<answers, nextId, clock>>
    BY <2>3, <2>4 DEF LearningInv, CounterInv, RowsInv
  <2>5. CASE /\ answers' = CreateUserAnswers(sub[s].user, sub[s].body.workbook,
                                             sub[s].body.answers, sub[s].graded)
             /\ nextId' = nextId + Len(sub[s].body.answers)
             /\ \E d \in Ticks : clock + d <= MaxClock /\ clock' = clock + d
    <3>1. clock' \in Nat /\ clock <= clock'
      BY <2>5 DEF LearningAssumption, LearningInv, CounterInv
    <3> QED
      BY <2>1, <2>3, <2>5, <3>1, CreatedRows DEF LearningInv, CounterInv, RowsInv
  <2> QED
    BY <1>3, <2>4, <2>5 DEF Insert
<1>4. ASSUME NEW after, EditAnswered(after) PROVE LearningInv'
  <2>1. answers' \subseteq answers /\ UNCHANGED <<nextId, clock, sub>>
    BY <1>4 DEF EditAnswered
  <2>2. IsFiniteSet(answers')
    BY <2>1, FS_Subset DEF LearningInv, RowsInv
  <2> QED
    BY <2>1, <2>2 DEF LearningInv, CounterInv, RowsInv, BodiesInv
<1>5. ASSUME UNCHANGED learningVars PROVE LearningInv'
  BY <1>5 DEF learningVars, LearningInv, CounterInv, RowsInv, BodiesInv
<1> QED
  BY <1>1, <1>2, <1>3, <1>4, <1>5 DEF LearningNext, EditContent

(* The rows of user_answers keep their order: ids and times only grow.      *)
THEOREM LearningInvariant == LearningSpec => []LearningInv
<1>1. LearningInit => LearningInv
  BY LearningAssumption, FS_EmptySet
     DEF LearningAssumption, LearningInit, LearningInv, CounterInv, RowsInv, BodiesInv
<1>2. LearningInv /\ [LearningNext]_learningVars => LearningInv'
  BY LearningAssumption, LearningStep
<1> QED
  BY <1>1, <1>2, PTL DEF LearningSpec

-----------------------------------------------------------------------------
(* Division by the length of a day.                                         *)
LEMMA Division ==
  ASSUME NEW n \in Nat, NEW d \in Nat \ {0}
  PROVE  /\ n \div d \in Nat /\ n % d \in 0 .. d - 1
         /\ n = d * (n \div d) + (n % d)
<1>1. n \div d \in Int /\ n % d \in 0 .. d - 1
  OBVIOUS
<1>2. n = d * (n \div d) + (n % d)
  OBVIOUS
<1>3. n \div d >= 0
  <2> DEFINE q == n \div d
             below == - q - 1
  <2>1. q \in Int /\ n = d * q + (n % d)
    BY <1>1, <1>2
  <2> HIDE DEF q
  <2>2. ASSUME q < 0 PROVE FALSE
    <3>1. below \in Nat /\ q = - below - 1
      BY <2>1, <2>2
    <3> HIDE DEF below
    <3>2. d * below \in Nat /\ d * q = - (d * below) - d
      BY <3>1
    <3> QED
      BY <1>1, <2>1, <3>2
  <2>3. q >= 0
    BY <2>1, <2>2
  <2> QED
    BY <2>3 DEF q
<1> QED
  BY <1>1, <1>2, <1>3

(* A number reaches a multiple of d when its quotient reaches the factor.   *)
LEMMA ReachesMultiple ==
  ASSUME NEW n \in Nat, NEW d \in Nat \ {0}, NEW m \in Nat
  PROVE  n >= m * d <=> n \div d >= m
<1> DEFINE q == n \div d
           r == n % d
<1>1. q \in Nat /\ r \in 0 .. d - 1 /\ n = d * q + r
  BY Division
<1> HIDE DEF q, r
<1>2. ASSUME q >= m PROVE n >= m * d
  <2>1. q - m \in Nat /\ d * (q - m) \in Nat
    BY <1>1, <1>2
  <2>2. d * q = d * m + d * (q - m)
    BY <1>1, <1>2
  <2> QED
    BY <1>1, <2>1, <2>2
<1>3. ASSUME q < m PROVE n < m * d
  <2>1. m - q - 1 \in Nat /\ d * (m - q - 1) \in Nat
    BY <1>1, <1>3
  <2>2. d * m = d * q + d + d * (m - q - 1)
    BY <1>1, <1>3
  <2> QED
    BY <1>1, <2>1, <2>2
<1>4. n >= m * d \/ n < m * d
  BY <1>1
<1> QED
  BY <1>1, <1>2, <1>3 DEF q

(* A later moment is on no earlier day.                                     *)
LEMMA DaysFollow ==
  ASSUME LearningAssumption, NEW t \in Nat, NEW u \in Nat, t <= u
  PROVE  JstDay(t) \in Nat /\ JstDay(u) \in Nat /\ JstDay(t) <= JstDay(u)
<1>1. t + JstOffset \in Nat /\ u + JstOffset \in Nat /\ t + JstOffset <= u + JstOffset
      /\ DayLength \in Nat \ {0}
  BY DEF LearningAssumption
<1>2. JstDay(t) \in Nat /\ JstDay(u) \in Nat
  BY <1>1, Division DEF JstDay
<1>3. t + JstOffset >= JstDay(t) * DayLength
  BY <1>1, <1>2, ReachesMultiple DEF JstDay
<1>4. u + JstOffset >= JstDay(t) * DayLength
  <2>1. JstDay(t) * DayLength \in Nat
    BY <1>1, <1>2
  <2> QED
    BY <1>1, <1>3, <2>1
<1> QED
  BY <1>1, <1>2, <1>4, ReachesMultiple DEF JstDay

(* The week of a moment begins on the Monday on or before its day in Japan: *)
(* what is not before it is on that Monday or later.                        *)
LEMMA WeekStart ==
  ASSUME LearningAssumption, NEW t \in Nat, NEW u \in Nat
  PROVE  LET monday == 7 * (JstDay(t) \div 7)
         IN  /\ monday \in Nat /\ JstDay(t) \in monday .. monday + 6
             /\ u >= isoWeekStart(t) <=> JstDay(u) >= monday
<1> DEFINE day == JstDay(t)
           monday == 7 * (day \div 7)
<1>1. day \in Nat /\ DayLength \in Nat \ {0} /\ JstOffset \in Nat
  BY DaysFollow DEF LearningAssumption
<1>2. isoWeekStart(t) =
        LET weekday == IF (day + 1) % 7 = 0 THEN 7 ELSE (day + 1) % 7
        IN  (day - weekday + 1) * DayLength - JstOffset
  BY DEF isoWeekStart
<1> HIDE DEF day
<1>3. monday \in Nat /\ day \in monday .. monday + 6
  BY <1>1
<1>4. day - (IF (day + 1) % 7 = 0 THEN 7 ELSE (day + 1) % 7) + 1 = monday
  BY <1>1
<1>5. isoWeekStart(t) = monday * DayLength - JstOffset
  BY <1>2, <1>4
<1> HIDE DEF monday
<1>6. u >= isoWeekStart(t) <=> u + JstOffset >= monday * DayLength
  <2>1. monday * DayLength \in Nat
    BY <1>1, <1>3
  <2> QED
    BY <1>1, <1>5, <2>1
<1>7. u + JstOffset >= monday * DayLength <=> JstDay(u) >= monday
  BY <1>1, <1>3, ReachesMultiple DEF JstDay
<1> QED
  BY <1>3, <1>6, <1>7 DEF day, monday

(* A week never fills the list of study dates.                              *)
LEMMA SevenDays ==
  ASSUME NEW m \in Nat, NEW S, S \subseteq m .. m + 6
  PROVE  Cardinality(S) < 365
<1>1. m \in Int /\ m + 6 \in Int /\ ~(m > m + 6) /\ (m + 6) - m + 1 = 7
  OBVIOUS
<1>2. IsFiniteSet(m .. m + 6) /\ Cardinality(m .. m + 6) = 7
  BY ONLY <1>1, FS_Interval
<1>3. IsFiniteSet(S) /\ Cardinality(S) <= 7
  BY <1>2, FS_Subset
<1>4. Cardinality(S) \in Nat
  BY <1>3, FS_CardinalityType
<1> QED
  BY <1>3, <1>4

(* The figures of the week are about the days from Monday to Sunday.        *)
LEMMA WeekOfAnswers ==
  ASSUME LearningAssumption, LearningInv
  PROVE  WeekIsMondayToSunday
<1> SUFFICES ASSUME NEW u \in Users
             PROVE  LET s == GetUserSummary(u)
                        monday == 7 * (JstDay(clock) \div 7)
                        week == {a \in Of(u) : JstDay(a.at) \in monday .. monday + 6}
                    IN  /\ s.weekly.answered = Cardinality(week)
                        /\ s.weekly.correct <= s.total.correct
                        /\ s.weeklyWorkbooks = {a.workbook : a \in week}
                        /\ s.weekly.answered > 0 <=> s.studyDates \cap (monday .. monday + 6) # {}
  BY DEF WeekIsMondayToSunday
<1> DEFINE monday == 7 * (JstDay(clock) \div 7)
           week == {a \in Of(u) : JstDay(a.at) \in monday .. monday + 6}
           since == isoWeekStart(clock)
<1>1. /\ IsFiniteSet(Of(u))
      /\ \A a \in Of(u) : a.at \in Nat /\ a.at <= clock
      /\ clock \in Nat
  BY FS_Subset DEF LearningInv, CounterInv, RowsInv, Of
<1>2. {a \in Of(u) : a.at >= since} = week
  <2>1. ASSUME NEW a \in Of(u) PROVE a.at >= since <=> JstDay(a.at) \in monday .. monday + 6
    <3>1. a.at \in Nat /\ a.at <= clock /\ clock \in Nat
      BY <1>1
    <3>2. /\ monday \in Nat /\ JstDay(clock) \in monday .. monday + 6
          /\ a.at >= since <=> JstDay(a.at) >= monday
      BY <3>1, WeekStart
    <3>3. JstDay(a.at) \in Nat /\ JstDay(a.at) <= JstDay(clock) /\ JstDay(clock) \in Nat
      BY <3>1, DaysFollow
    <3> HIDE DEF monday, since
    <3> QED
      BY <3>2, <3>3
  <2> QED
    BY <2>1
<1> HIDE DEF since
<1>3. /\ GetUserSummary(u).weekly = Stats(week)
      /\ GetUserSummary(u).total = Stats(Of(u))
      /\ GetUserSummary(u).studyDates = ListStudyDates(u)
      /\ GetUserSummary(u).weeklyWorkbooks = {a.workbook : a \in week}
  <2>1. GetUserWeeklyStats(u, since) = Stats(week)
    BY <1>2 DEF GetUserWeeklyStats
  <2>2. ListWeeklyWorkbookIDs(u, since) = {a.workbook : a \in week}
    BY <1>2 DEF ListWeeklyWorkbookIDs
  <2> QED
    BY <2>1, <2>2 DEF GetUserSummary, GetUserTotalStats, since
<1>4. IsFiniteSet(week) /\ Cardinality(week) \in Nat
  BY <1>1, FS_Subset, FS_CardinalityType
<1>5. Stats(week).answered = Cardinality(week)
  BY DEF Stats
<1>6. Stats(week).correct <= Stats(Of(u)).correct
  <2>1. IsFiniteSet({a \in Of(u) : a.correct})
    BY <1>1, FS_Subset
  <2>2. {a \in week : a.correct} \subseteq {a \in Of(u) : a.correct}
    OBVIOUS
  <2> QED
    BY <2>1, <2>2, FS_Subset DEF Stats
<1>7. Cardinality(week) > 0 <=> week # {}
  <2>1. Cardinality(week) \in Nat /\ (Cardinality(week) = 0 <=> week = {})
    BY <1>4, FS_EmptySet, FS_CardinalityType
  <2> QED
    BY <2>1
<1>8. week # {} <=> ListStudyDates(u) \cap (monday .. monday + 6) # {}
  <2> DEFINE days == {JstDay(a.at) : a \in Of(u)}
             later(d) == {e \in days : e > d}
  <2>1. ListStudyDates(u) = {d \in days : Cardinality(later(d)) < 365}
    BY DEF ListStudyDates
  <2>2. /\ monday \in Nat /\ JstDay(clock) \in Nat /\ JstDay(clock) <= monday + 6
        /\ \A e \in days : e \in Nat /\ e <= JstDay(clock)
    BY <1>1, WeekStart, DaysFollow
  <2> HIDE DEF days, monday
  <2>3. ASSUME NEW d \in days, d \in monday .. monday + 6 PROVE Cardinality(later(d)) < 365
    <3>1. later(d) \subseteq monday .. monday + 6
      <4> SUFFICES ASSUME NEW e \in days, e > d PROVE e \in monday .. monday + 6
        OBVIOUS
      <4> QED
        BY <2>2, <2>3
    <3> HIDE DEF later
    <3> QED
      BY <2>2, <3>1, SevenDays
  <2>4. ListStudyDates(u) \cap (monday .. monday + 6) = days \cap (monday .. monday + 6)
    BY <2>1, <2>3
  <2>5. week # {} <=> days \cap (monday .. monday + 6) # {}
    BY DEF days
  <2> QED
    BY <2>4, <2>5
<1> QED
  BY <1>3, <1>5, <1>6, <1>7, <1>8

(* The weekly figures are those of the study dates from Monday to Sunday in *)
(* Japan, whatever moment it is and however long a day.                     *)
THEOREM WeeksBeginOnMonday == LearningSpec => []WeekIsMondayToSunday
<1>1. LearningInv => WeekIsMondayToSunday
  BY LearningAssumption, WeekOfAnswers
<1> QED
  BY <1>1, LearningInvariant, PTL

-----------------------------------------------------------------------------
(* In a finite set of rows with ids of their own the order of the log puts  *)
(* every other row before or after a row.                                   *)
Newer(S, a) == {b \in S : LogOrder(b, a)}
Older(S, a) == {b \in S : LogOrder(a, b)}
Identified(S) ==
  /\ IsFiniteSet(S)
  /\ \A a \in S : a.id \in Nat /\ a.at \in Nat
  /\ \A a, b \in S : a.id = b.id => a = b

(* A row has as many others on either side as its place in the log says.    *)
LEMMA LogRank ==
  ASSUME NEW S, Identified(S), NEW a \in S
  PROVE  /\ Cardinality(S) \in Nat
         /\ Cardinality(Newer(S, a)) \in Nat /\ Cardinality(Older(S, a)) \in Nat
         /\ Cardinality(Newer(S, a)) + 1 + Cardinality(Older(S, a)) = Cardinality(S)
<1> DEFINE N == Newer(S, a)
           O == Older(S, a)
<1>1. IsFiniteSet(S) /\ IsFiniteSet(N) /\ IsFiniteSet(O)
  BY FS_Subset DEF Identified, Newer, Older
<1>2. a \notin N /\ a \notin O
  BY DEF Identified, Newer, Older, LogOrder
<1>3. N \cap O = {}
  BY DEF Identified, Newer, Older, LogOrder
<1>4. S = (N \cup {a}) \cup O
  <2>1. ASSUME NEW b \in S PROVE b = a \/ b \in N \/ b \in O
    BY DEF Identified, Newer, Older, LogOrder
  <2>2. N \subseteq S /\ O \subseteq S
    BY DEF Newer, Older
  <2> QED
    BY <2>1, <2>2
<1>5. IsFiniteSet(N \cup {a}) /\ Cardinality(N \cup {a}) = Cardinality(N) + 1
  BY <1>1, <1>2, FS_AddElement
<1>6. (N \cup {a}) \cap O = {}
  BY <1>2, <1>3
<1>7. Cardinality(S) = Cardinality(N \cup {a}) + Cardinality(O) - Cardinality((N \cup {a}) \cap O)
  BY <1>1, <1>4, <1>5, FS_Union
<1>8. Cardinality((N \cup {a}) \cap O) = 0
  BY <1>6, FS_EmptySet
<1>9. Cardinality(S) \in Nat /\ Cardinality(N) \in Nat /\ Cardinality(O) \in Nat
  BY <1>1, FS_CardinalityType
<1> QED
  BY <1>5, <1>7, <1>8, <1>9

(* So a row may stand at one position only, behind all that are newer.      *)
LEMMA LogPosition ==
  ASSUME NEW S, Identified(S), NEW a \in S
  PROVE  LET log == MayStand(S, LogOrder)
         IN  /\ log \in Seq(SUBSET S) /\ Len(log) = Cardinality(S)
             /\ \A i \in 1 .. Cardinality(S) : a \in log[i] <=> i = Cardinality(Newer(S, a)) + 1
<1> DEFINE log == MayStand(S, LogOrder)
           n == Cardinality(S)
<1>1. log = [i \in 1 .. n |-> {r \in S : /\ Cardinality(Newer(S, r)) < i
                                        /\ i <= n - Cardinality(Older(S, r))}]
  BY DEF MayStand, Newer, Older
<1>2. n \in Nat
  BY LogRank
<1>3. log \in Seq(SUBSET S) /\ Len(log) = n
  BY <1>1, <1>2
<1>4. ASSUME NEW i \in 1 .. n PROVE a \in log[i] <=> i = Cardinality(Newer(S, a)) + 1
  <2>1. a \in log[i] <=> /\ Cardinality(Newer(S, a)) < i
                         /\ i <= n - Cardinality(Older(S, a))
    BY <1>1
  <2> QED
    BY <1>2, <2>1, LogRank
<1> QED
  BY <1>3, <1>4

(* LIMIT and OFFSET cut out the rows behind the offset.                     *)
LEMMA PageOfRows ==
  ASSUME NEW T, NEW rows \in Seq(T), NEW limit \in Nat, NEW offset \in Nat, NEW j \in 1 .. limit
  PROVE  LET page == Page(rows, limit, offset)
         IN  /\ j \in DOMAIN page <=> offset + j <= Len(rows)
             /\ j \in DOMAIN page => page[j] = rows[offset + j]
<1> DEFINE last == IF offset + limit < Len(rows) THEN offset + limit ELSE Len(rows)
           page == SubSeq(rows, offset + 1, last)
<1>1. Len(rows) \in Nat /\ \A i \in 1 .. Len(rows) : rows[i] \in T
  OBVIOUS
<1>2. last \in Nat /\ last <= Len(rows) /\ last <= offset + limit
      /\ (last = offset + limit \/ last = Len(rows))
  BY <1>1
<1> HIDE DEF last
<1>3. /\ page \in Seq(T)
      /\ Len(page) = IF offset + 1 <= last THEN last - (offset + 1) + 1 ELSE 0
      /\ \A i \in 1 .. last - (offset + 1) + 1 : page[i] = rows[offset + 1 + i - 1]
  <2>1. offset + 1 \in Int /\ last \in Int /\ \A i \in offset + 1 .. last : rows[i] \in T
    BY <1>1, <1>2
  <2> QED
    BY <2>1, SubSeqProperties
<1> HIDE DEF page
<1>4. DOMAIN page = 1 .. Len(page)
  BY <1>3
<1>5. j \in DOMAIN page <=> offset + j <= Len(rows)
  BY <1>1, <1>2, <1>3, <1>4
<1>6. ASSUME j \in DOMAIN page PROVE page[j] = rows[offset + j]
  <2>1. j \in 1 .. last - (offset + 1) + 1 /\ offset + 1 + j - 1 = offset + j
    BY <1>2, <1>3, <1>4, <1>6
  <2> QED
    BY <1>3, <2>1
<1> QED
  BY <1>5, <1>6 DEF Page, page, last

(* The pages of one user's log, each at the offset behind the one before.   *)
LEMMA LogPages ==
  ASSUME LearningInv, NEW u \in Users
  PROVE  \A limit \in 1 .. 2 :
           LET pages == [k \in 0 .. CountUserAnswerLogs(u) |-> GetAnswerLogs(u, limit, limit * k).body]
               Places(a) == {p \in (DOMAIN pages) \X (1 .. limit) :
                               /\ p[2] \in DOMAIN pages[p[1]].rows
                               /\ a \in pages[p[1]].rows[p[2]]}
           IN  \A a \in Of(u) : /\ Cardinality(Places(a)) = 1
                                /\ \A p \in Places(a) : pages[p[1]].total = Cardinality(Of(u))
<1> SUFFICES ASSUME NEW limit \in 1 .. 2, NEW a \in Of(u)
             PROVE  LET pages == [k \in 0 .. CountUserAnswerLogs(u) |->
                                    GetAnswerLogs(u, limit, limit * k).body]
                        Places == {p \in (DOMAIN pages) \X (1 .. limit) :
                                     /\ p[2] \in DOMAIN pages[p[1]].rows
                                     /\ a \in pages[p[1]].rows[p[2]]}
                    IN  /\ Cardinality(Places) = 1
                        /\ \A p \in Places : pages[p[1]].total = Cardinality(Of(u))
  OBVIOUS
<1> DEFINE S == Of(u)
           n == Cardinality(S)
           log == MayStand(S, LogOrder)
           rank == Cardinality(Newer(S, a))
           pages == [k \in 0 .. n |-> GetAnswerLogs(u, limit, limit * k).body]
           Places == {p \in (DOMAIN pages) \X (1 .. limit) :
                        /\ p[2] \in DOMAIN pages[p[1]].rows
                        /\ a \in pages[p[1]].rows[p[2]]}
<1>1. Identified(S)
  BY FS_Subset DEF LearningInv, RowsInv, Identified, Of
<1>2. /\ n \in Nat /\ rank \in Nat /\ rank + 1 <= n
      /\ log \in Seq(SUBSET S) /\ Len(log) = n
      /\ \A i \in 1 .. n : a \in log[i] <=> i = rank + 1
  <2> HIDE DEF S
  <2>1. a \in S
    BY DEF S
  <2>2. n \in Nat /\ rank \in Nat /\ rank + 1 <= n
    BY <1>1, <2>1, LogRank
  <2>3. /\ log \in Seq(SUBSET S) /\ Len(log) = n
        /\ \A i \in 1 .. n : a \in log[i] <=> i = rank + 1
    BY <1>1, <2>1, LogPosition
  <2> QED
    BY <2>2, <2>3
<1>3. \A k \in 0 .. n : /\ pages[k].rows = Page(log, limit, limit * k)
                        /\ pages[k].total = n
  <2> SUFFICES ASSUME NEW k \in 0 .. n
               PROVE  /\ pages[k].rows = Page(log, limit, limit * k)
                      /\ pages[k].total = n
    OBVIOUS
  <2>1. validatePagination(limit, limit * k)
    BY <1>2 DEF validatePagination, MaxLimit
  <2>2. GetAnswerLogs(u, limit, limit * k).body =
          [total |-> n, rows |-> Page(log, limit, limit * k)]
    BY <2>1 DEF GetAnswerLogs, Paged, Found, CountUserAnswerLogs, ListUserAnswerLogs
  <2>3. pages[k] = [total |-> n, rows |-> Page(log, limit, limit * k)]
    BY <2>2
  <2> QED
    BY <2>3
<1>4. DOMAIN pages = 0 .. n
  OBVIOUS
<1> HIDE DEF pages, n, rank, log, S
<1>5. \A k \in 0 .. n, j \in 1 .. limit :
         (j \in DOMAIN pages[k].rows /\ a \in pages[k].rows[j]) <=> limit * k + j = rank + 1
  <2> SUFFICES ASSUME NEW k \in 0 .. n, NEW j \in 1 .. limit
               PROVE  (j \in DOMAIN pages[k].rows /\ a \in pages[k].rows[j])
                        <=> limit * k + j = rank + 1
    OBVIOUS
  <2>1. limit * k \in Nat /\ limit \in Nat
    BY <1>2
  <2>2. /\ j \in DOMAIN pages[k].rows <=> limit * k + j <= n
        /\ j \in DOMAIN pages[k].rows => pages[k].rows[j] = log[limit * k + j]
    <3> DEFINE offset == limit * k
    <3> HIDE DEF offset
    <3>1. offset \in Nat /\ limit \in Nat /\ log \in Seq(SUBSET S) /\ Len(log) = n
      BY <1>2, <2>1 DEF offset
    <3>2. LET page == Page(log, limit, offset)
          IN  /\ j \in DOMAIN page <=> offset + j <= Len(log)
              /\ j \in DOMAIN page => page[j] = log[offset + j]
      BY <3>1, PageOfRows
    <3>3. pages[k].rows = Page(log, limit, offset)
      BY <1>3 DEF offset
    <3> QED
      BY <3>1, <3>2, <3>3 DEF offset
  <2>3. limit * k + j \in Nat /\ limit * k + j >= 1
    BY <2>1
  <2> QED
    BY <1>2, <2>2, <2>3
<1>6. PICK k \in 0 .. n, j \in 1 .. limit : limit * k + j = rank + 1
  <2>1. CASE limit = 1
    <3>1. rank \in 0 .. n /\ 1 \in 1 .. limit /\ limit * rank + 1 = rank + 1
      BY <1>2, <2>1
    <3> QED
      BY <3>1
  <2>2. CASE limit = 2
    <3>1. /\ rank \div 2 \in 0 .. n /\ (rank % 2) + 1 \in 1 .. limit
          /\ limit * (rank \div 2) + ((rank % 2) + 1) = rank + 1
      BY <1>2, <2>2
    <3> QED
      BY <3>1
  <2> QED
    BY <2>1, <2>2
<1>7. \A i \in 0 .. n, m \in 1 .. limit : limit * i + m = rank + 1 => i = k /\ m = j
  <2>1. CASE limit = 1
    BY <1>2, <1>6, <2>1
  <2>2. CASE limit = 2
    BY <1>2, <1>6, <2>2
  <2> QED
    BY <2>1, <2>2
<1>8. Places = {<<k, j>>}
  BY <1>4, <1>5, <1>6, <1>7
<1>9. Cardinality(Places) = 1
  BY <1>8, FS_Singleton
<1>10. \A p \in Places : pages[p[1]].total = n
  BY <1>3, <1>8
<1> QED
  BY <1>9, <1>10 DEF pages, n, S, CountUserAnswerLogs

(* Every answer is on exactly one page of the log, whatever order the       *)
(* database gives rows that ORDER BY leaves open: it leaves none open.      *)
THEOREM EveryAnswerOnOnePage == LearningSpec => []LogPagesComplete
<1>1. LearningInv => LogPagesComplete
  BY LogPages DEF LogPagesComplete
<1> QED
  BY <1>1, LearningInvariant, PTL

-----------------------------------------------------------------------------
(* What the administration does to the content keeps it sound, and with     *)
(* bodies that mark one choice, keeps one key for every question.           *)
LEMMA EditedContent ==
  ASSUME Sound(db), EditContent
  PROVE  /\ Sound(db')
         /\ (SingleKey(db.choices) /\ \A b \in QuestionBodies : OneCorrect(b))
              => SingleKey(db'.choices)
<1>1. /\ \A b \in QuestionBodies : QuestionBody(b)
      /\ \A b \in WorkbookBodies : WorkbookBody(b)
  BY ContentAssumption
<1>2. DOMAIN db = TableNames \cup {"seq"}
  BY DEF Sound, Intact, SerialsOK
<1>3. ASSUME NEW q, NEW b \in QuestionBodies, EditAnswered(AdminUpdateQuestion(db, q, b))
      PROVE  /\ Sound(db')
             /\ (SingleKey(db.choices) /\ OneCorrect(b)) => SingleKey(db'.choices)
  <2>1. db' = AdminUpdateQuestion(db, q, b)
    BY <1>3 DEF EditAnswered
  <2> QED
    BY <1>1, <2>1, RequestsAreSound, KeysStaySingle
<1>4. ASSUME NEW q, EditAnswered(AdminDeleteQuestion(db, q))
      PROVE  Sound(db') /\ db'.choices \subseteq db.choices
  <2>1. db' = AdminDeleteQuestion(db, q)
    BY <1>4 DEF EditAnswered
  <2>2. AdminDeleteQuestion(db, q).choices \subseteq db.choices
    BY <1>2 DEF AdminDeleteQuestion, DeleteQuestion, TableNames
  <2> QED
    BY <2>1, <2>2, RequestsAreSound
<1>5. ASSUME NEW id, NEW b \in WorkbookBodies, EditAnswered(AdminUpdateWorkbook(db, id, b))
      PROVE  Sound(db') /\ db'.choices \subseteq db.choices
  <2>1. db' = AdminUpdateWorkbook(db, id, b)
    BY <1>5 DEF EditAnswered
  <2>2. AdminUpdateWorkbook(db, id, b).choices = db.choices
    BY <1>2 DEF AdminUpdateWorkbook, bulkInsertWorkbookQuestions, DeleteWorkbookQuestions,
       UpdateWorkbook, TableNames, Serial
  <2> QED
    BY <1>1, <2>1, <2>2, RequestsAreSound
<1>6. ASSUME NEW id, EditAnswered(AdminDeleteWorkbook(db, id))
      PROVE  Sound(db') /\ db'.choices \subseteq db.choices
  <2>1. db' = AdminDeleteWorkbook(db, id)
    BY <1>6 DEF EditAnswered
  <2>2. AdminDeleteWorkbook(db, id).choices = db.choices
    BY <1>2 DEF AdminDeleteWorkbook, DeleteWorkbook, TableNames, Serial
  <2> QED
    BY <2>1, <2>2, RequestsAreSound
<1>7. ASSUME NEW C, NEW D, D \subseteq C, SingleKey(C) PROVE SingleKey(D)
  BY <1>7 DEF SingleKey
<1>8. CASE \E q \in db.questions, b \in QuestionBodies : EditAnswered(AdminUpdateQuestion(db, q, b))
  BY <1>3, <1>8
<1>9. CASE \E q \in db.questions : EditAnswered(AdminDeleteQuestion(db, q))
  BY <1>4, <1>7, <1>9
<1>10. CASE \E w \in db.workbooks, b \in WorkbookBodies : EditAnswered(AdminUpdateWorkbook(db, w.id, b))
  BY <1>5, <1>7, <1>10
<1>11. CASE \E w \in db.workbooks : EditAnswered(AdminDeleteWorkbook(db, w.id))
  BY <1>6, <1>7, <1>11
<1> QED
  BY <1>8, <1>9, <1>10, <1>11 DEF EditContent

(* Only the administration changes the content.                             *)
LEMMA ContentStep ==
  ASSUME [LearningNext]_learningVars PROVE EditContent \/ UNCHANGED db
<1>1. ASSUME NEW s \in Submissions, (\E u \in Users, b \in Bodies : Receive(s, u, b)) \/ ReadKeys(s) \/ Insert(s)
      PROVE  UNCHANGED db
  BY <1>1 DEF Receive, ReadKeys, Insert
<1> QED
  BY <1>1 DEF LearningNext, learningVars

(* The content tables satisfy the schema, whatever is edited.               *)
LEMMA ContentStaysSound == LearningSpec => []Sound(db)
<1>1. LearningInit => Sound(db)
  BY ContentAssumption, SoundIsSchema DEF LearningInit
<1>2. Sound(db) /\ [LearningNext]_learningVars => Sound(db)'
  BY ContentStep, EditedContent
<1> QED
  BY <1>1, <1>2, PTL DEF LearningSpec

(* "Exactly one correct choice" (docs/question-types.md): of what the       *)
(* database was seeded with, at most one, and of what is written to it.     *)
KeysAreSingle == /\ SingleKey(InitDB.choices)
                 /\ \A b \in QuestionBodies : OneCorrect(b)

(* The key that grading finds for a question, in the rows that the query    *)
(* for all of them returns in any order, is the one that the API shows.     *)
LEMMA KeyIsShown ==
  ASSUME Sound(db), SingleKey(db.choices), NEW qs, NEW q \in qs, QuestionExists(db, q),
         NEW correctMap \in CorrectMaps(GetCorrectChoicesByQuestionIDs(qs))
  PROVE  ApiGetQuestion(db, q).body.correct = IF q \in DOMAIN correctMap THEN correctMap[q] ELSE 0
<1> DEFINE rows == GetCorrectChoicesByQuestionIDs(qs)
           key == LastCorrect(GetChoicesByQuestionID(db, q), 0)
<1>1. ApiGetQuestion(db, q).body.correct = key
  <2>1. GetQuestionByID(db, q) # {}
    BY DEF Sound, Intact, QuestionsOK, QuestionExists, GetQuestionByID
  <2> QED
    BY <2>1 DEF ApiGetQuestion, Found, buildQuestion
<1>2. /\ \A c \in ChoicesOf(db, q) : c.correct => key = c.index
      /\ (\A c \in ChoicesOf(db, q) : ~c.correct) => key = 0
  BY KeyOfQuestion DEF Sound, Intact, QuestionsOK
<1>3. /\ DOMAIN correctMap = {c.question : c \in rows}
      /\ \A p \in DOMAIN correctMap : \E c \in rows : c.question = p /\ c.index = correctMap[p]
  BY DEF CorrectMaps
<1>4. rows = {c \in db.choices : c.question \in qs /\ c.correct}
  BY DEF GetCorrectChoicesByQuestionIDs
<1> HIDE DEF rows, key
<1>5. CASE q \in DOMAIN correctMap
  <2>1. PICK c \in rows : c.question = q /\ c.index = correctMap[q]
    BY <1>3, <1>5
  <2>2. c \in ChoicesOf(db, q) /\ c.correct
    BY <1>4, <2>1 DEF ChoicesOf
  <2> QED
    BY <1>1, <1>2, <1>5, <2>1, <2>2
<1>6. CASE q \notin DOMAIN correctMap
  <2>1. \A c \in ChoicesOf(db, q) : ~c.correct
    BY <1>3, <1>4, <1>6 DEF ChoicesOf
  <2> QED
    BY <1>1, <1>2, <1>6, <2>1
<1> QED
  BY <1>5, <1>6

(* Nothing but reading the keys grades a submission.                        *)
Graded(r) ==
  r.stage \in {"insert", "stored"} =>
    \A i \in DOMAIN r.graded :
      r.shown[i] # NoKey => (r.graded[i] <=> r.body.answers[i].selected = r.shown[i])
LEMMA GradingStep ==
  ASSUME Sound(db), SingleKey(db.choices), NEW s \in Submissions, ReadKeys(s)
  PROVE  \E r : sub' = [sub EXCEPT ![s] = r] /\ Graded(r)
<1> DEFINE picks == sub[s].body.answers
           qs == {picks[i].question : i \in DOMAIN picks}
           Key(m, q) == IF q \in DOMAIN m THEN m[q] ELSE 0
           New(m) == [stage |-> "insert", user |-> sub[s].user, body |-> sub[s].body,
                      graded |-> [i \in DOMAIN picks |-> Key(m, picks[i].question) = picks[i].selected],
                      shown |-> [i \in DOMAIN picks |->
                        IF QuestionExists(db, picks[i].question)
                        THEN ApiGetQuestion(db, picks[i].question).body.correct ELSE NoKey]]
<1>1. PICK m \in CorrectMaps(GetCorrectChoicesByQuestionIDs(qs)) : sub' = [sub EXCEPT ![s] = New(m)]
  BY DEF ReadKeys
<1>2. ASSUME NEW i \in DOMAIN picks, QuestionExists(db, picks[i].question)
      PROVE  ApiGetQuestion(db, picks[i].question).body.correct = Key(m, picks[i].question)
  BY <1>2, KeyIsShown
<1>3. /\ New(m).graded = [i \in DOMAIN picks |-> Key(m, picks[i].question) = picks[i].selected]
      /\ New(m).shown = [i \in DOMAIN picks |->
           IF QuestionExists(db, picks[i].question)
           THEN ApiGetQuestion(db, picks[i].question).body.correct ELSE NoKey]
      /\ New(m).body.answers = picks
  OBVIOUS
<1> DEFINE r == New(m)
<1> HIDE DEF New
<1>4. ASSUME NEW i \in DOMAIN r.graded, r.shown[i] # NoKey
      PROVE  r.graded[i] <=> r.body.answers[i].selected = r.shown[i]
  <2>1. i \in DOMAIN picks /\ QuestionExists(db, picks[i].question)
    BY <1>3, <1>4
  <2>2. /\ r.shown[i] = ApiGetQuestion(db, picks[i].question).body.correct
        /\ r.graded[i] = (Key(m, picks[i].question) = picks[i].selected)
    BY <1>3, <2>1
  <2>3. r.shown[i] = Key(m, picks[i].question)
    BY <1>2, <2>1, <2>2
  <2> HIDE DEF Key
  <2> QED
    BY <1>3, <2>2, <2>3
<1>5. Graded(r)
  BY <1>4 DEF Graded
<1> QED
  BY <1>1, <1>5

(* An answer is graded against the key the content API showed at the moment *)
(* the keys were read, for every question that exists then.                 *)
THEOREM AnswersAreGradedAsShown == KeysAreSingle => (LearningSpec => []GradedAsShown)
<1> DEFINE Inv == /\ Sound(db) /\ SingleKey(db.choices)
                  /\ DOMAIN sub = Submissions /\ \A s \in Submissions : Graded(sub[s])
<1> SUFFICES ASSUME KeysAreSingle PROVE LearningSpec => []GradedAsShown
  OBVIOUS
<1>1. LearningInit => Inv
  BY ContentAssumption, SoundIsSchema DEF KeysAreSingle, LearningInit, Graded
<1>2. Inv /\ [LearningNext]_learningVars => Inv'
  <2> SUFFICES ASSUME Inv, [LearningNext]_learningVars PROVE Inv'
    OBVIOUS
  <2>1. Sound(db') /\ SingleKey(db'.choices)
    BY ContentStep, EditedContent DEF KeysAreSingle
  <2>2. ASSUME NEW s \in Submissions, NEW r, sub' = [sub EXCEPT ![s] = r], Graded(r)
        PROVE  DOMAIN sub' = Submissions /\ \A o \in Submissions : Graded(sub'[o])
    BY <2>2
  <2>3. ASSUME NEW s \in Submissions, NEW u \in Users, NEW b \in Bodies, Receive(s, u, b)
        PROVE  \E r : sub' = [sub EXCEPT ![s] = r] /\ Graded(r)
    <3> DEFINE stage == IF WorkbookExists(db, b.workbook) THEN "keys" ELSE "done"
               r == [stage |-> stage, user |-> u, body |-> b]
    <3>1. sub' = [sub EXCEPT ![s] = r]
      BY <2>3 DEF Receive
    <3>2. Graded(r)
      BY DEF Graded
    <3> QED
      BY <3>1, <3>2
  <2>4. ASSUME NEW s \in Submissions, ReadKeys(s)
        PROVE  \E r : sub' = [sub EXCEPT ![s] = r] /\ Graded(r)
    BY <2>4, GradingStep
  <2>5. ASSUME NEW s \in Submissions, Insert(s)
        PROVE  \E r : sub' = [sub EXCEPT ![s] = r] /\ Graded(r)
    <3>1. PICK stage \in {"stored", "done"} : sub' = [sub EXCEPT ![s].stage = stage]
      BY <2>5 DEF Insert
    <3> DEFINE r == [sub[s] EXCEPT !.stage = stage]
    <3>2. sub' = [sub EXCEPT ![s] = r]
      BY <3>1
    <3>3. Graded(sub[s]) /\ sub[s].stage = "insert"
      BY <2>5 DEF Insert
    <3>4. Graded(r)
      BY <3>3 DEF Graded
    <3> QED
      BY <3>2, <3>4
  <2>6. CASE UNCHANGED sub
    BY <2>1, <2>6
  <2>7. EditContent => UNCHANGED sub
    BY DEF EditContent, EditAnswered
  <2> QED
    BY <2>1, <2>2, <2>3, <2>4, <2>5, <2>6, <2>7 DEF LearningNext, learningVars
<1>3. Inv => GradedAsShown
  BY DEF Graded, GradedAsShown
<1> QED
  BY <1>1, <1>2, <1>3, PTL DEF LearningSpec

-----------------------------------------------------------------------------
(* The questions to repeat.  A client sends each question of a workbook     *)
(* once, and the questions fit on the first page of a list.                 *)
QuestionsOnce ==
  \A b \in Bodies : \A i, j \in DOMAIN b.answers :
    b.answers[i].question = b.answers[j].question => i = j
QuestionsFit == Cardinality(InitDB.questions) <= MaxLimit

(* Later rows have later times, except for those of one INSERT, which are   *)
(* about different questions.                                               *)
TimesInv ==
  /\ \A a \in answers : a.at < clock /\ QuestionExists(db, a.question)
  /\ \A a, b \in answers : a.id < b.id => a.at <= b.at
  /\ \A a, b \in answers : (a.at = b.at /\ a.question = b.question) => a = b
FitInv == Sound(db) /\ Cardinality(db.questions) <= MaxLimit

(* The rows of an INSERT are about the questions of its body, once each,    *)
(* and of this moment.                                                      *)
LEMMA CreatedTimes ==
  ASSUME LearningAssumption, LearningInv, TimesInv, NEW user, NEW w, NEW graded,
         NEW b \in Bodies,
         \A i, j \in DOMAIN b.answers : b.answers[i].question = b.answers[j].question => i = j,
         \A i \in DOMAIN b.answers : QuestionExists(db, b.answers[i].question),
         NEW later \in Nat, clock < later
  PROVE  LET rows == CreateUserAnswers(user, w, b.answers, graded)
         IN  /\ \A a \in rows : a.at < later /\ QuestionExists(db, a.question)
             /\ \A a, c \in rows : a.id < c.id => a.at <= c.at
             /\ \A a, c \in rows : (a.at = c.at /\ a.question = c.question) => a = c
<1> DEFINE picks == b.answers
           row(i) == [id |-> nextId + i - 1, user |-> user, workbook |-> w, at |-> clock,
                      question |-> picks[i].question, selected |-> picks[i].selected,
                      correct |-> graded[i]]
           new == {row(i) : i \in DOMAIN picks}
<1>1. CreateUserAnswers(user, w, picks, graded) = answers \cup new
  BY DEF CreateUserAnswers
<1>2. DOMAIN picks \subseteq Nat \ {0}
  BY DEF LearningAssumption
<1>3. nextId \in Nat /\ clock \in Nat
  BY DEF LearningInv, CounterInv
<1>4. \A i \in DOMAIN picks : row(i).id = nextId + i - 1 /\ row(i).at = clock
                              /\ row(i).question = picks[i].question
  OBVIOUS
<1>5. \A a \in new : a.at = clock /\ a.id \in Nat /\ nextId <= a.id /\ QuestionExists(db, a.question)
  <2> SUFFICES ASSUME NEW i \in DOMAIN picks
               PROVE  LET a == row(i)
                      IN  a.at = clock /\ a.id \in Nat /\ nextId <= a.id /\ QuestionExists(db, a.question)
    OBVIOUS
  <2> HIDE DEF row
  <2> QED
    BY <1>2, <1>3, <1>4
<1>6. \A a, c \in new : a.question = c.question => a = c
  <2> SUFFICES ASSUME NEW i \in DOMAIN picks, NEW j \in DOMAIN picks, row(i).question = row(j).question
               PROVE  row(i) = row(j)
    OBVIOUS
  <2>1. i = j
    BY <1>4
  <2> QED
    BY <2>1
<1>7. \A a \in answers : /\ a.id \in Nat /\ a.id < nextId /\ a.at \in Nat /\ a.at < clock
                         /\ QuestionExists(db, a.question)
  BY DEF LearningInv, RowsInv, TimesInv
<1> HIDE DEF new, picks
<1>8. ASSUME NEW a \in answers \cup new PROVE a.at < later /\ QuestionExists(db, a.question)
  BY <1>3, <1>5, <1>7
<1>9. ASSUME NEW a \in answers \cup new, NEW c \in answers \cup new, a.id < c.id PROVE a.at <= c.at
  BY <1>3, <1>5, <1>7, <1>9 DEF TimesInv
<1>10. ASSUME NEW a \in answers \cup new, NEW c \in answers \cup new, a.at = c.at, a.question = c.question
       PROVE  a = c
  BY <1>3, <1>5, <1>6, <1>7, <1>10 DEF TimesInv
<1> QED
  BY <1>1, <1>8, <1>9, <1>10 DEF picks

(* Edits add no question, and take the answers about a deleted one along.   *)
LEMMA EditsAddNoQuestion ==
  ASSUME Sound(db), EditContent
  PROVE  db'.questions \subseteq db.questions
<1>1. DOMAIN db = TableNames \cup {"seq"}
  BY DEF Sound, Intact, SerialsOK
<1>2. ASSUME NEW q, NEW b PROVE AdminUpdateQuestion(db, q, b).questions = db.questions
  BY <1>1 DEF AdminUpdateQuestion, CreateQuestionImage, DeleteQuestionImages, CreateChoice,
     DeleteChoicesByQuestionID, UpdateSingleChoice, TableNames
<1>3. ASSUME NEW q PROVE AdminDeleteQuestion(db, q).questions \subseteq db.questions
  BY <1>1 DEF AdminDeleteQuestion, DeleteQuestion, TableNames
<1>4. ASSUME NEW id, NEW b PROVE AdminUpdateWorkbook(db, id, b).questions = db.questions
  BY <1>1 DEF AdminUpdateWorkbook, bulkInsertWorkbookQuestions, DeleteWorkbookQuestions,
     UpdateWorkbook, TableNames, Serial
<1>5. ASSUME NEW id PROVE AdminDeleteWorkbook(db, id).questions = db.questions
  BY <1>1 DEF AdminDeleteWorkbook, DeleteWorkbook, TableNames, Serial
<1>6. \E after : db' = after /\ after.questions \subseteq db.questions
  BY <1>2, <1>3, <1>4, <1>5 DEF EditContent, EditAnswered
<1> QED
  BY <1>6

LEMMA TimesStep ==
  ASSUME LearningAssumption, QuestionsOnce, LearningInv, TimesInv, [LearningNext]_learningVars
  PROVE  TimesInv'
<1>1. ASSUME NEW s \in Submissions, Insert(s) PROVE TimesInv'
  <2>1. sub[s].stage = "insert" /\ sub[s].body \in Bodies
    BY <1>1 DEF Insert, LearningInv, BodiesInv
  <2>2. CASE UNCHANGED <<answers, clock>>
    BY <1>1, <2>2 DEF Insert, TimesInv
  <2>3. CASE /\ answers' = CreateUserAnswers(sub[s].user, sub[s].body.workbook,
                                             sub[s].body.answers, sub[s].graded)
             /\ \A i \in DOMAIN sub[s].body.answers :
                  QuestionExists(db, sub[s].body.answers[i].question)
             /\ \E d \in Ticks : clock + d <= MaxClock /\ clock' = clock + d
    <3>1. clock' \in Nat /\ clock < clock'
      BY <2>3 DEF LearningAssumption, LearningInv, CounterInv
    <3>2. \A i, j \in DOMAIN sub[s].body.answers :
            sub[s].body.answers[i].question = sub[s].body.answers[j].question => i = j
      BY <2>1 DEF QuestionsOnce
    <3>3. db' = db
      BY <1>1 DEF Insert
    <3> QED
      BY <2>1, <2>3, <3>1, <3>2, <3>3, CreatedTimes DEF TimesInv
  <2> QED
    BY <1>1, <2>2, <2>3 DEF Insert
<1>2. ASSUME NEW after, EditAnswered(after) PROVE TimesInv'
  <2>1. answers' \subseteq answers /\ clock' = clock /\ db' = after
        /\ \A a \in answers' : QuestionExists(after, a.question)
    BY <1>2 DEF EditAnswered
  <2> QED
    BY <2>1 DEF TimesInv
<1>3. CASE UNCHANGED <<db, answers, clock>>
  BY <1>3 DEF TimesInv
<1>4. ASSUME NEW s \in Submissions, (\E u \in Users, b \in Bodies : Receive(s, u, b)) \/ ReadKeys(s)
      PROVE  UNCHANGED <<db, answers, clock>>
  BY <1>4 DEF Receive, ReadKeys
<1>5. UNCHANGED learningVars => UNCHANGED <<db, answers, clock>>
  BY DEF learningVars
<1>6. EditContent => \E after : EditAnswered(after)
  BY DEF EditContent
<1> QED
  BY <1>1, <1>2, <1>3, <1>4, <1>5, <1>6 DEF LearningNext

LEMMA FitStep ==
  ASSUME FitInv, [LearningNext]_learningVars
  PROVE  FitInv'
<1>1. CASE UNCHANGED db
  BY <1>1 DEF FitInv
<1>2. CASE EditContent
  <2>1. Sound(db') /\ db'.questions \subseteq db.questions
    BY <1>2, EditedContent, EditsAddNoQuestion DEF FitInv
  <2>2. IsFiniteSet(db.questions)
    BY DEF FitInv, Sound, Intact, QuestionsOK
  <2>3. /\ Cardinality(db'.questions) \in Nat /\ Cardinality(db.questions) \in Nat
        /\ Cardinality(db'.questions) <= Cardinality(db.questions)
    BY <2>1, <2>2, FS_Subset, FS_CardinalityType
  <2> QED
    BY <2>1, <2>3 DEF FitInv, MaxLimit
<1> QED
  BY <1>1, <1>2, ContentStep

LEMMA LatestInvariant ==
  (QuestionsOnce /\ QuestionsFit) => (LearningSpec => [](LearningInv /\ TimesInv /\ FitInv))
<1> DEFINE Inv == LearningInv /\ TimesInv /\ FitInv
<1> SUFFICES ASSUME QuestionsOnce, QuestionsFit PROVE LearningSpec => []Inv
  OBVIOUS
<1>1. LearningInit => TimesInv /\ FitInv
  <2>1. LearningInit => TimesInv
    BY DEF LearningInit, TimesInv
  <2>2. LearningInit => FitInv
    BY ContentAssumption, SoundIsSchema DEF LearningInit, FitInv, QuestionsFit
  <2> QED
    BY <2>1, <2>2
<1>2. Inv /\ LearningInv' /\ [LearningNext]_learningVars => Inv'
  BY LearningAssumption, TimesStep, FitStep
<1> QED
  BY <1>1, <1>2, LearningInvariant, PTL DEF LearningSpec

-----------------------------------------------------------------------------
(* A question's newest row is the one that was submitted last.              *)
LEMMA NewestIsLast ==
  ASSUME LearningInv, TimesInv, NEW u, NEW S, S \subseteq Of(u),
         NEW f \in DistinctOn(S), NEW q \in DOMAIN f,
         \A a \in Of(u) : a.question = q => a \in S
  PROVE  f[q] = LastAnswer(u, q)
<1>1. /\ f[q] \in S /\ f[q].question = q
      /\ \A b \in S : b.question = q => b.at <= f[q].at
  BY DEF DistinctOn
<1>2. /\ \A a \in Of(u) : a \in answers /\ a.id \in Nat /\ a.at \in Nat
      /\ \A a, b \in Of(u) : a.id = b.id => a = b
      /\ \A a, b \in Of(u) : a.id < b.id => a.at <= b.at
      /\ \A a, b \in Of(u) : (a.at = b.at /\ a.question = b.question) => a = b
  BY DEF Of, LearningInv, RowsInv, TimesInv
<1>3. ASSUME NEW b \in Of(u), b.question = q PROVE b.id <= f[q].id
  <2>1. f[q] \in Of(u) /\ b.at <= f[q].at
    BY <1>1, <1>3
  <2>2. f[q].id < b.id => b = f[q]
    BY <1>1, <1>2, <1>3, <2>1
  <2> QED
    BY <1>2, <2>1, <2>2
<1>4. \A a \in Of(u) : (a.question = q /\ \A b \in Of(u) : b.question = q => b.id <= a.id) => a = f[q]
  BY <1>1, <1>2, <1>3
<1> QED
  BY <1>1, <1>3, <1>4 DEF LastAnswer

(* Another column leaves the id and the key alone.                          *)
HasKey(r, id, key) == {"id", "correct"} \subseteq DOMAIN r /\ r.id = id /\ r.correct = key
LEMMA WithColumn ==
  ASSUME NEW r, NEW id, NEW key, HasKey(r, id, key), NEW c \in {"images", "workbook"}, NEW v
  PROVE  HasKey(With(r, c, v), id, key)
  BY DEF HasKey, With

(* What the list of questions to repeat says of the ids in it.              *)
Repeated(l) ==
  LET questions == attachImages(db, buildQuestionsFromRows([i \in DOMAIN l |-> l[i].row]))
  IN  [i \in DOMAIN l |-> With(questions[i], "workbook", l[i].workbook)]
LEMMA RepeatedRows ==
  ASSUME NEW ids, NEW l, DOMAIN l = DOMAIN ids,
         \A i \in DOMAIN ids : l[i].row = RowsOf(db, ids[i])
  PROVE  /\ DOMAIN Repeated(l) = DOMAIN ids
         /\ \A i \in DOMAIN ids :
              /\ Repeated(l)[i].id = ids[i]
              /\ Repeated(l)[i].correct = LastCorrect(GetChoicesByQuestionID(db, ids[i]), 0)
<1> DEFINE flat == [i \in DOMAIN l |-> l[i].row]
           built == buildQuestionsFromRows(flat)
           questions == attachImages(db, built)
           rows == [i \in DOMAIN l |-> With(questions[i], "workbook", l[i].workbook)]
<1>1. DOMAIN flat = DOMAIN ids /\ \A i \in DOMAIN ids : flat[i] = RowsOf(db, ids[i])
  OBVIOUS
<1>2. \A i \in DOMAIN ids : /\ flat[i].id = ids[i]
                            /\ flat[i].choices = GetChoicesByQuestionID(db, ids[i])
  <2>1. \A q : RowsOf(db, q).id = q /\ RowsOf(db, q).choices = GetChoicesByQuestionID(db, q)
    BY DEF RowsOf
  <2> HIDE DEF flat
  <2> QED
    BY <1>1, <2>1
<1> HIDE DEF flat
<1>3. DOMAIN built = DOMAIN ids
  BY <1>1 DEF buildQuestionsFromRows
<1>4. \A i \in DOMAIN ids : /\ {"id", "correct"} \subseteq DOMAIN built[i]
                            /\ built[i].id = ids[i]
                            /\ built[i].correct = LastCorrect(GetChoicesByQuestionID(db, ids[i]), 0)
  BY <1>1, <1>2 DEF buildQuestionsFromRows
<1> HIDE DEF built
<1>6. \A i \in DOMAIN ids : /\ {"id", "correct"} \subseteq DOMAIN questions[i]
                            /\ questions[i].id = ids[i]
                            /\ questions[i].correct = LastCorrect(GetChoicesByQuestionID(db, ids[i]), 0)
  BY <1>3, <1>4, WithColumn DEF attachImages, HasKey
<1> HIDE DEF questions
<1>7. DOMAIN rows = DOMAIN ids
  OBVIOUS
<1>8. \A i \in DOMAIN ids : /\ rows[i].id = ids[i]
                            /\ rows[i].correct = LastCorrect(GetChoicesByQuestionID(db, ids[i]), 0)
  BY <1>6, WithColumn DEF HasKey
<1> QED
  BY <1>7, <1>8 DEF Repeated, rows, questions, built, flat

(* All outcomes of the query for the newest rows agree, and so do the count *)
(* and the list, with what the content API says of each question.           *)
LEMMA RepeatedList ==
  ASSUME LearningInv, TimesInv, FitInv, NEW u, NEW got \in GetWrongAnswers(u, MaxLimit, 0)
  PROVE  LET listed == {got.body.rows[i].id : i \in DOMAIN got.body.rows}
         IN  /\ got.body.total = Cardinality(listed)
             /\ listed = {q \in {a.question : a \in Of(u)} : ~LastAnswer(u, q).correct}
             /\ \A i \in DOMAIN got.body.rows :
                  got.body.rows[i].correct = ApiGetQuestion(db, got.body.rows[i].id).body.correct
<1> DEFINE Qs == {a.question : a \in Of(u)}
           W == {q \in Qs : ~LastAnswer(u, q).correct}
           ids == OrderBy(W, LAMBDA p, q : p < q)
           Rows(f) == [i \in DOMAIN ids |->
                         [row |-> RowsOf(db, ids[i]), workbook |-> f[ids[i]].workbook]]
<1>1. ASSUME NEW f \in DistinctOn(Of(u)) PROVE Wrong(f) = W
  <2>1. DOMAIN f = Qs
    BY DEF DistinctOn
  <2>2. \A q \in Qs : f[q] = LastAnswer(u, q)
    BY <2>1, NewestIsLast
  <2> QED
    BY <2>1, <2>2 DEF Wrong
<1>2. /\ IsFiniteSet(W) /\ W \subseteq Nat /\ Cardinality(W) \in Nat /\ Cardinality(W) <= MaxLimit
      /\ \A q \in W : QuestionExists(db, q)
  <2>1. \A q \in W : QuestionExists(db, q)
    BY DEF TimesInv, Of
  <2>2. W \subseteq db.questions /\ IsFiniteSet(db.questions) /\ db.questions \subseteq Nat
    BY <2>1 DEF QuestionExists, FitInv, Sound, Intact, QuestionsOK
  <2> HIDE DEF W
  <2>3. /\ IsFiniteSet(W) /\ Cardinality(W) \in Nat /\ Cardinality(db.questions) \in Nat
        /\ Cardinality(W) <= Cardinality(db.questions)
    BY <2>2, FS_Subset, FS_CardinalityType
  <2>4. Cardinality(db.questions) <= MaxLimit
    BY DEF FitInv
  <2> QED
    BY <2>1, <2>2, <2>3, <2>4 DEF MaxLimit
<1>3. /\ ids \in Seq(W) /\ Len(ids) = Cardinality(W) /\ {ids[i] : i \in DOMAIN ids} = W
  <2> HIDE DEF W
  <2> QED
    BY <1>2, OrderedIds
<1>4. Page(ids, MaxLimit, 0) = ids
  <2> HIDE DEF ids, W
  <2>1. MaxLimit \in Nat
    BY DEF MaxLimit
  <2> QED
    BY <1>2, <1>3, <2>1, WholePage
<1>5. CountWrongAnswers(u) \subseteq {Cardinality(W)}
  <2> HIDE DEF W
  <2> QED
    BY <1>1 DEF CountWrongAnswers
<1>6. ListWrongAnswersWithChoices(u, MaxLimit, 0) \subseteq {Rows(f) : f \in DistinctOn(Of(u))}
  <2> HIDE DEF W
  <2> QED
    BY <1>1, <1>4 DEF ListWrongAnswersWithChoices
<1> HIDE DEF ids
<1>7. PICK f \in DistinctOn(Of(u)) : got.body.total = Cardinality(W) /\ got.body.rows = Repeated(Rows(f))
  <2>1. validatePagination(MaxLimit, 0)
    BY DEF validatePagination, MaxLimit
  <2>2. PICK total \in CountWrongAnswers(u), l \in ListWrongAnswersWithChoices(u, MaxLimit, 0) :
          got = Paged(MaxLimit, 0, total, Repeated(l))
    BY DEF GetWrongAnswers, Repeated
  <2>3. got.body.total = total /\ got.body.rows = Repeated(l)
    BY <2>1, <2>2 DEF Paged, Found
  <2> HIDE DEF W, Rows
  <2> QED
    BY <1>5, <1>6, <2>2, <2>3
<1>8. /\ DOMAIN got.body.rows = DOMAIN ids
      /\ \A i \in DOMAIN ids :
           /\ got.body.rows[i].id = ids[i]
           /\ got.body.rows[i].correct = LastCorrect(GetChoicesByQuestionID(db, ids[i]), 0)
  <2>1. /\ DOMAIN Rows(f) = DOMAIN ids
        /\ \A i \in DOMAIN ids : Rows(f)[i].row = RowsOf(db, ids[i])
    OBVIOUS
  <2> HIDE DEF Rows
  <2> QED
    BY <1>7, <2>1, RepeatedRows
<1>9. {got.body.rows[i].id : i \in DOMAIN got.body.rows} = W
  BY <1>3, <1>8
<1>10. ASSUME NEW i \in DOMAIN got.body.rows
       PROVE  got.body.rows[i].correct = ApiGetQuestion(db, got.body.rows[i].id).body.correct
  <2>1. QuestionExists(db, ids[i])
    BY <1>2, <1>3, <1>8
  <2>2. GetQuestionByID(db, ids[i]) # {}
    BY <2>1 DEF FitInv, Sound, Intact, QuestionsOK, QuestionExists, GetQuestionByID
  <2>3. ApiGetQuestion(db, ids[i]).body.correct = LastCorrect(GetChoicesByQuestionID(db, ids[i]), 0)
    BY <2>2 DEF ApiGetQuestion, Found, buildQuestion
  <2> QED
    BY <1>8, <2>3
<1> HIDE DEF W, Rows
<1>11. got.body.total = Cardinality({got.body.rows[i].id : i \in DOMAIN got.body.rows})
  BY <1>7, <1>9
<1> QED
  BY <1>9, <1>10, <1>11 DEF W

LEMMA ProgressIsLatest ==
  ASSUME LearningInv, TimesInv, NEW u, NEW w, NEW progress \in GetWorkbookProgress(u, w),
         NEW q \in DOMAIN progress, \A a \in Of(u) : a.question = q => a.workbook = w
  PROVE  progress[q] <=> LastAnswer(u, q).correct
<1> DEFINE S == {a \in Of(u) : a.workbook = w}
<1>1. PICK f \in DistinctOn(S) : progress = [p \in DOMAIN f |-> f[p].correct]
  BY DEF GetWorkbookProgress, ListWorkbookProgress
<1>2. S \subseteq Of(u) /\ \A a \in Of(u) : a.question = q => a \in S
  OBVIOUS
<1> HIDE DEF S
<1>3. q \in DOMAIN f /\ progress[q] = f[q].correct
  BY <1>1
<1>4. f[q] = LastAnswer(u, q)
  BY <1>2, <1>3, NewestIsLast
<1> QED
  BY <1>3, <1>4

(* RepeatsAreLatest: the questions to repeat are those whose last submitted *)
(* answer is wrong, by the count, the list and the progress of a workbook,  *)
(* with the keys that the content API shows - for clients that send a       *)
(* question once per submission, and with all questions on one page.        *)
THEOREM RepeatsComeFromTheLastAnswer ==
  (QuestionsOnce /\ QuestionsFit) => (LearningSpec => []RepeatsAreLatest)
<1>1. LearningInv /\ TimesInv /\ FitInv => RepeatsAreLatest
  BY RepeatedList, ProgressIsLatest DEF RepeatsAreLatest
<1> QED
  BY <1>1, LatestInvariant, PTL

-----------------------------------------------------------------------------
(***************************************************************************)
(* Publisher again: every step keeps the arrangement of the content, and   *)
(* the endpoints agree about it.                                           *)
(***************************************************************************)
LEMMA ArrangedStep ==
  ASSUME Sound(db), Arranged(db), spent \in Nat, [Next]_vars
  PROVE  Arranged(db')
<1>1. CASE EditQuestion
  BY <1>1, ContentAssumption, QuestionsArranged DEF EditQuestion, Edit
<1>2. CASE EditWorkbook
  BY <1>2, ContentAssumption, WorkbooksArranged DEF EditWorkbook, Edit
<1>3. CASE EditCategory \/ EditAnnouncement \/ EditApp \/ AddImage
  <2>1. /\ \A b \in AnnouncementBodies : b.publishedAt \in Nat
        /\ spent + 1 \in Nat
    BY PublisherAssumption
  <2>2. \E after : db' = after /\ Undisturbed(db, after)
    BY <1>3, <2>1, OthersUndisturbed DEF EditCategory, EditAnnouncement, EditApp, AddImage, Edit
  <2> QED
    BY <2>2, ArrangementKept DEF Undisturbed
<1>4. ASSUME NEW p \in Publishes, PostPublish(p) \/ PublishStep(p) PROVE UNCHANGED db
  BY <1>4 DEF PostPublish, PublishStep, Read, BuildList, PutList, ReadCategoryTitle,
     ReadCategoryWorkbooks, PutCategory, ReadWorkbookTitle, ReadWorkbookQuestions,
     ReadWorkbookImages, PutWorkbook, PutAnnouncement, PutDetail, Fail
<1>5. UNCHANGED vars => UNCHANGED db
  BY DEF vars
<1> QED
  BY <1>1, <1>2, <1>3, <1>4, <1>5 DEF Next

LEMMA ReadAlike ==
  ASSUME Sound(db), Arranged(db), Cardinality(db.questions) <= MaxLimit
  PROVE  QuestionsReadAlike
<1>1. ASSUME NEW q \in db.questions
      PROVE  LET one == ApiGetQuestion(db, q).body
                 admin == AdminGetQuestion(db, q).body
             IN  /\ \E i \in DOMAIN ApiGetQuestions(db, MaxLimit, 0).body.rows :
                      ApiGetQuestions(db, MaxLimit, 0).body.rows[i] = one
                 /\ \E i \in DOMAIN AdminGetQuestions(db, MaxLimit, 0).body.rows :
                      AdminGetQuestions(db, MaxLimit, 0).body.rows[i] = admin
                 /\ one.choices = [i \in DOMAIN admin.choices |-> admin.choices[i].text]
                 /\ one.images = admin.images
                 /\ admin.choices[one.correct + 1].correct
  BY QuestionsListed, ShownAlike DEF Shown, AdminShown
<1>2. ASSUME NEW w \in db.workbooks
      PROVE  LET admin == AdminGetWorkbook(db, w.id).body.questions
             IN  /\ \A i \in DOMAIN admin : admin[i] = AdminGetQuestion(db, admin[i].id).body
                 /\ w.published =>
                      LET shown == ApiGetWorkbook(db, w.id).body.questions
                      IN  /\ Ids(shown) = Ids(admin)
                          /\ \A i \in DOMAIN shown : shown[i] = ApiGetQuestion(db, shown[i].id).body
  <2> DEFINE rows == ListQuestionsWithChoicesByWorkbook(db, w.id)
             shown == attachImages(db, buildQuestionsFromRows(rows))
             admin == AdminGetWorkbook(db, w.id).body.questions
  <2>1. /\ DOMAIN shown = DOMAIN rows /\ DOMAIN admin = DOMAIN rows
        /\ \A i \in DOMAIN rows :
             \E q \in db.questions : shown[i] = Shown(db, q) /\ admin[i] = AdminShown(db, q)
        /\ w.published => ApiGetWorkbook(db, w.id).body.questions = shown
    <3>1. w \in db.workbooks
      OBVIOUS
    <3>2. /\ DOMAIN shown = DOMAIN rows /\ DOMAIN admin = DOMAIN rows
          /\ \A i \in DOMAIN rows :
               \E q \in db.questions : /\ rows[i] = RowsOf(db, q)
                                      /\ shown[i] = Shown(db, q) /\ admin[i] = AdminShown(db, q)
          /\ IF w.published THEN ApiGetWorkbook(db, w.id)
                                   = Found([id |-> w.id, title |-> w.title, category |-> w.category,
                                            questions |-> shown])
             ELSE ApiGetWorkbook(db, w.id) = NotFound
      BY <3>1, WorkbookShown
    <3> HIDE DEF rows, shown, admin
    <3>3. ASSUME w.published PROVE ApiGetWorkbook(db, w.id).body.questions = shown
      <4>1. ApiGetWorkbook(db, w.id) = Found([id |-> w.id, title |-> w.title, category |-> w.category,
                                              questions |-> shown])
        BY <3>2, <3>3
      <4> QED
        BY <4>1 DEF Found
    <3> QED
      BY <3>2, <3>3
  <2> HIDE DEF rows, shown, admin
  <2>2. \A i \in DOMAIN rows : /\ shown[i].id = admin[i].id
                               /\ shown[i] = Shown(db, shown[i].id) /\ admin[i] = AdminShown(db, admin[i].id)
    <3>1. \A q \in db.questions : Shown(db, q).id = q /\ AdminShown(db, q).id = q
      BY ShownAlike
    <3> QED
      BY <2>1, <3>1
  <2>3. Ids(shown) = Ids(admin)
    BY <2>1, <2>2 DEF Ids
  <2>4. /\ \A i \in DOMAIN admin : admin[i] = AdminShown(db, admin[i].id)
        /\ w.published =>
             LET seen == ApiGetWorkbook(db, w.id).body.questions
             IN  Ids(seen) = Ids(admin) /\ \A i \in DOMAIN seen : seen[i] = Shown(db, seen[i].id)
    BY <2>1, <2>2, <2>3
  <2> QED
    BY <2>4 DEF Shown, AdminShown, admin
<1> QED
  BY <1>1, <1>2 DEF QuestionsReadAlike

(* What is listed can be opened.                                            *)
LEMMA Opens ==
  ASSUME Sound(db), Arranged(db)
  PROVE  ListedThingsOpen
<1>0. \A r : Found(r).body = r /\ Found(r).status = 200
  BY DEF Found
<1>1. ASSUME NEW a \in db.apps
      PROVE  LET got == ApiGetApp(db, a.slug)
             IN  /\ got.status = 200 /\ Found(got.body.app) = AdminGetApp(db, a.id)
                 /\ \A i \in DOMAIN got.body.categories :
                      ApiGetCategory(db, got.body.categories[i].id).status = 200
  <2> DEFINE got == ApiGetApp(db, a.slug)
  <2>1. /\ got.status = 200 /\ got.body.app = a /\ AdminGetApp(db, a.id) = Found(a)
        /\ \A i \in DOMAIN got.body.categories : CategoryExists(db, got.body.categories[i].id)
    BY AppsOpen
  <2>2. ASSUME NEW id, CategoryExists(db, id) PROVE ApiGetCategory(db, id).status = 200
    BY <2>2, CategoriesOpen DEF Found
  <2> HIDE DEF got
  <2>3. /\ got.status = 200 /\ Found(got.body.app) = AdminGetApp(db, a.id)
        /\ \A i \in DOMAIN got.body.categories :
             ApiGetCategory(db, got.body.categories[i].id).status = 200
    BY <2>1, <2>2
  <2> QED
    BY <2>3 DEF got
<1>2. ASSUME NEW w \in db.workbooks PROVE ApiGetWorkbook(db, w.id).status = 200 <=> w.published
  <2> DEFINE shown == attachImages(db, buildQuestionsFromRows(ListQuestionsWithChoicesByWorkbook(db, w.id)))
  <2>1. IF w.published THEN ApiGetWorkbook(db, w.id)
                              = Found([id |-> w.id, title |-> w.title, category |-> w.category,
                                       questions |-> shown])
        ELSE ApiGetWorkbook(db, w.id) = NotFound
    BY WorkbookShown
  <2> HIDE DEF shown
  <2>2. NotFound.status = 404
    BY DEF NotFound
  <2>3. CASE w.published
    BY <1>0, <2>1, <2>3
  <2>4. CASE ~w.published
    BY <2>1, <2>2, <2>4
  <2> QED
    BY <2>3, <2>4
<1>3. ASSUME NEW w \in db.workbooks, w.published
      PROVE  ApiGetWorkbook(db, w.id).body.category = w.category
  <2>1. PICK qs : ApiGetWorkbook(db, w.id) = Found([id |-> w.id, title |-> w.title,
                                                   category |-> w.category, questions |-> qs])
    BY <1>3, WorkbookShown
  <2> QED
    BY <2>1 DEF Found
<1>4. ASSUME NEW c \in db.categories
      PROVE  LET shown == ApiGetCategory(db, c.id).body.workbooks
             IN  \A i \in DOMAIN shown : /\ ApiGetWorkbook(db, shown[i].id).status = 200
                                         /\ ApiGetWorkbook(db, shown[i].id).body.category = c.id
  <2> DEFINE W == {w \in db.workbooks : w.category = c.id /\ w.published}
  <2>1. ApiGetCategory(db, c.id).body.workbooks = Listed(db, W)
    <3>1. CategoryExists(db, c.id)
      BY DEF CategoryExists
    <3> QED
      BY <3>1, CategoriesOpen DEF Found, ListPublishedWorkbooksByCategory
  <2>2. W \subseteq db.workbooks
    OBVIOUS
  <2>3. \A w \in W : ApiGetWorkbook(db, w.id).status = 200 /\ ApiGetWorkbook(db, w.id).body.category = c.id
    BY <1>2, <1>3
  <2> HIDE DEF W
  <2>4. \A w : WorkbookRow(db, w).id = w.id
    BY DEF WorkbookRow
  <2> QED
    BY <2>1, <2>2, <2>3, <2>4, RowsListed
<1>5. ASSUME NEW w \in db.workbooks, w.category # NoCategory
      PROVE  \E i \in DOMAIN AdminGetCategory(db, w.category).body.workbooks :
               AdminGetCategory(db, w.category).body.workbooks[i].id = w.id
  <2> DEFINE W == {v \in db.workbooks : v.category = w.category}
  <2>1. AdminGetCategory(db, w.category).body.workbooks = Listed(db, W)
    <3>1. GetCategoryByID(db, w.category) # {}
      BY <1>5 DEF Sound, Intact, CategoriesOK, CategoryExists, GetCategoryByID
    <3> QED
      BY <3>1 DEF AdminGetCategory, Found, ListWorkbooksByCategory
  <2>2. W \subseteq db.workbooks /\ w \in W
    OBVIOUS
  <2> HIDE DEF W
  <2>3. WorkbookRow(db, w).id = w.id
    BY DEF WorkbookRow
  <2> QED
    BY <2>1, <2>2, <2>3, RowsListed
<1> QED
  BY <1>1, <1>2, <1>4, <1>5 DEF ListedThingsOpen

(* EndpointsAgree, for as long as the questions fit on the one page that it *)
(* reads: the listing, the single-question, the workbook and the            *)
(* administration endpoints show the same of every question, and what is    *)
(* listed can be opened.                                                    *)
QuestionsOnOnePage == Cardinality(db.questions) <= MaxLimit
THEOREM EndpointsTellTheSame ==
  Spec => [](QuestionsOnOnePage => EndpointsAgree)
<1>1. Init => Arranged(db)
  BY ArrangedContent DEF Init
<1>2. PublisherInv /\ Arranged(db) /\ [Next]_vars => Arranged(db)'
  <2>1. PublisherInv => Sound(db) /\ spent \in Nat
    BY PublisherAssumption DEF PublisherInv
  <2> QED
    BY <2>1, ArrangedStep
<1>3. PublisherInv /\ Arranged(db) => (QuestionsOnOnePage => EndpointsAgree)
  BY ReadAlike, Opens DEF PublisherInv, QuestionsOnOnePage, EndpointsAgree
<1> QED
  BY <1>1, <1>2, <1>3, PublisherInvariant, PTL DEF Spec

-----------------------------------------------------------------------------
(***************************************************************************)
(* What a publish that runs alone leaves in the bucket.                    *)
(***************************************************************************)
(* Every object it writes, as the content API answers from the database d:  *)
(* the list of a stage, and the detail of an entry.                         *)
Fresh(d, l) == CASE l = "categories"    -> buildCategories(d)
                 [] l = "workbooks"     -> buildWorkbooks(d)
                 [] l = "announcements" -> buildAnnouncements(d)
FreshDetail(d, l, id) == CASE l = "categories"    -> ApiGetCategory(d, id).body
                           [] l = "workbooks"     -> ApiGetWorkbook(d, id).body
                           [] l = "announcements" -> ApiGetAnnouncement(d, id).body
Holds(b, key, body) == key \in DOMAIN b /\ b[key].body = body
HoldsDetail(d, b, l, id) == Holds(b, <<DetailOf[l], id>>, FreshDetail(d, l, id))
Exact(d, b, l) ==
  /\ Holds(b, ListKey(l), Fresh(d, l))
  /\ \A i \in DOMAIN Fresh(d, l) : HoldsDetail(d, b, l, Fresh(d, l)[i].id)

(* The lists that are complete in a stage, what has been read for the next  *)
(* object, and what is still to be built of the details.                    *)
Complete(stage) == CASE stage \in {"categories", "category"}        -> {}
                     [] stage \in {"workbooks", "workbook"}         -> {"categories"}
                     [] stage \in {"announcements", "announcement"} -> {"categories", "workbooks"}
                     [] stage = "done"                              -> Lists
DraftFresh(d, r) ==
  /\ r.stage \in Lists /\ r.draft # << >> => r.draft[1] = Fresh(d, r.stage)
  /\ r.stage = "category" =>
       /\ Len(r.draft) > 0 => r.draft[1] \in GetCategoryTitle(d, Head(r.todo))
       /\ Len(r.draft) > 1 => r.draft[2] = ListPublishedWorkbooksByCategory(d, Head(r.todo))
  /\ r.stage = "workbook" =>
       /\ Len(r.draft) > 0 => r.draft[1] \in GetWorkbookTitle(d, Head(r.todo))
       /\ Len(r.draft) > 1 => r.draft[2] = ListQuestionsWithChoicesByWorkbook(d, Head(r.todo))
       /\ Len(r.draft) > 2 =>
            r.draft[3] = GetImageURLsByQuestionIDs(d, {r.draft[2][n].id : n \in DOMAIN r.draft[2]})
ToBuild(d, l) == CASE l = "categories"    -> {c.id : c \in d.categories}
                   [] l = "workbooks"     -> {w.id : w \in {v \in d.workbooks : v.published}}
                   [] l = "announcements" -> d.announcements
Underway(d, b, r, l) ==
  /\ Holds(b, ListKey(l), Fresh(d, l))
  /\ \A i \in DOMAIN r.todo : r.todo[i] \in ToBuild(d, l)
  /\ \A i \in DOMAIN Fresh(d, l) :
       Fresh(d, l)[i].id \in TodoIds(r) \/ HoldsDetail(d, b, l, Fresh(d, l)[i].id)
Clean(d, b, r) ==
  /\ \A l \in Complete(r.stage) : Exact(d, b, l)
  /\ DraftFresh(d, r)
  /\ \A l \in Lists : r.stage = DetailOf[l] => Underway(d, b, r, l)

(* The invariant: a publish that is alone has been exact so far, and after  *)
(* one that succeeded, while nothing has happened since, all is exact.      *)
CleanInv ==
  /\ \A p \in Publishes : IsSequence(pub[p].draft)
  /\ \A p \in Publishes : pub[p].alone /\ Running(p) =>
       Clean(db, bucket, pub[p]) /\ \A o \in Publishes \ {p} : ~Running(o)
  /\ settled => (\A p \in Publishes : ~Running(p)) /\ \A l \in Lists : Exact(db, bucket, l)

(* A detail as the publisher builds it is what the content API answers.     *)
LEMMA CategoryDetail ==
  ASSUME NEW d, Sound(d), NEW id, NEW title \in GetCategoryTitle(d, id)
  PROVE  buildCategoryDetail(id, title, ListPublishedWorkbooksByCategory(d, id))
           = FreshDetail(d, "categories", id)
<1>1. PICK c \in d.categories : c.id = id /\ c.title = title
  BY DEF GetCategoryTitle
<1>2. GetCategoryByID(d, id) = {c}
  BY <1>1 DEF GetCategoryByID, Sound, Intact, SerialsOK, SerialOK, Keyed, Serial
<1>3. (CHOOSE x \in GetCategoryByID(d, id) : TRUE).title = title
  BY <1>1, <1>2
<1>4. FreshDetail(d, "categories", id) = ApiGetCategory(d, id).body
  BY DEF FreshDetail
<1> QED
  BY <1>2, <1>3, <1>4 DEF ApiGetCategory, Found, buildCategoryDetail

LEMMA AnnouncementDetail ==
  ASSUME NEW d, Sound(d), NEW a \in d.announcements
  PROVE  a = FreshDetail(d, "announcements", a.id)
<1>1. GetAnnouncement(d, a.id) = {a}
  BY DEF GetAnnouncement, Sound, Intact, SerialsOK, SerialOK, Keyed, Serial
<1> QED
  BY <1>1 DEF FreshDetail, ApiGetAnnouncement, Found

(* In a workbook, the publisher has no key for a question without one where *)
(* the content API says 0: a question that was written has a key.           *)
LEMMA WorkbookDetail ==
  ASSUME NEW d, Sound(d), Arranged(d), NEW w \in d.workbooks, w.published,
         NEW wb \in GetWorkbookTitle(d, w.id)
  PROVE  LET rows == ListQuestionsWithChoicesByWorkbook(d, w.id)
             urls == GetImageURLsByQuestionIDs(d, {rows[n].id : n \in DOMAIN rows})
         IN  buildWorkbookDetail(w.id, wb, rows, urls) = FreshDetail(d, "workbooks", w.id)
<1> DEFINE rows == ListQuestionsWithChoicesByWorkbook(d, w.id)
           qs == {rows[n].id : n \in DOMAIN rows}
           urls == GetImageURLsByQuestionIDs(d, qs)
           shown == attachImages(d, buildQuestionsFromRows(rows))
           question(n) == [id |-> rows[n].id, text |-> rows[n].text,
                           choices |-> [i \in DOMAIN rows[n].choices |-> rows[n].choices[i].text],
                           correct |-> LastCorrect(rows[n].choices, NoKey),
                           images |-> IF rows[n].id \in DOMAIN urls THEN urls[rows[n].id] ELSE << >>]
           built == [n \in DOMAIN rows |-> question(n)]
<1>1. wb.title = w.title /\ wb.category = w.category
  BY DEF GetWorkbookTitle, Sound, Intact, SerialsOK, SerialOK, Keyed, Serial
<1>2. /\ DOMAIN shown = DOMAIN rows
      /\ \A i \in DOMAIN rows : \E q \in d.questions : rows[i] = RowsOf(d, q) /\ shown[i] = Shown(d, q)
      /\ IF w.published THEN ApiGetWorkbook(d, w.id)
                               = Found([id |-> w.id, title |-> w.title, category |-> w.category,
                                        questions |-> shown])
         ELSE ApiGetWorkbook(d, w.id) = NotFound
  BY WorkbookShown
<1>3. buildWorkbookDetail(w.id, wb, rows, urls)
        = [id |-> w.id, title |-> wb.title, category |-> wb.category, questions |-> built]
  BY DEF buildWorkbookDetail
<1>4. shown = [n \in DOMAIN shown |-> shown[n]]
  BY DEF attachImages
<1> HIDE DEF rows, shown, qs
<1>5. ASSUME NEW n \in DOMAIN rows PROVE question(n) = shown[n]
  <2>1. PICK q \in d.questions : rows[n] = RowsOf(d, q) /\ shown[n] = Shown(d, q)
    BY <1>2
  <2> DEFINE cs == GetChoicesByQuestionID(d, q)
             text == (CHOOSE s \in GetQuestionByID(d, q) : TRUE).text
             images == GetImageURLsByQuestionID(d, q)
  <2>2. rows[n].id = q /\ rows[n].text = text /\ rows[n].choices = cs
    BY <2>1 DEF RowsOf
  <2>3. LastCorrect(cs, NoKey) = LastCorrect(cs, 0)
    BY KeyShown
  <2>4. q \in qs
    BY <2>2 DEF qs
  <2>5. (IF q \in DOMAIN urls THEN urls[q] ELSE << >>) = images
    BY <2>4, ImagesShown
  <2>6. GetQuestionByID(d, q) # {}
    BY DEF Sound, Intact, QuestionsOK, GetQuestionByID
  <2>7. Shown(d, q) = [id |-> q, text |-> text, choices |-> [j \in DOMAIN cs |-> cs[j].text],
                       correct |-> LastCorrect(cs, 0), images |-> images]
    BY <2>6 DEF Shown, ApiGetQuestion, Found, buildQuestion
  <2> HIDE DEF cs, text, images, urls
  <2> QED
    BY <2>1, <2>2, <2>3, <2>5, <2>7
<1>6. built = shown
  BY <1>2, <1>4, <1>5
<1>7. FreshDetail(d, "workbooks", w.id) = [id |-> w.id, title |-> w.title, category |-> w.category,
                                           questions |-> shown]
  <2>1. ApiGetWorkbook(d, w.id) = Found([id |-> w.id, title |-> w.title, category |-> w.category,
                                         questions |-> shown])
    BY <1>2
  <2> QED
    BY <2>1 DEF FreshDetail, Found
<1> HIDE DEF built, urls
<1>8. buildWorkbookDetail(w.id, wb, rows, urls) = FreshDetail(d, "workbooks", w.id)
  BY <1>1, <1>3, <1>6, <1>7
<1> QED
  BY <1>8 DEF rows, urls, qs

(* An upload writes its object and leaves the others.                       *)
LEMMA Uploaded ==
  ASSUME NEW p, NEW key, NEW body, uploadJSON(p, key, body)
  PROVE  /\ Holds(bucket', key, body)
         /\ \A k : \A x : Holds(bucket, k, x) /\ k # key => Holds(bucket', k, x)
  BY DEF uploadJSON, Holds
LEMMA KeysApart ==
  /\ \A l \in Lists : \A m \in Lists : \A id :
       /\ ListKey(l) # <<DetailOf[m], id>>
       /\ l # m => ListKey(l) # ListKey(m)
       /\ l # m => \A x : <<DetailOf[l], x>> # <<DetailOf[m], id>>
  BY DEF Lists, ListKey, DetailOf

(* A step of one publish: it is enough that the publish stays clean.        *)
LEMMA OwnStep ==
  ASSUME PublishInv, CleanInv, NEW p \in Publishes, Running(p), NEW r,
         pub' = [pub EXCEPT ![p] = r], IsSequence(r.draft), r.alone => pub[p].alone,
         settled' => settled \/ (pub[p].alone /\ r.stage = "done"),
         pub[p].alone /\ r.stage # "failed" => Clean(db', bucket', r)
  PROVE  CleanInv'
<1>1. pub'[p] = r /\ \A o \in Publishes : o # p => pub'[o] = pub[o]
  BY DEF PublishInv
<1>2. \A o \in Publishes : IsSequence(pub'[o].draft)
  BY <1>1 DEF CleanInv
<1>3. "failed" \notin Lists \cup Details /\ "done" \notin Lists \cup Details
  BY DEF Lists, Details
<1>4. ASSUME NEW o \in Publishes, pub'[o].alone, Running(o)'
      PROVE  Clean(db', bucket', pub'[o]) /\ \A q \in Publishes \ {o} : ~Running(q)'
  <2>1. o = p
    BY <1>1, <1>4 DEF CleanInv, Running
  <2>2. pub[p].alone /\ r.stage # "failed"
    BY <1>1, <1>3, <1>4, <2>1 DEF Running
  <2> QED
    BY <1>1, <2>1, <2>2 DEF CleanInv, Running
<1>5. ASSUME settled' PROVE (\A o \in Publishes : ~Running(o)') /\ \A l \in Lists : Exact(db', bucket', l)
  <2>1. pub[p].alone /\ r.stage = "done"
    BY <1>5 DEF CleanInv
  <2>2. \A o \in Publishes : ~Running(o)'
    BY <1>1, <1>3, <2>1 DEF CleanInv, Running
  <2>3. Complete(r.stage) = Lists
    BY <2>1 DEF Complete
  <2> QED
    BY <2>1, <2>2, <2>3 DEF Clean
<1> QED
  BY <1>2, <1>4, <1>5 DEF CleanInv

(* A read: the draft gets another part.                                     *)
LEMMA Grown ==
  ASSUME NEW s, IsSequence(s), NEW part
  PROVE  LET t == Append(s, part)
         IN  /\ IsSequence(t) /\ Len(s) \in Nat /\ Len(t) = Len(s) + 1
             /\ \A i \in 1 .. Len(s) : t[i] = s[i]
             /\ t[Len(s) + 1] = part
<1> DEFINE T == {s[i] : i \in DOMAIN s} \cup {part}
           t == Append(s, part)
<1>1. s \in Seq(T) /\ part \in T
  <2>1. s \in Seq({s[i] : i \in DOMAIN s})
    BY DEF IsSequence
  <2> QED
    BY <2>1
<1> HIDE DEF T
<1>2. /\ t \in Seq(T) /\ Len(t) = Len(s) + 1 /\ Len(s) \in Nat
      /\ \A i \in 1 .. Len(s) : t[i] = s[i]
      /\ t[Len(s) + 1] = part
  BY <1>1, AppendProperties
<1> HIDE DEF t
<1>3. t = [i \in 1 .. Len(t) |-> t[i]] /\ Len(t) \in Nat
  BY <1>2
<1>4. IsSequence(t)
  BY <1>3, FunctionIsSequence
<1> QED
  BY <1>2, <1>4 DEF t

LEMMA ReadStep ==
  ASSUME PublishInv, CleanInv, NEW p \in Publishes, Running(p), NEW part, Read(p, part),
         pub[p].alone => DraftFresh(db, [pub[p] EXCEPT !.draft = Append(pub[p].draft, part)])
  PROVE  CleanInv'
<1> DEFINE r == [pub[p] EXCEPT !.draft = Append(pub[p].draft, part)]
<1>1. /\ pub' = [pub EXCEPT ![p] = r] /\ UNCHANGED <<db, bucket, spent, failures, settled>>
      /\ r.stage = pub[p].stage /\ r.todo = pub[p].todo /\ r.alone = pub[p].alone
      /\ r.draft = Append(pub[p].draft, part)
  BY DEF Read, PublishInv, PublishOK
<1>2. IsSequence(r.draft)
  BY <1>1, Grown DEF CleanInv
<1>3. ASSUME pub[p].alone PROVE Clean(db', bucket', r)
  <2>1. Clean(db, bucket, pub[p]) /\ DraftFresh(db, r)
    BY <1>3 DEF CleanInv
  <2> HIDE DEF r
  <2>2. TodoIds(r) = TodoIds(pub[p])
    BY <1>1 DEF TodoIds
  <2>3. \A l \in Lists : r.stage = DetailOf[l] => Underway(db, bucket, r, l)
    BY <1>1, <2>1, <2>2 DEF Clean, Underway
  <2> QED
    BY <1>1, <2>1, <2>3 DEF Clean
<1> HIDE DEF r
<1> QED
  BY <1>1, <1>2, <1>3, OwnStep

LEMMA Reads ==
  ASSUME PublishInv, CleanInv, NEW p \in Publishes,
         \/ BuildList(p) \/ ReadCategoryTitle(p) \/ ReadCategoryWorkbooks(p)
         \/ ReadWorkbookTitle(p) \/ ReadWorkbookQuestions(p) \/ ReadWorkbookImages(p)
  PROVE  CleanInv'
<1> DEFINE draft == pub[p].draft
           head == Head(pub[p].todo)
           r(part) == [pub[p] EXCEPT !.draft = Append(draft, part)]
<1>1. \A part : /\ r(part).stage = pub[p].stage /\ r(part).todo = pub[p].todo
                /\ r(part).draft = Append(draft, part)
  BY DEF PublishInv, PublishOK
<1>2. ASSUME NEW part
      PROVE  LET t == Append(draft, part)
             IN  /\ Len(draft) \in Nat /\ Len(t) = Len(draft) + 1
                 /\ \A i \in 1 .. Len(draft) : t[i] = draft[i]
                 /\ t[Len(draft) + 1] = part
  BY Grown DEF CleanInv
<1>3. Running(p) => (pub[p].alone => DraftFresh(db, pub[p]))
  BY DEF CleanInv, Clean
<1>4. /\ "category" \notin Lists /\ "workbook" \notin Lists
      /\ "category" \in Details /\ "workbook" \in Details
      /\ Lists \cap Details = {}
  BY DEF Lists, Details
<1> HIDE DEF r
<1>5. ASSUME BuildList(p) PROVE CleanInv'
  <2>1. PICK part : part = Fresh(db, pub[p].stage) /\ Read(p, part)
    BY <1>5 DEF BuildList, Fresh
  <2>2. pub[p].stage \in Lists /\ draft = << >> /\ Running(p)
    BY <1>5 DEF BuildList, Running
  <2>3. Append(draft, part)[1] = part
    BY <2>2
  <2>4. DraftFresh(db, r(part))
    BY <1>1, <1>4, <2>1, <2>2, <2>3 DEF DraftFresh
  <2> QED
    BY <2>1, <2>2, <2>4, ReadStep DEF r
<1>6. ASSUME ReadCategoryTitle(p) PROVE CleanInv'
  <2>1. PICK title \in GetCategoryTitle(db, head) : Read(p, title)
    BY <1>6 DEF ReadCategoryTitle
  <2>2. pub[p].stage = "category" /\ Len(draft) = 0 /\ Running(p)
    BY <1>4, <1>6 DEF ReadCategoryTitle, Running
  <2>3. Len(Append(draft, title)) = 1 /\ Append(draft, title)[1] = title
    BY <1>2, <2>2
  <2>4. DraftFresh(db, r(title))
    BY <1>1, <1>4, <2>1, <2>2, <2>3 DEF DraftFresh
  <2> QED
    BY <2>1, <2>2, <2>4, ReadStep DEF r
<1>7. ASSUME ReadCategoryWorkbooks(p) PROVE CleanInv'
  <2> DEFINE part == ListPublishedWorkbooksByCategory(db, head)
  <2>1. Read(p, part)
    BY <1>7 DEF ReadCategoryWorkbooks
  <2>2. pub[p].stage = "category" /\ Len(draft) = 1 /\ Running(p)
    BY <1>4, <1>7 DEF ReadCategoryWorkbooks, Running
  <2>3. /\ Len(Append(draft, part)) = 2 /\ Append(draft, part)[1] = draft[1]
        /\ Append(draft, part)[2] = part
    BY <1>2, <2>2
  <2>4. pub[p].alone => draft[1] \in GetCategoryTitle(db, head)
    BY <1>3, <2>2 DEF DraftFresh
  <2>5. pub[p].alone => DraftFresh(db, r(part))
    BY <1>1, <1>4, <2>2, <2>3, <2>4 DEF DraftFresh
  <2> QED
    BY <2>1, <2>2, <2>5, ReadStep DEF r
<1>8. ASSUME ReadWorkbookTitle(p) PROVE CleanInv'
  <2>1. PICK wb \in GetWorkbookTitle(db, head) : Read(p, wb)
    BY <1>8 DEF ReadWorkbookTitle
  <2>2. pub[p].stage = "workbook" /\ Len(draft) = 0 /\ Running(p)
    BY <1>4, <1>8 DEF ReadWorkbookTitle, Running
  <2>3. Len(Append(draft, wb)) = 1 /\ Append(draft, wb)[1] = wb
    BY <1>2, <2>2
  <2>4. DraftFresh(db, r(wb))
    BY <1>1, <1>4, <2>1, <2>2, <2>3 DEF DraftFresh
  <2> QED
    BY <2>1, <2>2, <2>4, ReadStep DEF r
<1>9. ASSUME ReadWorkbookQuestions(p) PROVE CleanInv'
  <2> DEFINE part == ListQuestionsWithChoicesByWorkbook(db, head)
  <2>1. Read(p, part)
    BY <1>9 DEF ReadWorkbookQuestions
  <2>2. pub[p].stage = "workbook" /\ Len(draft) = 1 /\ Running(p)
    BY <1>4, <1>9 DEF ReadWorkbookQuestions, Running
  <2>3. /\ Len(Append(draft, part)) = 2 /\ Append(draft, part)[1] = draft[1]
        /\ Append(draft, part)[2] = part
    BY <1>2, <2>2
  <2>4. pub[p].alone => draft[1] \in GetWorkbookTitle(db, head)
    BY <1>3, <2>2 DEF DraftFresh
  <2>5. pub[p].alone => DraftFresh(db, r(part))
    BY <1>1, <1>4, <2>2, <2>3, <2>4 DEF DraftFresh
  <2> QED
    BY <2>1, <2>2, <2>5, ReadStep DEF r
<1>10. ASSUME ReadWorkbookImages(p) PROVE CleanInv'
  <2> DEFINE part == GetImageURLsByQuestionIDs(db, {draft[2][n].id : n \in DOMAIN draft[2]})
  <2>1. Read(p, part)
    BY <1>10 DEF ReadWorkbookImages
  <2>2. pub[p].stage = "workbook" /\ Len(draft) = 2 /\ Running(p)
    BY <1>4, <1>10 DEF ReadWorkbookImages, Running
  <2>3. /\ Len(Append(draft, part)) = 3 /\ Append(draft, part)[1] = draft[1]
        /\ Append(draft, part)[2] = draft[2] /\ Append(draft, part)[3] = part
    BY <1>2, <2>2
  <2>4. pub[p].alone => /\ draft[1] \in GetWorkbookTitle(db, head)
                        /\ draft[2] = ListQuestionsWithChoicesByWorkbook(db, head)
    BY <1>3, <2>2 DEF DraftFresh
  <2> DEFINE t == Append(draft, part)
  <2>5. r(part).draft = t /\ r(part).stage = "workbook" /\ Head(r(part).todo) = head
    BY <1>1, <2>2
  <2> HIDE DEF t
  <2>6. t[3] = GetImageURLsByQuestionIDs(db, {t[2][n].id : n \in DOMAIN t[2]})
    <3>1. t[2] = draft[2] /\ t[3] = part
      BY <2>3 DEF t
    <3> QED
      BY <3>1
  <2> HIDE DEF part
  <2>7. pub[p].alone => DraftFresh(db, r(part))
    BY <1>4, <2>3, <2>4, <2>5, <2>6 DEF DraftFresh, t
  <2> QED
    BY <2>1, <2>2, <2>7, ReadStep DEF r
<1> QED
  BY <1>5, <1>6, <1>7, <1>8, <1>9, <1>10

(* What a list names is what is to be built, and every row is named.        *)
LEMMA PageEntries ==
  ASSUME NEW T, NEW rows \in Seq(T), NEW limit \in Nat
  PROVE  Page(rows, limit, 0) \in Seq(T)
<1> DEFINE last == IF 0 + limit < Len(rows) THEN 0 + limit ELSE Len(rows)
<1>1. Len(rows) \in Nat /\ \A i \in 1 .. Len(rows) : rows[i] \in T
  OBVIOUS
<1>2. 0 + 1 \in Int /\ last \in Int /\ \A i \in 0 + 1 .. last : rows[i] \in T
  BY <1>1
<1> HIDE DEF last
<1>3. SubSeq(rows, 0 + 1, last) \in Seq(T)
  BY <1>2, SubSeqProperties
<1> QED
  BY <1>3 DEF Page, last

LEMMA AnnouncementRows ==
  ASSUME NEW d, Sound(d), Arranged(d)
  PROVE  LET list == Fresh(d, "announcements")
         IN  /\ \A i \in DOMAIN list : list[i] \in d.announcements
             /\ Cardinality(d.announcements) <= Announced =>
                  \A a \in d.announcements : \E i \in DOMAIN list : list[i] = a
<1> DEFINE S == d.announcements
           n == Cardinality(S)
           rows == NewestFirst(S)
<1>1. IsFiniteSet(S) /\ Keyed(S) /\ \A r \in S : r.publishedAt \in Nat /\ r.id \in Nat
  BY DEF Arranged, Sound, Intact, SerialsOK, SerialOK, Serial
<1> HIDE DEF S
<1>2. Listing(rows, S)
  BY <1>1, NewestInOrder
<1>3. rows = [i \in 1 .. n |-> CHOOSE r \in S : Cardinality({s \in S : NewerThan(s, r)}) = i - 1]
  BY DEF NewestFirst, OrderBy, NewerThan
<1> HIDE DEF rows
<1>4. rows = [i \in 1 .. n |-> rows[i]]
  <2> DEFINE at(i) == CHOOSE r \in S : Cardinality({s \in S : NewerThan(s, r)}) = i - 1
  <2>1. rows = [i \in 1 .. n |-> at(i)]
    BY <1>3
  <2> HIDE DEF at, n
  <2> QED
    BY <2>1
<1>5. rows \in Seq(S) /\ Len(rows) = n
  <2>1. n \in Nat /\ \A i \in 1 .. n : rows[i] \in S
    BY <1>2 DEF Listing
  <2> HIDE DEF n
  <2>2. rows \in [1 .. n -> S]
    BY <1>4, <2>1
  <2> QED
    BY <2>1, <2>2
<1>6. Fresh(d, "announcements") = Page(rows, Announced, 0)
  BY DEF Fresh, buildAnnouncements, ListLatestAnnouncements, rows, S
<1>7. Page(rows, Announced, 0) \in Seq(S)
  BY <1>5, PageEntries DEF Announced
<1>8. n <= Announced => Page(rows, Announced, 0) = rows
  BY <1>5, WholePage DEF Announced
<1>9. \A i \in DOMAIN Fresh(d, "announcements") : Fresh(d, "announcements")[i] \in S
  BY <1>6, <1>7
<1>10. n <= Announced => \A a \in S : \E i \in DOMAIN rows : rows[i] = a
  BY <1>2 DEF Listing
<1> QED
  BY <1>6, <1>8, <1>9, <1>10 DEF S, n

LEMMA CategoryRows ==
  ASSUME NEW d, Sound(d)
  PROVE  LET list == Fresh(d, "categories")
             rows == ById(d.categories)
         IN  /\ DOMAIN list = DOMAIN rows
             /\ \A i \in DOMAIN list :
                  /\ rows[i] \in d.categories
                  /\ list[i].id = rows[i].id /\ list[i].title = rows[i].title
                  /\ list[i].workbookCount =
                       Cardinality({w \in d.workbooks : w.published /\ w.category = rows[i].id})
<1> DEFINE rows == ById(d.categories)
           W == {w \in d.workbooks : w.published}
           list == Counted(rows, W)
<1>1. SerialOK(d.categories, d.seq.categories, TRUE)
  BY DEF Sound, Intact, SerialsOK, Serial
<1>2. Listing(rows, d.categories)
  BY <1>1, RowsById
<1>3. Fresh(d, "categories") = list
  BY DEF Fresh, buildCategories, ListAllCategories
<1> HIDE DEF rows
<1>4. /\ DOMAIN list = DOMAIN rows
      /\ \A i \in DOMAIN rows : /\ list[i].id = rows[i].id /\ list[i].title = rows[i].title
                                /\ list[i].workbookCount = Cardinality({w \in W : w.category = rows[i].id})
  BY DEF Counted
<1>5. \A id : {w \in W : w.category = id} = {w \in d.workbooks : w.published /\ w.category = id}
  OBVIOUS
<1> HIDE DEF list, W
<1>6. \A i \in DOMAIN list :
        list[i].workbookCount = Cardinality({w \in d.workbooks : w.published /\ w.category = rows[i].id})
  BY <1>4, <1>5
<1>7. \A i \in DOMAIN list : rows[i] \in d.categories
  BY <1>2, <1>4 DEF Listing
<1> QED
  BY <1>3, <1>4, <1>6, <1>7 DEF rows

LEMMA WorkbookRows ==
  ASSUME NEW d, Sound(d)
  PROVE  LET list == Fresh(d, "workbooks")
             W == {w \in d.workbooks : w.published}
         IN  /\ \A i \in DOMAIN list : \E w \in W : list[i].id = w.id
             /\ \A w \in W : \E i \in DOMAIN list : list[i].id = w.id
<1> DEFINE W == {w \in d.workbooks : w.published}
<1>1. Fresh(d, "workbooks") = Listed(d, W)
  BY DEF Fresh, buildWorkbooks, ListAllWorkbooks
<1>2. W \subseteq d.workbooks
  OBVIOUS
<1>3. \A w : WorkbookRow(d, w).id = w.id
  BY DEF WorkbookRow
<1> HIDE DEF W
<1>4. /\ \A i \in DOMAIN Listed(d, W) : \E w \in W : Listed(d, W)[i] = WorkbookRow(d, w)
      /\ \A w \in W : \E i \in DOMAIN Listed(d, W) : Listed(d, W)[i] = WorkbookRow(d, w)
  BY <1>2, RowsListed
<1>5. /\ \A i \in DOMAIN Listed(d, W) : \E w \in W : Listed(d, W)[i].id = w.id
      /\ \A w \in W : \E i \in DOMAIN Listed(d, W) : Listed(d, W)[i].id = w.id
  BY <1>3, <1>4
<1> QED
  BY <1>1, <1>5 DEF W

LEMMA ListEntries ==
  ASSUME NEW d, Sound(d), Arranged(d), NEW l \in Lists
  PROVE  /\ IsSequence(Fresh(d, l))
         /\ \A i \in DOMAIN Fresh(d, l) :
              (IF l = "announcements" THEN Fresh(d, l)[i] ELSE Fresh(d, l)[i].id) \in ToBuild(d, l)
<1>1. IsSequence(Fresh(d, l))
  BY ListsAreSequences DEF Fresh, Lists
<1>2. CASE l = "categories"
  <2>1. \A i \in DOMAIN Fresh(d, l) : \E c \in d.categories : Fresh(d, l)[i].id = c.id
    BY <1>2, CategoryRows
  <2>2. ToBuild(d, l) = {c.id : c \in d.categories}
    BY <1>2 DEF ToBuild
  <2> QED
    BY <1>1, <1>2, <2>1, <2>2
<1>3. CASE l = "workbooks"
  <2>1. \A i \in DOMAIN Fresh(d, l) : \E w \in {v \in d.workbooks : v.published} : Fresh(d, l)[i].id = w.id
    BY <1>3, WorkbookRows
  <2>2. ToBuild(d, l) = {w.id : w \in {v \in d.workbooks : v.published}}
    BY <1>3 DEF ToBuild
  <2> QED
    BY <1>1, <1>3, <2>1, <2>2
<1>4. CASE l = "announcements"
  BY <1>1, <1>4, AnnouncementRows DEF ToBuild
<1> QED
  BY <1>2, <1>3, <1>4 DEF Lists

(* What is in the bucket stays, unless its own object is written.           *)
LEMMA ExactKept ==
  ASSUME NEW d, NEW l \in Lists, Exact(d, bucket, l), NEW p, NEW key, NEW body, uploadJSON(p, key, body),
         key # ListKey(l), \A id : key # <<DetailOf[l], id>>
  PROVE  Exact(d, bucket', l)
  BY Uploaded DEF Exact, HoldsDetail

(* A stage is followed by the list after it, or by the end.                 *)
LEMMA StageFollows ==
  /\ \A l \in Lists : /\ DetailOf[l] \in Details /\ DetailOf[l] \notin Lists
                      /\ NextStage[DetailOf[l]] \in Lists \cup {"done"}
                      /\ Complete(DetailOf[l]) = Complete(l) /\ l \notin Complete(l) /\ Complete(l) \subseteq Lists
                      /\ Complete(NextStage[DetailOf[l]]) = Complete(l) \cup {l}
                      /\ DetailOf[l] = "announcement" <=> l = "announcements"
  /\ \A l, m \in Lists : DetailOf[l] = DetailOf[m] => l = m
  /\ \A l, m \in Lists : DetailOf[l] # NextStage[DetailOf[m]]
  /\ \A s \in Details : \E l \in Lists : s = DetailOf[l]
  /\ "done" \notin Lists /\ "done" \notin Details
  /\ "category" \notin Lists /\ "workbook" \notin Lists
<1>1. \A l \in Lists : l = "categories" \/ l = "workbooks" \/ l = "announcements"
  BY DEF Lists
<1>2. /\ DetailOf["categories"] = "category" /\ DetailOf["workbooks"] = "workbook"
      /\ DetailOf["announcements"] = "announcement"
  BY DEF DetailOf
<1>3. /\ NextStage["category"] = "workbooks" /\ NextStage["workbook"] = "announcements"
      /\ NextStage["announcement"] = "done"
  BY DEF NextStage
<1>4. /\ Complete("categories") = {} /\ Complete("category") = {}
      /\ Complete("workbooks") = {"categories"} /\ Complete("workbook") = {"categories"}
      /\ Complete("announcements") = {"categories", "workbooks"}
      /\ Complete("announcement") = {"categories", "workbooks"}
      /\ Complete("done") = {"categories", "workbooks", "announcements"}
  BY DEF Complete, Lists
<1>5. ASSUME NEW l \in Lists
      PROVE  /\ DetailOf[l] \in Details /\ DetailOf[l] \notin Lists
             /\ NextStage[DetailOf[l]] \in Lists \cup {"done"}
             /\ Complete(DetailOf[l]) = Complete(l) /\ l \notin Complete(l) /\ Complete(l) \subseteq Lists
             /\ Complete(NextStage[DetailOf[l]]) = Complete(l) \cup {l}
             /\ DetailOf[l] = "announcement" <=> l = "announcements"
  <2>1. CASE l = "categories"
    BY <1>2, <1>3, <1>4, <2>1 DEF Details, Lists
  <2>2. CASE l = "workbooks"
    BY <1>2, <1>3, <1>4, <2>2 DEF Details, Lists
  <2>3. CASE l = "announcements"
    BY <1>2, <1>3, <1>4, <2>3 DEF Details, Lists
  <2> QED
    BY <1>1, <2>1, <2>2, <2>3
<1>6. \A l, m \in Lists : DetailOf[l] = DetailOf[m] => l = m
  BY <1>1, <1>2
<1>7. \A l, m \in Lists : DetailOf[l] # NextStage[DetailOf[m]]
  BY <1>1, <1>2, <1>3
<1>8. \A s \in Details : \E l \in Lists : s = DetailOf[l]
  BY <1>2 DEF Details, Lists
<1>9. /\ "done" \notin Lists /\ "done" \notin Details
      /\ "category" \notin Lists /\ "workbook" \notin Lists
  BY DEF Lists, Details
<1> QED
  BY <1>5, <1>6, <1>7, <1>8, <1>9

(* Uploading a list.                                                        *)
LEMMA ListPut ==
  ASSUME Sound(db), Arranged(db), PublishInv, CleanInv, NEW p \in Publishes, PutList(p)
  PROVE  CleanInv'
<1> DEFINE l == pub[p].stage
           list == pub[p].draft[1]
           todo == IF DetailOf[l] = "announcement" THEN list ELSE Ids(list)
           next == IF list = << >> THEN NextStage[DetailOf[l]] ELSE DetailOf[l]
           r == [pub[p] EXCEPT !.draft = << >>, !.todo = todo, !.stage = next]
<1>1. /\ l \in Lists /\ pub[p].draft # << >> /\ uploadJSON(p, ListKey(l), list)
      /\ pub' = [pub EXCEPT ![p] = r] /\ UNCHANGED <<db, spent, failures>>
      /\ settled' = (pub[p].alone /\ pub'[p].stage = "done")
  BY DEF PutList, PublishInv, PublishOK
<1>2. r.draft = << >> /\ r.todo = todo /\ r.stage = next /\ r.alone = pub[p].alone
  BY DEF PublishInv, PublishOK
<1>3. pub'[p] = r /\ Running(p)
  BY <1>1 DEF PublishInv, Running
<1>4. IsSequence(r.draft) /\ Len(r.draft) = 0
  BY <1>2 DEF IsSequence
<1>5. ASSUME pub[p].alone PROVE Clean(db, bucket', r)
  <2>1. Clean(db, bucket, pub[p]) /\ list = Fresh(db, l)
    BY <1>1, <1>3, <1>5 DEF CleanInv, Clean, DraftFresh
  <2>2. /\ IsSequence(list)
        /\ \A i \in DOMAIN list :
             (IF l = "announcements" THEN list[i] ELSE list[i].id) \in ToBuild(db, l)
    BY <1>1, <2>1, ListEntries
  <2>3. Holds(bucket', ListKey(l), Fresh(db, l))
    BY <1>1, <2>1, Uploaded
  <2>4. ASSUME NEW m \in Lists, m # l, Exact(db, bucket, m) PROVE Exact(db, bucket', m)
    BY <1>1, <2>4, KeysApart, ExactKept
  <2>5. \A m \in Complete(l) : Exact(db, bucket', m)
    BY <1>1, <2>1, <2>4, StageFollows DEF Clean
  <2>6. DraftFresh(db, r)
    BY <1>2, <1>4 DEF DraftFresh
  <2> HIDE DEF list, r
  <2>7. CASE list = << >>
    <3>1. r.stage = NextStage[DetailOf[l]]
      BY <1>2, <2>7
    <3>2. Exact(db, bucket', l)
      BY <2>1, <2>3, <2>7 DEF Exact
    <3>3. \A m \in Complete(r.stage) : Exact(db, bucket', m)
      BY <1>1, <2>5, <3>1, <3>2, StageFollows
    <3>4. \A m \in Lists : r.stage # DetailOf[m]
      BY <1>1, <3>1, StageFollows
    <3> QED
      BY <2>6, <3>3, <3>4 DEF Clean
  <2>8. CASE list # << >>
    <3>1. r.stage = DetailOf[l] /\ r.todo = todo
      BY <1>2, <2>8
    <3>2. DOMAIN Ids(list) = DOMAIN list /\ \A i \in DOMAIN list : Ids(list)[i] = list[i].id
      BY DEF Ids
    <3>3. DetailOf[l] = "announcement" <=> l = "announcements"
      BY <1>1, StageFollows
    <3>4. /\ \A i \in DOMAIN r.todo : r.todo[i] \in ToBuild(db, l)
          /\ \A i \in DOMAIN list : list[i].id \in TodoIds(r)
      <4>1. CASE l = "announcements"
        BY <2>2, <3>1, <3>3, <4>1 DEF TodoIds
      <4>2. CASE l # "announcements"
        BY <2>2, <3>1, <3>2, <3>3, <4>2 DEF TodoIds
      <4> QED
        BY <4>1, <4>2
    <3>5. Underway(db, bucket', r, l)
      BY <2>1, <2>3, <3>4 DEF Underway
    <3>6. \A m \in Lists : r.stage = DetailOf[m] => m = l
      BY <1>1, <3>1, StageFollows
    <3>7. \A m \in Complete(r.stage) : Exact(db, bucket', m)
      BY <1>1, <2>5, <3>1, StageFollows
    <3> QED
      BY <2>6, <3>5, <3>6, <3>7 DEF Clean
  <2> QED
    BY <2>7, <2>8
<1> HIDE DEF r
<1> QED
  BY <1>1, <1>2, <1>3, <1>4, <1>5, OwnStep

LEMMA TailEntries ==
  ASSUME NEW s, IsSequence(s), s # << >>
  PROVE  /\ Head(s) = s[1] /\ 1 \in DOMAIN s
         /\ \A j \in DOMAIN Tail(s) : \E i \in DOMAIN s : Tail(s)[j] = s[i]
<1> DEFINE T == {s[i] : i \in DOMAIN s}
<1>1. s \in Seq(T) /\ DOMAIN s = 1 .. Len(s) /\ Len(s) \in Nat /\ Len(s) > 0
  BY DEF IsSequence
<1>2. Tail(s) \in Seq(T) /\ Head(s) = s[1]
  BY <1>1, HeadTailProperties
<1>3. \A j \in DOMAIN Tail(s) : Tail(s)[j] \in T
  BY <1>2
<1> QED
  BY <1>1, <1>2, <1>3

(* Uploading the detail of what is next.                                    *)
LEMMA DetailPut ==
  ASSUME PublishInv, CleanInv, NEW p \in Publishes, NEW l \in Lists, pub[p].stage = DetailOf[l],
         NEW id, id = IF pub[p].stage = "announcement" THEN Head(pub[p].todo).id ELSE Head(pub[p].todo),
         NEW body, PutDetail(p, <<pub[p].stage, id>>, body),
         pub[p].alone => body = FreshDetail(db, l, id), UNCHANGED db
  PROVE  CleanInv'
<1> DEFINE todo == pub[p].todo
           next == IF Len(todo) = 1 THEN NextStage[pub[p].stage] ELSE pub[p].stage
           r == [pub[p] EXCEPT !.draft = << >>, !.todo = Tail(todo), !.stage = next]
           key == <<pub[p].stage, id>>
<1>1. /\ uploadJSON(p, key, body) /\ pub' = [pub EXCEPT ![p] = r]
      /\ settled' = (pub[p].alone /\ pub'[p].stage = "done")
  BY DEF PutDetail, PublishInv, PublishOK
<1>2. r.draft = << >> /\ r.todo = Tail(todo) /\ r.stage = next /\ r.alone = pub[p].alone
  BY DEF PublishInv, PublishOK
<1>3. pub[p].stage \in Details /\ pub'[p] = r /\ Running(p)
  BY <1>1, StageFollows DEF PublishInv, Running
<1>4. IsSequence(r.draft) /\ Len(r.draft) = 0
  BY <1>2 DEF IsSequence
<1>5. IsSequence(todo) /\ todo # << >>
  BY <1>3 DEF PublishInv, PublishOK
<1> HIDE DEF r
<1>6. ASSUME pub[p].alone PROVE Clean(db, bucket', r)
  <2>1. Clean(db, bucket, pub[p]) /\ Underway(db, bucket, pub[p], l)
    BY <1>3, <1>6 DEF CleanInv, Clean
  <2>2. HoldsDetail(db, bucket', l, id)
    BY <1>1, <1>6, Uploaded DEF HoldsDetail
  <2>3. \A k : \A x : Holds(bucket, k, x) /\ k # key => Holds(bucket', k, x)
    BY <1>1, Uploaded
  <2>4. Holds(bucket', ListKey(l), Fresh(db, l))
    BY <2>1, <2>3, KeysApart DEF Underway
  <2>5. ASSUME NEW m \in Lists, m # l, Exact(db, bucket, m) PROVE Exact(db, bucket', m)
    <3>1. key # ListKey(m) /\ \A x : key # <<DetailOf[m], x>>
      BY <2>5, KeysApart
    <3> QED
      BY <1>1, <2>5, <3>1, ExactKept
  <2>6. \A m \in Complete(l) : Exact(db, bucket', m)
    BY <2>1, <2>5, StageFollows DEF Clean
  <2>7. DraftFresh(db, r)
    BY <1>2, <1>4 DEF DraftFresh
  <2>8. ASSUME NEW x, HoldsDetail(db, bucket, l, x) PROVE HoldsDetail(db, bucket', l, x)
    <3>1. CASE x = id
      BY <2>2, <3>1
    <3>2. CASE x # id
      BY <2>3, <2>8, <3>2 DEF HoldsDetail
    <3> QED
      BY <3>1, <3>2
  <2>9. ASSUME NEW i \in DOMAIN Fresh(db, l)
        PROVE  \/ HoldsDetail(db, bucket', l, Fresh(db, l)[i].id)
               \/ r.stage = pub[p].stage /\ Fresh(db, l)[i].id \in TodoIds(r)
    <3> DEFINE x == Fresh(db, l)[i].id
    <3>1. x \in TodoIds(pub[p]) \/ HoldsDetail(db, bucket, l, x)
      BY <2>1 DEF Underway
    <3>2. CASE HoldsDetail(db, bucket, l, x) \/ x = id
      BY <2>2, <2>8, <3>2
    <3>3. CASE x \in TodoIds(pub[p]) /\ x # id
      <4>1. r.stage = pub[p].stage /\ x \in TodoIds(r)
        BY <1>2, <1>5, <3>3, TodoLeft
      <4> QED
        BY <4>1
    <3> QED
      BY <3>1, <3>2, <3>3
  <2>10. CASE r.stage = pub[p].stage
    <3>1. \A j \in DOMAIN r.todo : r.todo[j] \in ToBuild(db, l)
      BY <1>2, <1>5, <2>1, TailEntries DEF Underway
    <3>2. Underway(db, bucket', r, l)
      BY <2>4, <2>9, <3>1 DEF Underway
    <3>3. \A m \in Lists : r.stage = DetailOf[m] => m = l
      BY <2>10, StageFollows
    <3>4. \A m \in Complete(r.stage) : Exact(db, bucket', m)
      BY <2>6, <2>10, StageFollows
    <3> QED
      BY <2>7, <3>2, <3>3, <3>4 DEF Clean
  <2>11. CASE r.stage # pub[p].stage
    <3>1. r.stage = NextStage[DetailOf[l]]
      BY <1>2, <2>11
    <3>2. Exact(db, bucket', l)
      BY <2>4, <2>9, <2>11 DEF Exact
    <3>3. \A m \in Complete(r.stage) : Exact(db, bucket', m)
      BY <2>6, <3>1, <3>2, StageFollows
    <3>4. \A m \in Lists : r.stage # DetailOf[m]
      BY <3>1, StageFollows
    <3> QED
      BY <2>7, <3>3, <3>4 DEF Clean
  <2> QED
    BY <2>10, <2>11
<1> QED
  BY <1>1, <1>2, <1>3, <1>4, <1>6, OwnStep

LEMMA Puts ==
  ASSUME Sound(db), Arranged(db), PublishInv, CleanInv, NEW p \in Publishes,
         PutCategory(p) \/ PutWorkbook(p) \/ PutAnnouncement(p)
  PROVE  CleanInv'
<1> DEFINE head == Head(pub[p].todo)
           draft == pub[p].draft
<1>1. pub[p].stage \in Details => Running(p) /\ head = pub[p].todo[1] /\ 1 \in DOMAIN pub[p].todo
  BY TailEntries DEF Running, PublishInv, PublishOK
<1>2. ASSUME NEW l \in Lists, pub[p].stage = DetailOf[l], pub[p].alone
      PROVE  DraftFresh(db, pub[p]) /\ head \in ToBuild(db, l)
  <2>1. Clean(db, bucket, pub[p])
    BY <1>1, <1>2, StageFollows DEF CleanInv
  <2>2. Underway(db, bucket, pub[p], l)
    BY <1>2, <2>1 DEF Clean
  <2> QED
    BY <1>1, <1>2, <2>1, <2>2, StageFollows DEF Clean, Underway
<1>3. ASSUME PutCategory(p) PROVE CleanInv'
  <2> DEFINE body == buildCategoryDetail(head, draft[1], draft[2])
  <2>1. pub[p].stage = "category" /\ Len(draft) = 2 /\ PutDetail(p, <<"category", head>>, body)
    BY <1>3 DEF PutCategory
  <2>2. "categories" \in Lists /\ DetailOf["categories"] = "category"
    BY DEF Lists, DetailOf
  <2>3. ASSUME pub[p].alone PROVE body = FreshDetail(db, "categories", head)
    <3>1. draft[1] \in GetCategoryTitle(db, head) /\ draft[2] = ListPublishedWorkbooksByCategory(db, head)
      BY <1>2, <2>1, <2>2, <2>3 DEF DraftFresh
    <3> QED
      BY <3>1, CategoryDetail
  <2>4. UNCHANGED db
    BY <2>1 DEF PutDetail
  <2> HIDE DEF body
  <2> QED
    BY <2>1, <2>2, <2>3, <2>4, DetailPut
<1>4. ASSUME PutWorkbook(p) PROVE CleanInv'
  <2> DEFINE body == buildWorkbookDetail(head, draft[1], draft[2], draft[3])
  <2>1. pub[p].stage = "workbook" /\ Len(draft) = 3 /\ PutDetail(p, <<"workbook", head>>, body)
    BY <1>4 DEF PutWorkbook
  <2>2. "workbooks" \in Lists /\ DetailOf["workbooks"] = "workbook"
    BY DEF Lists, DetailOf
  <2>3. ASSUME pub[p].alone PROVE body = FreshDetail(db, "workbooks", head)
    <3>1. DraftFresh(db, pub[p]) /\ head \in ToBuild(db, "workbooks")
      BY <1>2, <2>1, <2>2, <2>3
    <3>2. PICK w \in db.workbooks : w.published /\ w.id = head
      BY <3>1 DEF ToBuild
    <3>3. /\ draft[1] \in GetWorkbookTitle(db, head)
          /\ draft[2] = ListQuestionsWithChoicesByWorkbook(db, head)
          /\ draft[3] = GetImageURLsByQuestionIDs(db, {draft[2][n].id : n \in DOMAIN draft[2]})
      BY <2>1, <3>1 DEF DraftFresh
    <3> QED
      BY <3>2, <3>3, WorkbookDetail
  <2>4. UNCHANGED db
    BY <2>1 DEF PutDetail
  <2> HIDE DEF body
  <2> QED
    BY <2>1, <2>2, <2>3, <2>4, DetailPut
<1>5. ASSUME PutAnnouncement(p) PROVE CleanInv'
  <2>1. pub[p].stage = "announcement" /\ PutDetail(p, <<"announcement", head.id>>, head)
    BY <1>5 DEF PutAnnouncement
  <2>2. "announcements" \in Lists /\ DetailOf["announcements"] = "announcement"
    BY DEF Lists, DetailOf
  <2>3. ASSUME pub[p].alone PROVE head = FreshDetail(db, "announcements", head.id)
    <3>1. head \in db.announcements
      BY <1>2, <2>1, <2>2, <2>3 DEF ToBuild
    <3> QED
      BY <3>1, AnnouncementDetail
  <2>4. UNCHANGED db
    BY <2>1 DEF PutDetail
  <2> QED
    BY <2>1, <2>2, <2>3, <2>4, DetailPut
<1> QED
  BY <1>3, <1>4, <1>5

(* The invariant holds of every behaviour.                                  *)
LEMMA CleanStep ==
  ASSUME PublisherInv, Arranged(db), CleanInv, [Next]_vars
  PROVE  CleanInv'
<1>0. Sound(db) /\ PublishInv /\ DOMAIN pub = Publishes /\ \A o \in Publishes : PublishOK(pub[o])
  BY DEF PublisherInv, PublishInv
<1>1. CASE EditQuestion \/ EditWorkbook \/ EditCategory \/ EditAnnouncement \/ EditApp \/ AddImage
  <2>1. /\ pub' = [p \in Publishes |-> [pub[p] EXCEPT !.alone = FALSE]] /\ settled' = FALSE
    BY <1>1 DEF EditQuestion, EditWorkbook, EditCategory, EditAnnouncement, EditApp, AddImage, Edit
  <2>2. \A p \in Publishes : pub'[p].alone = FALSE /\ pub'[p].draft = pub[p].draft
    BY <1>0, <2>1 DEF PublishOK
  <2> QED
    BY <2>1, <2>2 DEF CleanInv
<1>2. ASSUME NEW p \in Publishes, PostPublish(p) PROVE CleanInv'
  <2> DEFINE alone == \A o \in Publishes : ~Running(o)
             r == [Idle EXCEPT !.stage = "categories", !.alone = alone]
  <2>1. /\ pub' = [o \in Publishes |-> IF o = p THEN r ELSE [pub[o] EXCEPT !.alone = FALSE]]
        /\ settled' = FALSE /\ UNCHANGED <<db, bucket>>
    BY <1>2 DEF PostPublish
  <2>2. r.stage = "categories" /\ r.draft = << >> /\ r.alone = alone
    BY DEF Idle
  <2> HIDE DEF alone, r
  <2>3. pub'[p] = r
    BY <2>1
  <2>4. ASSUME NEW o \in Publishes, o # p
        PROVE  pub'[o].alone = FALSE /\ pub'[o].draft = pub[o].draft /\ pub'[o].stage = pub[o].stage
    BY <1>0, <2>1, <2>4 DEF PublishOK
  <2>5. IsSequence(r.draft)
    BY <2>2 DEF IsSequence
  <2>6. Clean(db, bucket, r)
    <3>1. Complete("categories") = {} /\ \A l \in Lists : "categories" # DetailOf[l]
      BY DEF Complete, Lists, DetailOf
    <3>2. DraftFresh(db, r)
      BY <2>2 DEF DraftFresh
    <3> QED
      BY <2>2, <3>1, <3>2 DEF Clean
  <2>7. alone => \A o \in Publishes \ {p} : ~Running(o)'
    BY <2>4 DEF alone, Running
  <2> QED
    BY <2>1, <2>2, <2>3, <2>4, <2>5, <2>6, <2>7 DEF CleanInv
<1>3. ASSUME NEW p \in Publishes, Fail(p) PROVE CleanInv'
  <2> DEFINE r == [Idle EXCEPT !.stage = "failed"]
  <2>1. Running(p) /\ pub' = [pub EXCEPT ![p] = r] /\ UNCHANGED <<db, bucket, settled>>
    BY <1>3 DEF Fail
  <2>2. r.stage = "failed" /\ r.draft = << >> /\ r.alone = FALSE
    BY DEF Idle
  <2> HIDE DEF r
  <2>3. IsSequence(r.draft)
    BY <2>2 DEF IsSequence
  <2> QED
    BY <1>0, <2>1, <2>2, <2>3, OwnStep
<1>4. ASSUME NEW p \in Publishes, PublishStep(p) PROVE CleanInv'
  BY <1>0, <1>3, <1>4, Reads, ListPut, Puts DEF PublishStep
<1>5. CASE UNCHANGED vars
  <2>1. UNCHANGED <<db, bucket, pub, settled>>
    BY <1>5 DEF vars
  <2> QED
    BY <2>1 DEF CleanInv, Running
<1> QED
  BY <1>1, <1>2, <1>4, <1>5 DEF Next

(* A database whose lists fit on the one page a client asks for.            *)
ListsOnOnePage ==
  /\ Cardinality(db.workbooks) <= MaxLimit /\ Cardinality(db.categories) <= MaxLimit
  /\ Cardinality(db.announcements) <= Announced
LEMMA BucketIsExact ==
  ASSUME Sound(db), Arranged(db), ListsOnOnePage, \A l \in Lists : Exact(db, bucket, l)
  PROVE  CleanPublishIsExact
<1>1. /\ IsFiniteSet(db.categories) /\ IsFiniteSet(db.workbooks)
      /\ SerialOK(db.categories, db.seq.categories, TRUE) /\ SerialOK(db.workbooks, db.seq.workbooks, TRUE)
  BY DEF Sound, Intact, SerialsOK, SerialOK, Serial
<1>2. /\ "categories" \in Lists /\ "workbooks" \in Lists /\ "announcements" \in Lists
      /\ DetailOf["categories"] = "category" /\ DetailOf["workbooks"] = "workbook"
      /\ DetailOf["announcements"] = "announcement"
  BY DEF Lists, DetailOf
<1>3. \A l \in Lists : /\ Held(ListKey(l)) = Fresh(db, l)
                       /\ \A i \in DOMAIN Fresh(db, l) :
                            Held(<<DetailOf[l], Fresh(db, l)[i].id>>) = FreshDetail(db, l, Fresh(db, l)[i].id)
  BY DEF Exact, Holds, HoldsDetail, Held
<1>4. validatePagination(MaxLimit, 0)
  BY DEF validatePagination, MaxLimit
<1>5. Held(ListKey("workbooks")) = ApiGetWorkbooks(db, MaxLimit, 0).body.rows
  <2> DEFINE W == {w \in db.workbooks : w.published}
             list == Listed(db, W)
  <2>1. Fresh(db, "workbooks") = list
    BY DEF Fresh, buildWorkbooks, ListAllWorkbooks
  <2>2. ApiGetWorkbooks(db, MaxLimit, 0).body.rows = Page(list, MaxLimit, 0)
    BY <1>4 DEF ApiGetWorkbooks, Paged, Found, ListPublishedWorkbooks
  <2>3. IsSequence(list)
    BY <2>1, ListsAreSequences DEF Fresh
  <2>4. Len(list) <= MaxLimit
    <3>1. SerialOK(W, db.seq.workbooks, TRUE)
      BY <1>1, SerialFewer
    <3>2. Listing(ById(W), W)
      BY <3>1, RowsById
    <3>3. DOMAIN list = 1 .. Cardinality(W) /\ Cardinality(W) \in Nat
      BY <3>2 DEF Listing, Listed
    <3>4. W \subseteq db.workbooks
      OBVIOUS
    <3> HIDE DEF W
    <3>5. Cardinality(W) <= Cardinality(db.workbooks) /\ Cardinality(db.workbooks) \in Nat
      BY <1>1, <3>4, FS_Subset, FS_CardinalityType
    <3> HIDE DEF list
    <3>6. Len(list) = Cardinality(W)
      BY <2>3, <3>3 DEF IsSequence
    <3> QED
      BY <3>3, <3>5, <3>6 DEF ListsOnOnePage, MaxLimit
  <2> HIDE DEF list
  <2>5. Page(list, MaxLimit, 0) = list
    BY <2>3, <2>4, WholePage DEF IsSequence, MaxLimit
  <2> QED
    BY <1>2, <1>3, <2>1, <2>2, <2>5
<1>6. Held(ListKey("announcements")) = ApiGetAnnouncements(db)
  BY <1>2, <1>3 DEF Fresh, buildAnnouncements, ApiGetAnnouncements
<1>7. Ids(Held(ListKey("categories"))) = Ids(ApiGetCategories(db, MaxLimit, 0).body.rows)
  <2> DEFINE rows == ById(db.categories)
             list == Counted(rows, db.workbooks)
  <2>1. Listing(rows, db.categories)
    BY <1>1, RowsById
  <2> HIDE DEF rows
  <2>2. DOMAIN list = DOMAIN rows /\ \A i \in DOMAIN list : list[i].id = rows[i].id
    BY DEF Counted
  <2>3. list = [i \in DOMAIN list |-> list[i]]
    BY DEF Counted
  <2> HIDE DEF list
  <2>4. DOMAIN list = 1 .. Cardinality(db.categories) /\ Cardinality(db.categories) \in Nat
    BY <2>1, <2>2 DEF Listing
  <2>5. IsSequence(list) /\ DOMAIN list = 1 .. Cardinality(db.categories)
    BY <2>3, <2>4, FunctionIsSequence
  <2>6. Len(list) <= MaxLimit
    <3>1. Len(list) = Cardinality(db.categories)
      BY <2>4, <2>5 DEF IsSequence
    <3> QED
      BY <3>1 DEF ListsOnOnePage
  <2>7. Page(list, MaxLimit, 0) = list
    BY <2>5, <2>6, WholePage DEF IsSequence, MaxLimit
  <2>8. ApiGetCategories(db, MaxLimit, 0).body.rows = Page(list, MaxLimit, 0)
    BY <1>4 DEF ApiGetCategories, Paged, Found, ListCategories, list, rows
  <2>9. /\ DOMAIN Fresh(db, "categories") = DOMAIN rows
        /\ \A i \in DOMAIN rows : Fresh(db, "categories")[i].id = rows[i].id
    BY CategoryRows DEF rows
  <2> QED
    BY <1>2, <1>3, <2>2, <2>7, <2>8, <2>9 DEF Ids
<1>8. ASSUME NEW i \in DOMAIN Held(ListKey("categories"))
      PROVE  LET c == Held(ListKey("categories"))[i]
                 shown == Held(<<"category", c.id>>)
             IN  /\ shown = ApiGetCategory(db, c.id).body
                 /\ c.title = shown.title /\ c.workbookCount = Len(shown.workbooks)
  <2> DEFINE c == Held(ListKey("categories"))[i]
             W(id) == {w \in db.workbooks : w.category = id /\ w.published}
  <2>1. c = Fresh(db, "categories")[i] /\ i \in DOMAIN Fresh(db, "categories")
    BY <1>2, <1>3
  <2>2. PICK row \in db.categories :
          /\ c.id = row.id /\ c.title = row.title
          /\ c.workbookCount = Cardinality({w \in db.workbooks : w.published /\ w.category = row.id})
    BY <2>1, CategoryRows
  <2> HIDE DEF c
  <2>3. Held(<<"category", c.id>>) = ApiGetCategory(db, c.id).body
    BY <1>2, <1>3, <2>1 DEF FreshDetail
  <2>4. CategoryExists(db, row.id)
    BY DEF CategoryExists
  <2>5. ApiGetCategory(db, row.id)
          = Found([id |-> row.id, title |-> (CHOOSE x \in GetCategoryByID(db, row.id) : TRUE).title,
                   workbooks |-> ListPublishedWorkbooksByCategory(db, row.id)])
    BY <2>4, CategoriesOpen
  <2>6. GetCategoryByID(db, row.id) = {row}
    BY <1>1 DEF GetCategoryByID, SerialOK, Keyed
  <2>7. (CHOOSE x \in GetCategoryByID(db, row.id) : TRUE).title = row.title
    BY <2>6
  <2>8. Len(Listed(db, W(row.id))) = Cardinality(W(row.id))
    <3> DEFINE V == W(row.id)
    <3>1. SerialOK(V, db.seq.workbooks, TRUE)
      BY <1>1, SerialFewer
    <3>2. Listing(ById(V), V)
      BY <3>1, RowsById
    <3>3. DOMAIN Listed(db, V) = 1 .. Cardinality(V) /\ Cardinality(V) \in Nat
      BY <3>2 DEF Listing, Listed
    <3> HIDE DEF V
    <3>4. Len(Listed(db, V)) = Cardinality(V)
      BY <3>3
    <3> QED
      BY <3>4 DEF V
  <2>9. W(row.id) = {w \in db.workbooks : w.published /\ w.category = row.id}
    OBVIOUS
  <2>10. Len(ListPublishedWorkbooksByCategory(db, row.id)) = c.workbookCount
    BY <2>2, <2>8, <2>9 DEF ListPublishedWorkbooksByCategory
  <2>11. ApiGetCategory(db, c.id).body.title = c.title
         /\ Len(ApiGetCategory(db, c.id).body.workbooks) = c.workbookCount
    BY <2>2, <2>5, <2>7, <2>10 DEF Found
  <2> QED
    BY <2>3, <2>11 DEF c
<1>9. ASSUME NEW w \in db.workbooks, w.published
      PROVE  Held(<<"workbook", w.id>>) = ApiGetWorkbook(db, w.id).body
  <2>1. PICK i \in DOMAIN Fresh(db, "workbooks") : Fresh(db, "workbooks")[i].id = w.id
    BY <1>9, WorkbookRows
  <2> QED
    BY <1>2, <1>3, <2>1 DEF FreshDetail
<1>10. ASSUME NEW a \in db.announcements
       PROVE  Held(<<"announcement", a.id>>) = ApiGetAnnouncement(db, a.id).body
  <2>1. PICK i \in DOMAIN Fresh(db, "announcements") : Fresh(db, "announcements")[i] = a
    BY AnnouncementRows DEF ListsOnOnePage
  <2> QED
    BY <1>2, <1>3, <2>1 DEF FreshDetail
<1> QED
  BY <1>5, <1>6, <1>7, <1>8, <1>9, <1>10 DEF CleanPublishIsExact

(* CleanPublishIsExact, for as long as the lists fit on the one page that   *)
(* it compares: after a publish that ran alone and succeeded, and until     *)
(* anything else happens, the bucket answers what the content API answers   *)
(* from the database.                                                       *)
THEOREM CleanPublishesAreExact ==
  Spec => [](ListsOnOnePage => CleanPublishIsExact)
<1>1. Init => Arranged(db) /\ CleanInv
  <2>1. Init => /\ \A p \in Publishes : pub[p] = Idle
                /\ settled = FALSE /\ Arranged(db)
    BY ArrangedContent DEF Init
  <2>2. Idle.alone = FALSE /\ IsSequence(Idle.draft)
    BY DEF Idle, IsSequence
  <2> QED
    BY <2>1, <2>2 DEF CleanInv
<1>2. PublisherInv /\ Arranged(db) /\ CleanInv /\ [Next]_vars => (Arranged(db) /\ CleanInv)'
  <2>1. PublisherInv => Sound(db) /\ spent \in Nat
    BY PublisherAssumption DEF PublisherInv
  <2> QED
    BY <2>1, ArrangedStep, CleanStep
<1>3. PublisherInv /\ Arranged(db) /\ CleanInv => (ListsOnOnePage => CleanPublishIsExact)
  <2>1. ~settled => CleanPublishIsExact
    BY DEF CleanPublishIsExact
  <2> QED
    BY <2>1, BucketIsExact DEF PublisherInv, CleanInv
<1> QED
  BY <1>1, <1>2, <1>3, PublisherInvariant, PTL DEF Spec
=============================================================================
