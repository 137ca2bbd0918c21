----------------------------- MODULE Publisher -----------------------------
(***************************************************************************)
(* The administration API edits the content database while publishes copy  *)
(* it, object by object, to the bucket behind content.rikako.org           *)
(* (internal/admin/publisher.go).  A publish reads each object with one to *)
(* three queries of its own and uploads it before it builds the next;      *)
(* nothing spans the queries, nothing is ever deleted from the bucket, and *)
(* two publishes may overlap: the workflow that asks for one gives up on a *)
(* lost answer and asks again while the first still runs.                  *)
(***************************************************************************)
EXTENDS Content

CONSTANTS Publishes,        \* publish requests
          AnnouncementBodies, Titles, Slugs,
          Uploads,          \* paths of uploaded images (UUIDs)
          Budget,           \* bound: edits and publishes together
          MaxFailures       \* bound: publishes that a query or an upload fails

VARIABLES bucket,           \* key -> [by |-> the publish that wrote it, body]
          pub,              \* publish -> where it is
          spent, failures,
          settled           \* history: the last thing that happened was a publish
                            \* that ran alone and succeeded

vars == <<db, bucket, pub, spent, failures, settled>>

ASSUME PublisherAssumption ==
  /\ \A b \in AnnouncementBodies : b.publishedAt \in Nat
  /\ Budget \in Nat /\ MaxFailures \in Nat
(* The schema does not demand it; whatever wrote the first rows does.       *)
ASSUME ArrangedContent == Arranged(InitDB)

(* A publish: the stage it is in, what it still has to build there, the     *)
(* parts of the next object it has read, and (history) whether it has been  *)
(* alone with the database and the bucket since it began.                   *)
Idle == [stage |-> "idle", todo |-> << >>, draft |-> << >>, alone |-> FALSE]
Lists == {"categories", "workbooks", "announcements"}
Details == {"category", "workbook", "announcement"}
DetailOf == [categories |-> "category", workbooks |-> "workbook", announcements |-> "announcement"]
NextStage == [category |-> "workbooks", workbook |-> "announcements", announcement |-> "done"]
Running(p) == pub[p].stage \in Lists \cup Details
ListKey(stage) == <<stage, 0>>

TypeOK ==
  /\ DOMAIN pub = Publishes
  /\ \A p \in Publishes : pub[p].stage \in Lists \cup Details \cup {"idle", "done", "failed"}
  /\ \A k \in DOMAIN bucket : k[1] \in Lists \cup Details /\ bucket[k].by \in Publishes
  /\ TablesOK(db) /\ SchemaOK(db)
  /\ spent \in 0 .. Budget /\ failures \in 0 .. MaxFailures /\ settled \in BOOLEAN

Init ==
  /\ db = InitDB
  /\ bucket = << >>
  /\ pub = [p \in Publishes |-> Idle]
  /\ spent = 0 /\ failures = 0 /\ settled = FALSE

-----------------------------------------------------------------------------
(* Administration requests, one committed transaction each.                 *)
Edit(after) ==
  /\ spent < Budget
  /\ db' = after
  /\ spent' = spent + 1
  /\ pub' = [p \in Publishes |-> [pub[p] EXCEPT !.alone = FALSE]]
  /\ settled' = FALSE
  /\ UNCHANGED <<bucket, failures>>

Ident(T) == {r.id : r \in T}
EditQuestion ==
  \/ \E b \in QuestionBodies : Edit(AdminCreateQuestion(db, b))
  \/ \E q \in db.questions, b \in QuestionBodies : Edit(AdminUpdateQuestion(db, q, b))
  \/ \E q \in db.questions : Edit(AdminDeleteQuestion(db, q))
EditWorkbook ==
  \/ \E b \in WorkbookBodies : Edit(AdminCreateWorkbook(db, b))
  \/ \E id \in Ident(db.workbooks), b \in WorkbookBodies : Edit(AdminUpdateWorkbook(db, id, b))
  \/ \E id \in Ident(db.workbooks) : Edit(AdminDeleteWorkbook(db, id))
EditCategory ==
  \/ \E t \in Titles : Edit(AdminCreateCategory(db, t))
  \/ \E id \in Ident(db.categories), t \in Titles : Edit(AdminUpdateCategory(db, id, t))
  \/ \E id \in Ident(db.categories) : Edit(AdminDeleteCategory(db, id))
EditAnnouncement ==
  \/ \E b \in AnnouncementBodies : Edit(AdminCreateAnnouncement(db, b, spent + 1))
  \/ \E id \in Ident(db.announcements), b \in AnnouncementBodies :
       Edit(AdminUpdateAnnouncement(db, id, b))
  \/ \E id \in Ident(db.announcements) : Edit(AdminDeleteAnnouncement(db, id))
EditApp ==
  \/ \E s \in Slugs : Edit(AdminCreateApp(db, s))
  \/ \E id \in Ident(db.apps), s \in Slugs : Edit(AdminUpdateApp(db, id, s))
  \/ \E id \in Ident(db.apps) : Edit(AdminDeleteApp(db, id))
AddImage ==
  /\ NewPaths(db, Uploads) # {}
  /\ Edit(CreatePresignedUrl(db, CHOOSE path \in NewPaths(db, Uploads) : TRUE))

-----------------------------------------------------------------------------
(* A publish.                                                               *)
PostPublish(p) ==
  /\ pub[p].stage = "idle"
  /\ spent < Budget
  /\ spent' = spent + 1
  /\ LET alone == \A o \in Publishes : ~Running(o)
     IN  pub' = [o \in Publishes |->
                   IF o = p THEN [Idle EXCEPT !.stage = "categories", !.alone = alone]
                   ELSE [pub[o] EXCEPT !.alone = FALSE]]
  /\ settled' = FALSE
  /\ UNCHANGED <<db, bucket, failures>>

Read(p, part) ==
  /\ pub' = [pub EXCEPT ![p].draft = Append(@, part)]
  /\ UNCHANGED <<db, bucket, spent, failures, settled>>

BuildList(p) ==
  /\ pub[p].stage \in Lists /\ pub[p].draft = << >>
  /\ Read(p, CASE pub[p].stage = "categories"    -> buildCategories(db)
               [] pub[p].stage = "workbooks"     -> buildWorkbooks(db)
               [] pub[p].stage = "announcements" -> buildAnnouncements(db))

ReadCategoryTitle(p) ==
  /\ pub[p].stage = "category" /\ Len(pub[p].draft) = 0
  /\ \E title \in GetCategoryTitle(db, Head(pub[p].todo)) : Read(p, title)
ReadCategoryWorkbooks(p) ==
  /\ pub[p].stage = "category" /\ Len(pub[p].draft) = 1
  /\ Read(p, ListPublishedWorkbooksByCategory(db, Head(pub[p].todo)))
\* Fault: a workbook deleted since it was listed is skipped.
SkipMissingWorkbook(p) ==
  /\ pub[p].stage = "workbook" /\ Len(pub[p].draft) = 0
  /\ \/ \E wb \in GetWorkbookTitle(db, Head(pub[p].todo)) : Read(p, wb)
     \/ /\ GetWorkbookTitle(db, Head(pub[p].todo)) = {}
        /\ pub' = [pub EXCEPT ![p].todo = Tail(@),
                              ![p].stage = IF Len(pub[p].todo) = 1 THEN NextStage[@] ELSE @]
        /\ UNCHANGED <<db, bucket, spent, failures, settled>>

ReadWorkbookTitle(p) ==
  /\ pub[p].stage = "workbook" /\ Len(pub[p].draft) = 0
  /\ \E wb \in GetWorkbookTitle(db, Head(pub[p].todo)) : Read(p, wb)
ReadWorkbookQuestions(p) ==
  /\ pub[p].stage = "workbook" /\ Len(pub[p].draft) = 1
  /\ Read(p, ListQuestionsWithChoicesByWorkbook(db, Head(pub[p].todo)))
ReadWorkbookImages(p) ==
  /\ pub[p].stage = "workbook" /\ Len(pub[p].draft) = 2
  /\ LET rows == pub[p].draft[2]
     IN  Read(p, GetImageURLsByQuestionIDs(db, {rows[n].id : n \in DOMAIN rows}))

uploadJSON(p, key, body) ==
  bucket' = [k \in DOMAIN bucket \cup {key} |->
               IF k = key THEN [by |-> p, body |-> body] ELSE bucket[k]]

PutList(p) ==
  /\ pub[p].stage \in Lists /\ pub[p].draft # << >>
  /\ LET list == pub[p].draft[1]
         stage == DetailOf[pub[p].stage]
     IN  /\ uploadJSON(p, ListKey(pub[p].stage), list)
         /\ pub' = [pub EXCEPT ![p].draft = << >>,
                               ![p].todo = IF stage = "announcement" THEN list ELSE Ids(list),
                               ![p].stage = IF list = << >> THEN NextStage[stage] ELSE stage]
         /\ settled' = (pub[p].alone /\ pub'[p].stage = "done")
  /\ UNCHANGED <<db, spent, failures>>

(* The last announcement ends the publish with 200.                         *)
PutDetail(p, key, body) ==
  /\ uploadJSON(p, key, body)
  /\ pub' = [pub EXCEPT ![p].draft = << >>, ![p].todo = Tail(@),
                        ![p].stage = IF Len(pub[p].todo) = 1 THEN NextStage[@] ELSE @]
  /\ settled' = (pub[p].alone /\ pub'[p].stage = "done")
  /\ UNCHANGED <<db, spent, failures>>
PutCategory(p) ==
  /\ pub[p].stage = "category" /\ Len(pub[p].draft) = 2
  /\ LET id == Head(pub[p].todo)
     IN  PutDetail(p, <<"category", id>>,
                   buildCategoryDetail(id, pub[p].draft[1], pub[p].draft[2]))
PutWorkbook(p) ==
  /\ pub[p].stage = "workbook" /\ Len(pub[p].draft) = 3
  /\ LET id == Head(pub[p].todo)
     IN  PutDetail(p, <<"workbook", id>>,
           buildWorkbookDetail(id, pub[p].draft[1], pub[p].draft[2], pub[p].draft[3]))
PutAnnouncement(p) ==
  /\ pub[p].stage = "announcement"
  /\ PutDetail(p, <<"announcement", Head(pub[p].todo).id>>, Head(pub[p].todo))

(* sql.ErrNoRows for a listed row that has been deleted since, or a failing *)
(* query or upload: 500, and what was uploaded stays.                       *)
Gone(p) ==
  /\ pub[p].draft = << >>
  /\ \/ pub[p].stage = "category" /\ GetCategoryTitle(db, Head(pub[p].todo)) = {}
     \/ pub[p].stage = "workbook" /\ GetWorkbookTitle(db, Head(pub[p].todo)) = {}
Fail(p) ==
  /\ Running(p)
  /\ \/ Gone(p) /\ UNCHANGED failures
     \/ failures < MaxFailures /\ failures' = failures + 1
  /\ pub' = [pub EXCEPT ![p] = [Idle EXCEPT !.stage = "failed"]]
  /\ UNCHANGED <<db, bucket, spent, settled>>

PublishStep(p) ==
  \/ BuildList(p) \/ PutList(p)
  \/ ReadCategoryTitle(p) \/ ReadCategoryWorkbooks(p) \/ PutCategory(p)
  \/ ReadWorkbookTitle(p) \/ ReadWorkbookQuestions(p) \/ ReadWorkbookImages(p) \/ PutWorkbook(p)
  \/ PutAnnouncement(p) \/ Fail(p)

Next ==
  \/ EditQuestion \/ EditWorkbook \/ EditCategory \/ EditAnnouncement \/ EditApp \/ AddImage
  \/ \E p \in Publishes : PostPublish(p) \/ PublishStep(p)

Spec == Init /\ [][Next]_vars

-----------------------------------------------------------------------------
(* Once a publish that was alone from its first query to its last upload    *)
(* has succeeded, and until anything else happens, the bucket answers what  *)
(* the clients fetch from it (lists, and details of what is listed) as the  *)
(* content API answers from the database.  The two are built by different   *)
(* queries and different code; only the count of a category differs, which  *)
(* the publisher takes over published workbooks.                            *)
Held(key) == bucket[key].body
CleanPublishIsExact ==
  settled =>
    /\ Held(ListKey("workbooks")) = ApiGetWorkbooks(db, MaxLimit, 0).body.rows
    /\ Held(ListKey("announcements")) = ApiGetAnnouncements(db)
    /\ Ids(Held(ListKey("categories"))) = Ids(ApiGetCategories(db, MaxLimit, 0).body.rows)
    /\ \A c \in {Held(ListKey("categories"))[i] : i \in DOMAIN Held(ListKey("categories"))} :
         LET shown == Held(<<"category", c.id>>)
         IN  /\ shown = ApiGetCategory(db, c.id).body
             /\ c.title = shown.title /\ c.workbookCount = Len(shown.workbooks)
    /\ \A w \in db.workbooks :
         w.published => Held(<<"workbook", w.id>>) = ApiGetWorkbook(db, w.id).body
    /\ \A a \in db.announcements :
         Held(<<"announcement", a.id>>) = ApiGetAnnouncement(db, a.id).body

(* A list written by a publish that succeeded names only objects that are   *)
(* in the bucket, whatever other publishes and edits ran beside it.         *)
SuccessfulListsResolve ==
  \A stage \in Lists :
    (ListKey(stage) \in DOMAIN bucket /\ pub[bucket[ListKey(stage)].by].stage = "done") =>
       \A i \in DOMAIN Held(ListKey(stage)) :
          <<DetailOf[stage], Held(ListKey(stage))[i].id>> \in DOMAIN bucket

(* The properties of the database alone are evaluated before the first      *)
(* publish: publishing never writes it.                                     *)
NoPublishYet == \A p \in Publishes : pub[p].stage = "idle"

(* The listing, the single-question, the workbook and the administration    *)
(* endpoints assemble a question by different queries and loops; after any  *)
(* edits they show the same choices, images and key.                        *)
QuestionsReadAlike ==
  /\ \A q \in db.questions :
       LET one == ApiGetQuestion(db, q).body
           admin == AdminGetQuestion(db, q).body
       IN  /\ \E i \in DOMAIN ApiGetQuestions(db, MaxLimit, 0).body.rows :
                ApiGetQuestions(db, MaxLimit, 0).body.rows[i] = one
           /\ \E i \in DOMAIN AdminGetQuestions(db, MaxLimit, 0).body.rows :
                AdminGetQuestions(db, MaxLimit, 0).body.rows[i] = admin
           /\ one.choices = [i \in DOMAIN admin.choices |-> admin.choices[i].text]
           /\ one.images = admin.images
           /\ admin.choices[one.correct + 1].correct
  /\ \A w \in db.workbooks :
       LET admin == AdminGetWorkbook(db, w.id).body.questions
       IN  /\ \A i \in DOMAIN admin : admin[i] = AdminGetQuestion(db, admin[i].id).body
           /\ w.published =>
                LET shown == ApiGetWorkbook(db, w.id).body.questions
                IN  /\ Ids(shown) = Ids(admin)
                    /\ \A i \in DOMAIN shown : shown[i] = ApiGetQuestion(db, shown[i].id).body

(* What a client can reach by following the content API's own answers opens *)
(* and belongs together: an app opens by its slug as itself and lists       *)
(* categories that open, a category lists published workbooks of its own    *)
(* that open, and an unpublished workbook does not.                         *)
ListedThingsOpen ==
  /\ \A a \in db.apps :
       LET got == ApiGetApp(db, a.slug)
       IN  /\ got.status = 200 /\ Found(got.body.app) = AdminGetApp(db, a.id)
           /\ \A i \in DOMAIN got.body.categories :
                ApiGetCategory(db, got.body.categories[i].id).status = 200
  /\ \A c \in db.categories :
       LET shown == ApiGetCategory(db, c.id).body.workbooks
       IN  \A i \in DOMAIN shown : /\ ApiGetWorkbook(db, shown[i].id).status = 200
                                   /\ ApiGetWorkbook(db, shown[i].id).body.category = c.id
  /\ \A w \in db.workbooks :
       /\ ApiGetWorkbook(db, w.id).status = 200 <=> w.published
       /\ w.category # NoCategory =>
            \E i \in DOMAIN AdminGetCategory(db, w.category).body.workbooks :
               AdminGetCategory(db, w.category).body.workbooks[i].id = w.id

(* After any edits, and before any publish, all that the endpoints of the   *)
(* content API and of the administration say of the content fits together.  *)
EndpointsAgree == NoPublishYet => QuestionsReadAlike /\ ListedThingsOpen

(* "The published content includes only published workbooks"                *)
(* (publisher.go, buildCategoryDetail): after a publish that ran alone and  *)
(* succeeded, the bucket serves no workbook that is not published.  The     *)
(* publisher overwrites and never deletes.                                  *)
OnlyPublishedServed ==
  settled => \A k \in DOMAIN bucket :
               k[1] = "workbook" => \E w \in db.workbooks : w.id = k[2] /\ w.published

=============================================================================
