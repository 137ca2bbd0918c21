--------------------------- MODULE SeedingProofs ---------------------------
(***************************************************************************)
(* Proofs about the tools that seed the database: what the loops of        *)
(* datasync and of the importer leave in it, for every data directory, and *)
(* what follows for their runs beside the administration.                  *)
(***************************************************************************)
EXTENDS Seeding, ContentLemmas

(* A number that can be reached from 0 step by step.                        *)
LEMMA Climb ==
  ASSUME NEW n \in Nat, NEW G, 0 \in G, \A i \in 1 .. n : i - 1 \in G => i \in G
  PROVE  \A i \in 0 .. n : i \in G
<1> DEFINE T == {i \in 0 .. n : i \notin G}
<1>1. SUFFICES ASSUME T # {} PROVE FALSE
  OBVIOUS
<1>2. T \subseteq Nat
  OBVIOUS
<1>3. PICK x \in T : \A y \in T : ~(<<y, x>> \in OpToRel(<, Nat))
  <2> HIDE DEF T
  <2> QED
    BY <1>1, <1>2, WFMin, NatLessThanWellFounded
<1>4. \A y \in T : ~(y < x)
  BY <1>2, <1>3 DEF OpToRel
<1>5. x \in 1 .. n /\ x - 1 \in 0 .. n /\ x - 1 < x
  <2>1. x \in 0 .. n /\ x \notin G
    OBVIOUS
  <2>2. x # 0
    BY <2>1
  <2> QED
    BY <2>1, <2>2
<1>6. x - 1 \in G
  BY <1>4, <1>5
<1> QED
  BY <1>3, <1>5, <1>6

-----------------------------------------------------------------------------
(* The statements that loops repeat, for a data directory y; a is the other *)
(* thing a statement depends on, x the row or index it is about.            *)
Statement(op, y, a, b, x) ==
  CASE op = "PutImage"          -> PutImage(y, b, x)
    [] op = "DropImage"         -> DropImage(b, x)
    [] op = "DeleteQuestion"    -> DeleteQuestion(b, x)
    [] op = "AddQuestion"       -> AddQuestion(y, b, x)
    [] op = "ChangeQuestion"    -> ChangeQuestion(y, b, x)
    [] op = "SyncCategory"      -> SyncCategory(y, a, b, x)
    [] op = "DeleteWorkbook"    -> DeleteWorkbook(b, x)
    [] op = "AddWorkbook"       -> AddWorkbook(y, a, b, x)
    [] op = "ChangeWorkbook"    -> ChangeWorkbook(y, a, b, x)
    [] op = "ImportImage"       -> ImportImage(b, x, y.images[x])
    [] op = "ImportNthChoice"   -> ImportNthChoice(y, a, b, x)
    [] op = "ImportNthImage"    -> ImportNthImage(y, a, b, x)
    [] op = "ImportNthQuestion" -> ImportNthQuestion(y, a, b, x)
    [] op = "ImportNthWorkbook" -> ImportNthWorkbook(y, a, b, x)

(* A loop over xs that begins with b and ends with r, and the databases on  *)
(* the way.                                                                 *)
Way(op, y, a, xs, n, b, f) ==
  f = [i \in 0 .. n |-> IF i = 0 THEN b ELSE Statement(op, y, a, f[i - 1], xs[i])]
LEMMA WayExists ==
  ASSUME NEW op, NEW y, NEW a, NEW xs, NEW n \in Nat, NEW b
  PROVE  \E f : Way(op, y, a, xs, n, b, f)
<1> DEFINE G == {m \in 0 .. n : \E f : Way(op, y, a, xs, m, b, f)}
<1>1. 0 \in G
  <2> DEFINE f == [i \in 0 .. 0 |-> b]
  <2>1. Way(op, y, a, xs, 0, b, f)
    BY DEF Way
  <2> QED
    BY <2>1
<1>2. ASSUME NEW m \in 1 .. n, m - 1 \in G PROVE m \in G
  <2>1. PICK f : Way(op, y, a, xs, m - 1, b, f)
    BY <1>2
  <2> DEFINE g == [i \in 0 .. m |-> IF i = m THEN Statement(op, y, a, f[m - 1], xs[m]) ELSE f[i]]
  <2>2. /\ f = [i \in 0 .. m - 1 |-> IF i = 0 THEN b ELSE Statement(op, y, a, f[i - 1], xs[i])]
        /\ m \in Nat /\ m # 0 /\ m - 1 \in 0 .. m - 1
    BY <2>1 DEF Way
  <2>3. \A i \in 0 .. m : g[i] = IF i = 0 THEN b ELSE Statement(op, y, a, g[i - 1], xs[i])
    <3> SUFFICES ASSUME NEW i \in 0 .. m
                 PROVE  g[i] = IF i = 0 THEN b ELSE Statement(op, y, a, g[i - 1], xs[i])
      OBVIOUS
    <3>1. CASE i = m
      <4>1. g[m] = Statement(op, y, a, f[m - 1], xs[m])
        BY <2>2
      <4>2. g[m - 1] = f[m - 1]
        BY <2>2
      <4> QED
        BY <2>2, <3>1, <4>1, <4>2
    <3>2. CASE i # m
      <4>1. i \in 0 .. m - 1 /\ g[i] = f[i] /\ (i # 0 => i - 1 \in 0 .. m /\ i - 1 # m)
        BY <2>2, <3>2
      <4>2. i # 0 => g[i - 1] = f[i - 1]
        BY <4>1
      <4>3. f[i] = IF i = 0 THEN b ELSE Statement(op, y, a, f[i - 1], xs[i])
        BY <2>2, <4>1
      <4> QED
        BY <4>1, <4>2, <4>3
    <3> QED
      BY <3>1, <3>2
  <2>4. Way(op, y, a, xs, m, b, g)
    <3>1. g = [i \in 0 .. m |-> g[i]]
      OBVIOUS
    <3> HIDE DEF g
    <3>2. g = [i \in 0 .. m |-> IF i = 0 THEN b ELSE Statement(op, y, a, g[i - 1], xs[i])]
      BY <2>3, <3>1
    <3> QED
      BY <3>2 DEF Way
  <2> QED
    BY <2>4
<1>3. \A m \in 0 .. n : m \in G
  <2> HIDE DEF G
  <2> QED
    BY <1>1, <1>2, Climb
<1> QED
  BY <1>3

Loop(op, y, a, xs, n, b, r) ==
  \E f : f[0] = b /\ f[n] = r /\ \A i \in 1 .. n : f[i] = Statement(op, y, a, f[i - 1], xs[i])
LEMMA WayIsLoop ==
  ASSUME NEW op, NEW y, NEW a, NEW xs, NEW n \in Nat, NEW b, NEW f, Way(op, y, a, xs, n, b, f)
  PROVE  Loop(op, y, a, xs, n, b, f[n])
<1>1. f = [i \in 0 .. n |-> IF i = 0 THEN b ELSE Statement(op, y, a, f[i - 1], xs[i])]
  BY DEF Way
<1>2. f[0] = b
  BY <1>1
<1>3. \A i \in 1 .. n : f[i] = Statement(op, y, a, f[i - 1], xs[i])
  <2> SUFFICES ASSUME NEW i \in 1 .. n PROVE f[i] = Statement(op, y, a, f[i - 1], xs[i])
    OBVIOUS
  <2>1. i \in 0 .. n /\ i # 0
    OBVIOUS
  <2> QED
    BY <1>1, <2>1
<1> QED
  BY <1>2, <1>3 DEF Loop


ForAll(op, y, a, S, b, r) == Loop(op, y, a, Ascending(S), Cardinality(S), b, r)
LEMMA NumbersInOrder ==
  ASSUME NEW S, IsFiniteSet(S), S \subseteq Nat
  PROVE  /\ Cardinality(S) \in Nat /\ Len(Ascending(S)) = Cardinality(S)
         /\ \A i \in 1 .. Cardinality(S) : Ascending(S)[i] \in S
         /\ \A s \in S : \E i \in 1 .. Cardinality(S) : Ascending(S)[i] = s
         /\ \A i, j \in 1 .. Cardinality(S) : i < j <=> Ascending(S)[i] < Ascending(S)[j]
<1> DEFINE ids == OrderBy(S, LAMBDA p, q : p < q)
<1>1. /\ ids \in Seq(S) /\ Len(ids) = Cardinality(S)
      /\ {ids[i] : i \in DOMAIN ids} = S
      /\ \A i, j \in DOMAIN ids : i < j <=> ids[i] < ids[j]
  BY OrderedIds
<1>2. ids = Ascending(S)
  BY DEF Ascending
<1> HIDE DEF ids
<1>3. DOMAIN ids = 1 .. Cardinality(S) /\ Cardinality(S) \in Nat
  BY <1>1, FS_CardinalityType
<1> QED
  BY <1>1, <1>2, <1>3

-----------------------------------------------------------------------------
(* The tables as the tools need them: finite, with numbers for ids, and     *)
(* with their columns.  That sequences are ahead of the ids is what the     *)
(* tools establish and cannot rely on.                                      *)
AllTables(d) == DOMAIN d = TableNames \cup {"seq"}
Numbers(Q) == IsFiniteSet(Q) /\ Q \subseteq Nat
NumberedRows(T) == IsFiniteSet(T) /\ \A r \in T : r.id \in Nat
CategoryRows(T) == NumberedRows(T) /\ \A c \in T : DOMAIN c = {"id", "title"}
WorkbookRows(T) ==
  NumberedRows(T) /\ \A w \in T : DOMAIN w = {"id", "title", "category", "published"}
Counters(seq) == DOMAIN seq = Serial \cup {"questions"} /\ \A t \in DOMAIN seq : seq[t] \in Nat
Shaped(d) ==
  /\ AllTables(d) /\ Counters(d.seq)
  /\ Numbers(d.questions) /\ NumberedRows(d.images)
  /\ WorkbookRows(d.workbooks) /\ CategoryRows(d.categories)

(* What a sync leaves alone of the database b0 it began with, while it      *)
(* writes b: links of apps to the categories C that stay, and whether a     *)
(* workbook is published.                                                   *)
Kept(C, b0, b) ==
  /\ Shaped(b)
  /\ \A r \in b0.appCategories : r.category \in C => r \in b.appCategories
  /\ \A w \in b0.workbooks, v \in b.workbooks : w.id = v.id => w.published = v.published

(* Statements about choices, images of a question and places in a workbook  *)
(* touch none of this.                                                      *)
Details == {"singleChoices", "choices", "questionImages", "workbookQuestions"}
LEMMA DetailsOnly ==
  ASSUME NEW C, NEW b0, NEW d, Kept(C, b0, d), NEW e, NEW F, F \subseteq Details, Same(d, e, F)
  PROVE  Kept(C, b0, e)
<1>1. /\ DOMAIN e = DOMAIN d /\ e.seq = d.seq /\ e.questions = d.questions /\ e.images = d.images
      /\ e.workbooks = d.workbooks /\ e.categories = d.categories
      /\ e.appCategories = d.appCategories
  BY DEF Same, Details, TableNames, Serial
<1> QED
  BY <1>1 DEF Kept, Shaped, AllTables

LEMMA RewrittenRows ==
  ASSUME NEW T, IsFiniteSet(T), NEW f
  PROVE  IsFiniteSet({f[r] : r \in T})
<1> DEFINE V == {f[r] : r \in T}
           g == [r \in T |-> f[r]]
<1>1. g \in Surjection(T, V)
  BY DEF Surjection
<1> HIDE DEF g, V
<1>2. IsFiniteSet(V)
  BY <1>1, FS_Surjection
<1> QED
  BY <1>2 DEF V

(* Workbooks get another title or category.                                 *)
Relabelling(f, W) ==
  \A w \in W : f[w].id = w.id /\ f[w].published = w.published /\ DOMAIN f[w] = DOMAIN w
LEMMA RelabelledRows ==
  ASSUME NEW W, WorkbookRows(W), NEW f, Relabelling(f, W), NEW V, V = {f[w] : w \in W}
  PROVE  /\ WorkbookRows(V)
         /\ \A v \in V : \E w \in W : v.id = w.id /\ v.published = w.published
<1>1. IsFiniteSet(V)
  BY RewrittenRows DEF WorkbookRows, NumberedRows
<1>2. \A v \in V : \E w \in W : v.id = w.id /\ v.published = w.published /\ DOMAIN v = DOMAIN w
  BY DEF Relabelling
<1> QED
  BY <1>1, <1>2 DEF WorkbookRows, NumberedRows

LEMMA WorkbooksRelabelled ==
  ASSUME NEW C, NEW b0, NEW d, Kept(C, b0, d), NEW e, Same(d, e, {"workbooks"}),
         NEW f, Relabelling(f, d.workbooks), e.workbooks = {f[w] : w \in d.workbooks}
  PROVE  Kept(C, b0, e)
<1>1. /\ DOMAIN e = DOMAIN d /\ e.seq = d.seq /\ e.questions = d.questions /\ e.images = d.images
      /\ e.categories = d.categories /\ e.appCategories = d.appCategories
  BY DEF Same, TableNames, Serial
<1>2. /\ WorkbookRows(e.workbooks)
      /\ \A v \in e.workbooks : \E w \in d.workbooks : v.id = w.id /\ v.published = w.published
  <2>1. WorkbookRows(d.workbooks)
    BY DEF Kept, Shaped
  <2>2. Relabelling(f, d.workbooks) /\ e.workbooks = {f[w] : w \in d.workbooks}
    OBVIOUS
  <2> QED
    BY ONLY <2>1, <2>2, RelabelledRows
<1> QED
  BY <1>1, <1>2 DEF Kept, Shaped, AllTables

(* The statements that give workbooks a category, or a title.               *)
LEMMA CategoryFilled ==
  ASSUME NEW C, NEW b0, NEW d, Kept(C, b0, d), NEW y, NEW id
  PROVE  Kept(C, b0, FillCategory(y, d, id))
<1> DEFINE e == FillCategory(y, d, id)
           New(w) == IF w.id \in Elems(y.categories[id].workbooks) THEN [w EXCEPT !.category = id] ELSE w
           f == [w \in d.workbooks |-> New(w)]
<1>1. \A w \in d.workbooks : /\ New(w).id = w.id /\ New(w).published = w.published
                             /\ DOMAIN New(w) = DOMAIN w
  BY DEF Kept, Shaped, WorkbookRows
<1>2. Same(d, e, {"workbooks"}) /\ e.workbooks = {New(w) : w \in d.workbooks}
  BY DEF Kept, Shaped, AllTables, FillCategory, Same, TableNames, Serial
<1> HIDE DEF New, e
<1>3. Relabelling(f, d.workbooks) /\ e.workbooks = {f[w] : w \in d.workbooks}
  BY <1>1, <1>2 DEF Relabelling
<1> HIDE DEF f
<1>4. Kept(C, b0, e)
  BY <1>2, <1>3, WorkbooksRelabelled
<1> QED
  BY <1>4 DEF e
LEMMA CategoryEmptied ==
  ASSUME NEW C, NEW b0, NEW d, Kept(C, b0, d), NEW id
  PROVE  Kept(C, b0, EmptyCategory(d, id))
<1> DEFINE e == EmptyCategory(d, id)
           New(w) == IF w.category = id THEN [w EXCEPT !.category = NoCategory] ELSE w
           f == [w \in d.workbooks |-> New(w)]
<1>1. \A w \in d.workbooks : /\ New(w).id = w.id /\ New(w).published = w.published
                             /\ DOMAIN New(w) = DOMAIN w
  BY DEF Kept, Shaped, WorkbookRows
<1>2. Same(d, e, {"workbooks"}) /\ e.workbooks = {New(w) : w \in d.workbooks}
  BY DEF Kept, Shaped, AllTables, EmptyCategory, Same, TableNames, Serial
<1> HIDE DEF New, e
<1>3. Relabelling(f, d.workbooks) /\ e.workbooks = {f[w] : w \in d.workbooks}
  BY <1>1, <1>2 DEF Relabelling
<1> HIDE DEF f
<1>4. Kept(C, b0, e)
  BY <1>2, <1>3, WorkbooksRelabelled
<1> QED
  BY <1>4 DEF e
LEMMA WorkbookMoved ==
  ASSUME NEW C, NEW b0, NEW d, Kept(C, b0, d), NEW category, NEW id
  PROVE  Kept(C, b0, SetWorkbookCategory(d, category, id))
<1> DEFINE e == SetWorkbookCategory(d, category, id)
           New(w) == IF w.id = id THEN [w EXCEPT !.category = category] ELSE w
           f == [w \in d.workbooks |-> New(w)]
<1>1. \A w \in d.workbooks : /\ New(w).id = w.id /\ New(w).published = w.published
                             /\ DOMAIN New(w) = DOMAIN w
  BY DEF Kept, Shaped, WorkbookRows
<1>2. Same(d, e, {"workbooks"}) /\ e.workbooks = {New(w) : w \in d.workbooks}
  BY DEF Kept, Shaped, AllTables, SetWorkbookCategory, Same, TableNames, Serial
<1> HIDE DEF New, e
<1>3. Relabelling(f, d.workbooks) /\ e.workbooks = {f[w] : w \in d.workbooks}
  BY <1>1, <1>2 DEF Relabelling
<1> HIDE DEF f
<1>4. Kept(C, b0, e)
  BY <1>2, <1>3, WorkbooksRelabelled
<1> QED
  BY <1>4 DEF e

Rewritten(d, id, title, category) ==
  [d EXCEPT !.workbooks = {IF w.id = id THEN [w EXCEPT !.title = title, !.category = category]
                           ELSE w : w \in @}]
LEMMA WorkbookRewritten ==
  ASSUME NEW C, NEW b0, NEW d, Kept(C, b0, d), NEW title, NEW category, NEW id
  PROVE  Kept(C, b0, Rewritten(d, id, title, category))
<1> DEFINE New(w) == IF w.id = id THEN [w EXCEPT !.title = title, !.category = category] ELSE w
           e == Rewritten(d, id, title, category)
           f == [w \in d.workbooks |-> New(w)]
<1>1. \A w \in d.workbooks : /\ New(w).id = w.id /\ New(w).published = w.published
                             /\ DOMAIN New(w) = DOMAIN w
  BY DEF Kept, Shaped, WorkbookRows
<1>2. Same(d, e, {"workbooks"}) /\ e.workbooks = {New(w) : w \in d.workbooks}
  BY DEF Kept, Shaped, AllTables, Rewritten, Same, TableNames, Serial
<1> HIDE DEF e
<1>3. Relabelling(f, d.workbooks) /\ e.workbooks = {f[w] : w \in d.workbooks}
  <2> HIDE DEF New
  <2> QED
    BY <1>1, <1>2 DEF Relabelling
<1> HIDE DEF f
<1>4. Kept(C, b0, e)
  <2> HIDE DEF New
  <2> QED
    BY <1>2, <1>3, WorkbooksRelabelled
<1> QED
  BY <1>4 DEF e

(* A row is added under a number.                                           *)
LEMMA ImageStored ==
  ASSUME NEW C, NEW b0, NEW d, Kept(C, b0, d), NEW e, Same(d, e, {"images", "questionImages"}),
         NEW R, R \subseteq d.images, NEW id \in Nat, NEW path,
         e.images = R \/ e.images = R \cup {[id |-> id, path |-> path]}
  PROVE  Kept(C, b0, e)
<1> DEFINE row == [id |-> id, path |-> path]
<1>1. /\ DOMAIN e = DOMAIN d /\ e.seq = d.seq /\ e.questions = d.questions
      /\ e.workbooks = d.workbooks /\ e.categories = d.categories
      /\ e.appCategories = d.appCategories
  BY DEF Same, TableNames, Serial
<1>2. IsFiniteSet(R) /\ \A r \in R : r.id \in Nat
  BY FS_Subset DEF Kept, Shaped, NumberedRows
<1>3. row.id = id /\ (e.images = R \/ e.images = R \cup {row})
  OBVIOUS
<1> HIDE DEF row
<1>4. IsFiniteSet(R \cup {row})
  BY <1>2, FS_AddElement
<1>5. NumberedRows(e.images)
  BY <1>2, <1>3, <1>4 DEF NumberedRows
<1> QED
  BY <1>1, <1>5 DEF Kept, Shaped, AllTables
LEMMA QuestionStored ==
  ASSUME NEW C, NEW b0, NEW d, Kept(C, b0, d), NEW e, Same(d, e, Details \cup {"questions"}),
         NEW id \in Nat, e.questions \subseteq d.questions \cup {id}
  PROVE  Kept(C, b0, e)
<1>1. /\ DOMAIN e = DOMAIN d /\ e.seq = d.seq /\ e.images = d.images
      /\ e.workbooks = d.workbooks /\ e.categories = d.categories
      /\ e.appCategories = d.appCategories
  BY DEF Same, Details, TableNames, Serial
<1>2. Numbers(d.questions)
  BY DEF Kept, Shaped
<1>3. IsFiniteSet(d.questions \cup {id})
  BY <1>2, FS_AddElement DEF Numbers
<1>4. Numbers(e.questions)
  BY <1>2, <1>3, FS_Subset DEF Numbers
<1> QED
  BY <1>1, <1>4 DEF Kept, Shaped, AllTables
LEMMA WorkbookStored ==
  ASSUME NEW C, NEW b0, NEW d, Kept(C, b0, d), NEW e, Same(d, e, {"workbooks", "workbookQuestions"}),
         NEW R, R \subseteq d.workbooks, NEW N, WorkbookRows(N), e.workbooks = R \cup N,
         \A w \in b0.workbooks, r \in N : w.id # r.id
  PROVE  Kept(C, b0, e)
<1>1. /\ DOMAIN e = DOMAIN d /\ e.seq = d.seq /\ e.questions = d.questions
      /\ e.images = d.images /\ e.categories = d.categories
      /\ e.appCategories = d.appCategories
  BY DEF Same, TableNames, Serial
<1>2. WorkbookRows(R)
  BY FS_Subset DEF Kept, Shaped, WorkbookRows, NumberedRows
<1>3. WorkbookRows(e.workbooks)
  <2>1. IsFiniteSet(R \cup N)
    BY <1>2, FS_Union DEF WorkbookRows, NumberedRows
  <2>2. e.workbooks = R \cup N /\ WorkbookRows(N)
    OBVIOUS
  <2> QED
    BY ONLY <1>2, <2>1, <2>2 DEF WorkbookRows, NumberedRows
<1>4. \A w \in b0.workbooks, v \in e.workbooks : w.id = v.id => w.published = v.published
  BY DEF Kept
<1> QED
  BY <1>1, <1>3, <1>4 DEF Kept, Shaped, AllTables
LEMMA CategoryStored ==
  ASSUME NEW C, NEW b0, NEW d, Kept(C, b0, d), NEW e, Same(d, e, {"categories"}),
         CategoryRows(e.categories)
  PROVE  Kept(C, b0, e)
<1>1. /\ DOMAIN e = DOMAIN d /\ e.seq = d.seq /\ e.questions = d.questions
      /\ e.images = d.images /\ e.workbooks = d.workbooks
      /\ e.appCategories = d.appCategories
  BY DEF Same, TableNames, Serial
<1> QED
  BY <1>1 DEF Kept, Shaped, AllTables
LEMMA CategoryNamed ==
  ASSUME NEW C, NEW b0, NEW d, Kept(C, b0, d), NEW id \in Nat, NEW title
  PROVE  /\ Kept(C, b0, CreateCategory(d, id, title))
         /\ Kept(C, b0, UpdateCategory(d, id, title))
<1> DEFINE row == [id |-> id, title |-> title]
           New(c) == IF c.id = id THEN [c EXCEPT !.title = title] ELSE c
           f == [c \in d.categories |-> New(c)]
<1>1. IsFiniteSet(d.categories) /\ \A c \in d.categories : c.id \in Nat /\ DOMAIN c = {"id", "title"}
  BY DEF Kept, Shaped, CategoryRows, NumberedRows
<1>2. Kept(C, b0, CreateCategory(d, id, title))
  <2> DEFINE e == CreateCategory(d, id, title)
  <2>1. Same(d, e, {"categories"}) /\ e.categories = d.categories \cup {row}
    BY DEF Kept, Shaped, AllTables, CreateCategory, Same, TableNames, Serial
  <2>2. row.id = id /\ DOMAIN row = {"id", "title"}
    OBVIOUS
  <2> HIDE DEF e, row
  <2>3. CategoryRows(e.categories)
    BY <1>1, <2>1, <2>2, FS_AddElement DEF CategoryRows, NumberedRows
  <2>4. Kept(C, b0, e)
    BY <2>1, <2>3, CategoryStored
  <2> QED
    BY <2>4 DEF e
<1>3. Kept(C, b0, UpdateCategory(d, id, title))
  <2> DEFINE e == UpdateCategory(d, id, title)
  <2>1. Same(d, e, {"categories"}) /\ e.categories = {New(c) : c \in d.categories}
    BY DEF Kept, Shaped, AllTables, UpdateCategory, Same, TableNames, Serial
  <2>2. \A c \in d.categories : New(c).id = c.id /\ DOMAIN New(c) = DOMAIN c
    BY <1>1
  <2> HIDE DEF e, New
  <2>3. e.categories = {f[c] : c \in d.categories}
    BY <2>1
  <2>4. \A c \in d.categories : f[c].id = c.id /\ DOMAIN f[c] = DOMAIN c
    BY <2>2
  <2> HIDE DEF f
  <2>5. IsFiniteSet(e.categories)
    BY <1>1, <2>3, RewrittenRows
  <2>6. CategoryRows(e.categories)
    BY <1>1, <2>3, <2>4, <2>5 DEF CategoryRows, NumberedRows
  <2>7. Kept(C, b0, e)
    BY <2>1, <2>6, CategoryStored
  <2> QED
    BY <2>7 DEF e
<1> QED
  BY <1>2, <1>3

(* A category that does not stay is deleted.                                *)
LEMMA CategoryGone ==
  ASSUME NEW C, NEW b0, NEW d, Kept(C, b0, d), NEW id, id \notin C
  PROVE  Kept(C, b0, DeleteCategory(d, id))
<1> DEFINE e == DeleteCategory(d, id)
           New(w) == IF w.category = id THEN [w EXCEPT !.category = NoCategory] ELSE w
           f == [w \in d.workbooks |-> New(w)]
<1>1. /\ Same(d, e, {"categories", "workbooks", "appCategories"})
      /\ e.categories = {c \in d.categories : c.id # id}
      /\ e.workbooks = {New(w) : w \in d.workbooks}
      /\ e.appCategories = {r \in d.appCategories : r.category # id}
  BY DEF Kept, Shaped, AllTables, DeleteCategory, Same, TableNames, Serial
<1>2. \A w \in d.workbooks : /\ New(w).id = w.id /\ New(w).published = w.published
                             /\ DOMAIN New(w) = DOMAIN w
  BY DEF Kept, Shaped, WorkbookRows
<1> HIDE DEF New, e
<1>3. Relabelling(f, d.workbooks) /\ e.workbooks = {f[w] : w \in d.workbooks}
  BY <1>1, <1>2 DEF Relabelling
<1> HIDE DEF f
<1>4. /\ WorkbookRows(e.workbooks)
      /\ \A v \in e.workbooks : \E w \in d.workbooks : v.id = w.id /\ v.published = w.published
  <2>1. WorkbookRows(d.workbooks)
    BY DEF Kept, Shaped
  <2> QED
    BY <1>3, <2>1, RelabelledRows
<1>5. CategoryRows(e.categories)
  BY <1>1, FS_Subset DEF Kept, Shaped, CategoryRows, NumberedRows
<1>6. /\ DOMAIN e = DOMAIN d /\ e.seq = d.seq /\ e.questions = d.questions /\ e.images = d.images
  BY <1>1 DEF Same, TableNames, Serial
<1>7. \A r \in b0.appCategories : r.category \in C => r \in e.appCategories
  BY <1>1 DEF Kept
<1>8. \A w \in b0.workbooks, v \in e.workbooks : w.id = v.id => w.published = v.published
  BY <1>4 DEF Kept
<1> QED
  BY <1>4, <1>5, <1>6, <1>7, <1>8 DEF Kept, Shaped, AllTables, e

(* The statements about details.                                            *)
LEMMA DetailsWritten ==
  ASSUME NEW C, NEW b0, NEW d, Kept(C, b0, d), NEW id, NEW x, NEW s
  PROVE  /\ Kept(C, b0, CreateSingleChoice(d, id, x)) /\ Kept(C, b0, UpdateSingleChoice(d, id, x))
         /\ Kept(C, b0, CreateChoice(d, id, s)) /\ Kept(C, b0, DeleteChoicesByQuestionID(d, id))
         /\ Kept(C, b0, CreateQuestionImage(d, id, s)) /\ Kept(C, b0, DeleteQuestionImages(d, id))
         /\ Kept(C, b0, bulkInsertWorkbookQuestions(d, id, s))
         /\ Kept(C, b0, DeleteWorkbookQuestions(d, id))
<1> DEFINE Touches(e) == Same(d, e, Details)
<1>1. \A e : Touches(e) => Kept(C, b0, e)
  BY DetailsOnly
<1> USE DEF Kept, Shaped, AllTables, Same, Details, TableNames, Serial
<1>2. Touches(CreateSingleChoice(d, id, x)) /\ Touches(UpdateSingleChoice(d, id, x))
  BY DEF CreateSingleChoice, UpdateSingleChoice
<1>3. Touches(CreateChoice(d, id, s)) /\ Touches(DeleteChoicesByQuestionID(d, id))
  BY DEF CreateChoice, DeleteChoicesByQuestionID
<1>4. Touches(CreateQuestionImage(d, id, s)) /\ Touches(DeleteQuestionImages(d, id))
  BY DEF CreateQuestionImage, DeleteQuestionImages
<1>5. Touches(bulkInsertWorkbookQuestions(d, id, s)) /\ Touches(DeleteWorkbookQuestions(d, id))
  BY DEF bulkInsertWorkbookQuestions, DeleteWorkbookQuestions
<1> HIDE DEF Touches, Kept
<1> QED
  BY <1>1, <1>2, <1>3, <1>4, <1>5

(* A question comes with its details and goes with them.                    *)
LEMMA QuestionsKept ==
  ASSUME NEW C, NEW b0, NEW d, Kept(C, b0, d), NEW y, NEW id \in Nat
  PROVE  /\ Kept(C, b0, CreateQuestion(d, id)) /\ Kept(C, b0, DeleteQuestion(d, id))
         /\ Kept(C, b0, AddQuestion(y, d, id)) /\ Kept(C, b0, ChangeQuestion(y, d, id))
<1>1. Kept(C, b0, CreateQuestion(d, id))
  <2> DEFINE e == CreateQuestion(d, id)
  <2>1. Same(d, e, Details \cup {"questions"}) /\ e.questions \subseteq d.questions \cup {id}
    BY DEF Kept, Shaped, AllTables, CreateQuestion, Same, Details, TableNames, Serial
  <2> HIDE DEF e
  <2>2. Kept(C, b0, e)
    BY <2>1, QuestionStored
  <2> QED
    BY <2>2 DEF e
<1>2. Kept(C, b0, DeleteQuestion(d, id))
  <2> DEFINE e == DeleteQuestion(d, id)
  <2>1. Same(d, e, Details \cup {"questions"}) /\ e.questions \subseteq d.questions \cup {id}
    BY DEF Kept, Shaped, AllTables, DeleteQuestion, Same, Details, TableNames, Serial
  <2> HIDE DEF e
  <2>2. Kept(C, b0, e)
    BY <2>1, QuestionStored
  <2> QED
    BY <2>2 DEF e
<1>3. ASSUME NEW b, Kept(C, b0, b), NEW q PROVE Kept(C, b0, insertQuestionDetails(b, id, q))
  <2> DEFINE cs == [i \in DOMAIN q.choices |-> [text |-> q.choices[i], correct |-> i - 1 = q.correct]]
  <2>1. insertQuestionDetails(b, id, q) = CreateQuestionImage(CreateChoice(b, id, cs), id, q.images)
    BY DEF insertQuestionDetails
  <2> HIDE DEF cs
  <2>2. Kept(C, b0, CreateChoice(b, id, cs))
    BY <1>3, DetailsWritten
  <2> QED
    BY <2>1, <2>2, DetailsWritten
<1>4. Kept(C, b0, AddQuestion(y, d, id))
  <2>1. Kept(C, b0, CreateSingleChoice(CreateQuestion(d, id), id, y.questions[id].text))
    BY <1>1, DetailsWritten
  <2> QED
    BY <1>3, <2>1 DEF AddQuestion
<1>5. Kept(C, b0, ChangeQuestion(y, d, id))
  <2>1. Kept(C, b0, DeleteChoicesByQuestionID(d, id))
    BY DetailsWritten
  <2>2. Kept(C, b0, DeleteQuestionImages(DeleteChoicesByQuestionID(d, id), id))
    BY <2>1, DetailsWritten
  <2>3. Kept(C, b0, UpdateSingleChoice(DeleteQuestionImages(DeleteChoicesByQuestionID(d, id), id),
                                       id, y.questions[id].text))
    BY <2>2, DetailsWritten
  <2> QED
    BY <1>3, <2>3 DEF ChangeQuestion
<1> QED
  BY <1>1, <1>2, <1>4, <1>5

LEMMA ImagesKept ==
  ASSUME NEW C, NEW b0, NEW d, Kept(C, b0, d), NEW y, NEW id \in Nat
  PROVE  /\ Kept(C, b0, PutImage(y, d, id)) /\ Kept(C, b0, DropImage(d, id))
         /\ Kept(C, b0, ImportImage(d, id, y.images[id]))
<1> USE DEF CreateImage, Kept, Shaped, AllTables, Same, TableNames, Serial
<1>1. Kept(C, b0, PutImage(y, d, id))
  <2> DEFINE e == PutImage(y, d, id)
             R == {m \in d.images : m.id # id}
  <2>1. /\ Same(d, e, {"images", "questionImages"}) /\ R \subseteq d.images
        /\ e.images = R \cup {[id |-> id, path |-> y.images[id]]}
    BY DEF PutImage
  <2> HIDE DEF e, R, Kept, Same
  <2>2. Kept(C, b0, e)
    BY <2>1, ImageStored
  <2> QED
    BY <2>2 DEF e
<1>2. Kept(C, b0, DropImage(d, id))
  <2> DEFINE e == DropImage(d, id)
             R == {m \in d.images : m.id # id}
  <2>1. /\ Same(d, e, {"images", "questionImages"}) /\ R \subseteq d.images /\ e.images = R
    BY DEF DropImage
  <2> HIDE DEF e, R, Kept, Same
  <2>2. Kept(C, b0, e)
    BY <2>1, ImageStored
  <2> QED
    BY <2>2 DEF e
<1>3. Kept(C, b0, CreateImage(d, id, y.images[id]))
  <2> DEFINE e == CreateImage(d, id, y.images[id])
  <2>1. /\ Same(d, e, {"images", "questionImages"}) /\ d.images \subseteq d.images
        /\ e.images = d.images \cup {[id |-> id, path |-> y.images[id]]}
    OBVIOUS
  <2> HIDE DEF e, Kept, Same
  <2>2. Kept(C, b0, e)
    BY <2>1, ImageStored
  <2> QED
    BY <2>2 DEF e
<1> QED
  BY <1>1, <1>2, <1>3 DEF ImportImage

LEMMA WorkbooksKept ==
  ASSUME NEW C, NEW b0, NEW d, Kept(C, b0, d), NEW y, NEW category, NEW id \in Nat
  PROVE  /\ Kept(C, b0, DeleteWorkbook(d, id)) /\ Kept(C, b0, ChangeWorkbook(y, category, d, id))
         /\ (\A w \in b0.workbooks : w.id # id) => Kept(C, b0, AddWorkbook(y, category, d, id))
<1>1. Kept(C, b0, DeleteWorkbook(d, id))
  <2> DEFINE e == DeleteWorkbook(d, id)
             R == {w \in d.workbooks : w.id # id}
  <2>1. /\ Same(d, e, {"workbooks", "workbookQuestions"})
        /\ R \subseteq d.workbooks /\ e.workbooks = R \cup {}
    BY DEF DeleteWorkbook, Kept, Shaped, AllTables, Same, TableNames, Serial
  <2>3. WorkbookRows({})
    BY FS_EmptySet DEF WorkbookRows, NumberedRows
  <2> HIDE DEF e, R
  <2>2. Kept(C, b0, e)
    BY <2>1, <2>3, WorkbookStored
  <2> QED
    BY <2>2 DEF e
<1>2. Kept(C, b0, ChangeWorkbook(y, category, d, id))
  <2> DEFINE e == Rewritten(d, id, y.workbooks[id].title, category[id])
  <2>1. Kept(C, b0, e)
    BY WorkbookRewritten
  <2>2. ChangeWorkbook(y, category, d, id)
          = bulkInsertWorkbookQuestions(DeleteWorkbookQuestions(e, id), id, y.workbooks[id].questions)
    BY DEF ChangeWorkbook, Rewritten
  <2> HIDE DEF e
  <2>3. Kept(C, b0, DeleteWorkbookQuestions(e, id))
    BY <2>1, DetailsWritten
  <2> QED
    BY <2>2, <2>3, DetailsWritten
<1>3. ASSUME \A w \in b0.workbooks : w.id # id PROVE Kept(C, b0, AddWorkbook(y, category, d, id))
  <2> DEFINE e == CreateWorkbook(d, id, y.workbooks[id].title, category[id], TRUE)
             row == [id |-> id, title |-> y.workbooks[id].title, category |-> category[id],
                     published |-> TRUE]
  <2>1. /\ Same(d, e, {"workbooks", "workbookQuestions"}) /\ d.workbooks \subseteq d.workbooks
        /\ e.workbooks = d.workbooks \cup {row}
    BY DEF CreateWorkbook, Kept, Shaped, AllTables, Same, TableNames, Serial
  <2>2. AddWorkbook(y, category, d, id) = bulkInsertWorkbookQuestions(e, id, y.workbooks[id].questions)
    BY DEF AddWorkbook
  <2>3. row.id = id /\ DOMAIN row = {"id", "title", "category", "published"}
    OBVIOUS
  <2> HIDE DEF e, row
  <2>4. WorkbookRows({row}) /\ \A w \in b0.workbooks, r \in {row} : w.id # r.id
    <3>1. IsFiniteSet({row})
      BY FS_Singleton
    <3> QED
      BY <1>3, <2>3, <3>1 DEF WorkbookRows, NumberedRows
  <2>5. Kept(C, b0, e)
    BY <2>1, <2>4, WorkbookStored
  <2> QED
    BY <2>2, <2>5, DetailsWritten
<1> QED
  BY <1>1, <1>2, <1>3

LEMMA CategoriesKept ==
  ASSUME NEW C, NEW b0, NEW d, Kept(C, b0, d), NEW y, NEW diff, NEW id \in Nat,
         id \in diff.delete => id \notin C
  PROVE  Kept(C, b0, SyncCategory(y, diff, d, id))
<1> DEFINE title == y.categories[id].title
<1>1. CASE id \in diff.delete
  BY <1>1, CategoryGone DEF SyncCategory
<1>2. CASE id \notin diff.delete /\ id \in diff.add
  <2>1. Kept(C, b0, CreateCategory(d, id, title))
    BY CategoryNamed
  <2> QED
    BY <1>2, <2>1, CategoryFilled DEF SyncCategory
<1>3. CASE id \notin diff.delete /\ id \notin diff.add
  <2>1. Kept(C, b0, UpdateCategory(d, id, title))
    BY CategoryNamed
  <2>2. Kept(C, b0, EmptyCategory(UpdateCategory(d, id, title), id))
    BY <2>1, CategoryEmptied
  <2> QED
    BY <1>3, <2>2, CategoryFilled DEF SyncCategory
<1> QED
  BY <1>1, <1>2, <1>3

(* The rows the importer adds to one question, workbook or category.        *)
LEMMA ImportKept ==
  ASSUME NEW C, NEW b0, NEW d, Kept(C, b0, d), NEW y, NEW id, NEW i
  PROVE  /\ Kept(C, b0, ImportNthChoice(y, id, d, i)) /\ Kept(C, b0, ImportNthImage(y, id, d, i))
         /\ Kept(C, b0, ImportNthQuestion(y, id, d, i)) /\ Kept(C, b0, ImportNthWorkbook(y, id, d, i))
<1> DEFINE Touches(e) == Same(d, e, Details)
<1>1. \A e : Touches(e) => Kept(C, b0, e)
  BY DetailsOnly
<1>2. AllTables(d)
  BY DEF Kept, Shaped
<1> USE DEF AllTables, Same, Details, TableNames, Serial
<1>3. Touches(ImportNthChoice(y, id, d, i))
  BY <1>2 DEF ImportNthChoice, ImportChoice
<1>4. Touches(ImportNthImage(y, id, d, i))
  BY <1>2 DEF ImportNthImage, ImportQuestionImage
<1>5. Touches(ImportNthQuestion(y, id, d, i))
  BY <1>2 DEF ImportNthQuestion, ImportWorkbookQuestion
<1> HIDE DEF Touches
<1>6. Kept(C, b0, ImportNthWorkbook(y, id, d, i))
  BY WorkbookMoved DEF ImportNthWorkbook
<1> QED
  BY <1>1, <1>3, <1>4, <1>5, <1>6

(* Every statement of the tools keeps it, if it deletes no category that    *)
(* stays and adds no workbook that is there.                                *)
Statements == {"PutImage", "DropImage", "DeleteQuestion", "AddQuestion", "ChangeQuestion",
               "SyncCategory", "DeleteWorkbook", "AddWorkbook", "ChangeWorkbook", "ImportImage",
               "ImportNthChoice", "ImportNthImage", "ImportNthQuestion", "ImportNthWorkbook"}
Allowed(op, a, C, b0, x) ==
  /\ x \in Nat
  /\ op = "SyncCategory" => (x \in a.delete => x \notin C)
  /\ op = "AddWorkbook" => \A w \in b0.workbooks : w.id # x
LEMMA StatementKept ==
  ASSUME NEW op \in Statements, NEW y, NEW a, NEW C, NEW b0, NEW d, Kept(C, b0, d),
         NEW x, Allowed(op, a, C, b0, x)
  PROVE  Kept(C, b0, Statement(op, y, a, d, x))
<1>1. x \in Nat
  BY DEF Allowed
<1>2. CASE op = "PutImage"
  BY <1>1, <1>2, ImagesKept DEF Statement
<1>3. CASE op = "DropImage"
  BY <1>1, <1>3, ImagesKept DEF Statement
<1>4. CASE op = "ImportImage"
  BY <1>1, <1>4, ImagesKept DEF Statement
<1>5. CASE op = "DeleteQuestion"
  BY <1>1, <1>5, QuestionsKept DEF Statement
<1>6. CASE op = "AddQuestion"
  BY <1>1, <1>6, QuestionsKept DEF Statement
<1>7. CASE op = "ChangeQuestion"
  BY <1>1, <1>7, QuestionsKept DEF Statement
<1>8. CASE op = "SyncCategory"
  BY <1>1, <1>8, CategoriesKept DEF Statement, Allowed
<1>9. CASE op = "DeleteWorkbook"
  BY <1>1, <1>9, WorkbooksKept DEF Statement
<1>10. CASE op = "AddWorkbook"
  BY <1>1, <1>10, WorkbooksKept DEF Statement, Allowed
<1>11. CASE op = "ChangeWorkbook"
  BY <1>1, <1>11, WorkbooksKept DEF Statement
<1>12. CASE op = "ImportNthChoice"
  BY <1>12, ImportKept DEF Statement
<1>13. CASE op = "ImportNthImage"
  BY <1>13, ImportKept DEF Statement
<1>14. CASE op = "ImportNthQuestion"
  BY <1>14, ImportKept DEF Statement
<1>15. CASE op = "ImportNthWorkbook"
  BY <1>15, ImportKept DEF Statement
<1> QED
  BY <1>2, <1>3, <1>4, <1>5, <1>6, <1>7, <1>8, <1>9, <1>10, <1>11, <1>12, <1>13, <1>14, <1>15
     DEF Statements

(* So does a loop.                                                          *)
LEMMA LoopKept ==
  ASSUME NEW op \in Statements, NEW y, NEW a, NEW C, NEW b0, NEW b, Kept(C, b0, b),
         NEW xs, NEW n \in Nat, \A i \in 1 .. n : Allowed(op, a, C, b0, xs[i]),
         NEW r, Loop(op, y, a, xs, n, b, r)
  PROVE  Kept(C, b0, r)
<1>1. PICK f : f[0] = b /\ f[n] = r /\ \A i \in 1 .. n : f[i] = Statement(op, y, a, f[i - 1], xs[i])
  BY DEF Loop
<1> DEFINE G == {i \in 0 .. n : Kept(C, b0, f[i])}
<1>2. 0 \in G
  BY <1>1
<1>3. ASSUME NEW i \in 1 .. n, i - 1 \in G PROVE i \in G
  <2>1. Kept(C, b0, f[i - 1]) /\ Allowed(op, a, C, b0, xs[i])
    BY <1>3
  <2>2. Kept(C, b0, Statement(op, y, a, f[i - 1], xs[i]))
    BY <2>1, StatementKept
  <2> QED
    BY <1>1, <2>2
<1>4. \A i \in 0 .. n : i \in G
  <2> HIDE DEF G
  <2> QED
    BY <1>2, <1>3, Climb
<1> QED
  BY <1>1, <1>4
LEMMA ForAllKept ==
  ASSUME NEW op \in Statements, NEW y, NEW a, NEW C, NEW b0, NEW b, Kept(C, b0, b),
         NEW S, Numbers(S), \A x \in S : Allowed(op, a, C, b0, x),
         NEW r, ForAll(op, y, a, S, b, r)
  PROVE  Kept(C, b0, r)
<1>1. /\ Cardinality(S) \in Nat
      /\ \A i \in 1 .. Cardinality(S) : Ascending(S)[i] \in S
  BY NumbersInOrder DEF Numbers
<1>2. Loop(op, y, a, Ascending(S), Cardinality(S), b, r)
  BY DEF ForAll
<1> QED
  BY <1>1, <1>2, LoopKept

-----------------------------------------------------------------------------
(* What the four parts of Apply do, loop by loop.                           *)
LEMMA ImagesApplied ==
  ASSUME NEW y, NEW d, NEW b, NEW S, S = d.add \cup (d.change \cap DOMAIN loadImagesDB(b)),
         Numbers(S), Numbers(d.delete)
  PROVE  \E p :
           /\ ForAll("PutImage", y, 0, S, b, p)
           /\ ForAll("DropImage", y, 0, d.delete, p, applyImages(y, d, b))
<1> DEFINE xs1 == Ascending(S)
           xs2 == Ascending(d.delete)
           f1 == CHOOSE f :
                   f = [i \in 0 .. Len(xs1) |-> IF i = 0 THEN b ELSE PutImage(y, f[i - 1], xs1[i])]
           b1 == f1[Len(xs1)]
           f2 == CHOOSE f :
                   f = [i \in 0 .. Len(xs2) |-> IF i = 0 THEN b1 ELSE DropImage(f[i - 1], xs2[i])]
           b2 == f2[Len(xs2)]
<1>1. applyImages(y, d, b) = b2
  BY DEF applyImages, ForEach
<1>2. /\ Len(xs1) = Cardinality(S) /\ Len(xs1) \in Nat
      /\ Len(xs2) = Cardinality(d.delete) /\ Len(xs2) \in Nat
  BY NumbersInOrder DEF Numbers
<1> HIDE DEF xs1, xs2
<1>3. Way("PutImage", y, 0, xs1, Len(xs1), b, f1)
  <2>1. \A c, x : Statement("PutImage", y, 0, c, x) = PutImage(y, c, x)
    BY DEF Statement
  <2>2. \A f : Way("PutImage", y, 0, xs1, Len(xs1), b, f) <=>
               f = [i \in 0 .. Len(xs1) |-> IF i = 0 THEN b ELSE PutImage(y, f[i - 1], xs1[i])]
    BY <2>1 DEF Way
  <2> QED
    BY <1>2, <2>2, WayExists
<1> HIDE DEF f1
<1>4. Loop("PutImage", y, 0, xs1, Len(xs1), b, b1)
  BY <1>2, <1>3, WayIsLoop
<1> HIDE DEF b1
<1>5. Way("DropImage", y, 0, xs2, Len(xs2), b1, f2)
  <2>1. \A c, x : Statement("DropImage", y, 0, c, x) = DropImage(c, x)
    BY DEF Statement
  <2>2. \A f : Way("DropImage", y, 0, xs2, Len(xs2), b1, f) <=>
               f = [i \in 0 .. Len(xs2) |-> IF i = 0 THEN b1 ELSE DropImage(f[i - 1], xs2[i])]
    BY <2>1 DEF Way
  <2> QED
    BY <1>2, <2>2, WayExists
<1> HIDE DEF f2
<1>6. Loop("DropImage", y, 0, xs2, Len(xs2), b1, b2)
  BY <1>2, <1>5, WayIsLoop
<1> HIDE DEF b2
<1> QED
  BY <1>1, <1>2, <1>4, <1>6 DEF ForAll, xs1, xs2

LEMMA QuestionsApplied ==
  ASSUME NEW y, NEW d, NEW b, Numbers(d.add), Numbers(d.change), Numbers(d.delete)
  PROVE  \E p, q :
           /\ ForAll("DeleteQuestion", y, 0, d.delete, b, p)
           /\ ForAll("AddQuestion", y, 0, d.add, p, q)
           /\ ForAll("ChangeQuestion", y, 0, d.change, q, applyQuestions(y, d, b))
<1> DEFINE xs1 == Ascending(d.delete)
           xs2 == Ascending(d.add)
           xs3 == Ascending(d.change)
           f1 == CHOOSE f :
                   f = [i \in 0 .. Len(xs1) |-> IF i = 0 THEN b ELSE DeleteQuestion(f[i - 1], xs1[i])]
           b1 == f1[Len(xs1)]
           f2 == CHOOSE f :
                   f = [i \in 0 .. Len(xs2) |-> IF i = 0 THEN b1 ELSE AddQuestion(y, f[i - 1], xs2[i])]
           b2 == f2[Len(xs2)]
           f3 == CHOOSE f :
                   f = [i \in 0 .. Len(xs3) |-> IF i = 0 THEN b2 ELSE ChangeQuestion(y, f[i - 1], xs3[i])]
           b3 == f3[Len(xs3)]
<1>1. applyQuestions(y, d, b) = b3
  BY DEF applyQuestions, ForEach
<1>2. /\ Len(xs1) = Cardinality(d.delete) /\ Len(xs1) \in Nat
      /\ Len(xs2) = Cardinality(d.add) /\ Len(xs2) \in Nat
      /\ Len(xs3) = Cardinality(d.change) /\ Len(xs3) \in Nat
  BY NumbersInOrder DEF Numbers
<1> HIDE DEF xs1, xs2, xs3
<1>3. Way("DeleteQuestion", y, 0, xs1, Len(xs1), b, f1)
  <2>1. \A c, x : Statement("DeleteQuestion", y, 0, c, x) = DeleteQuestion(c, x)
    BY DEF Statement
  <2>2. \A f : Way("DeleteQuestion", y, 0, xs1, Len(xs1), b, f) <=>
               f = [i \in 0 .. Len(xs1) |-> IF i = 0 THEN b ELSE DeleteQuestion(f[i - 1], xs1[i])]
    BY <2>1 DEF Way
  <2> QED
    BY <1>2, <2>2, WayExists
<1> HIDE DEF f1
<1>4. Loop("DeleteQuestion", y, 0, xs1, Len(xs1), b, b1)
  BY <1>2, <1>3, WayIsLoop
<1> HIDE DEF b1
<1>5. Way("AddQuestion", y, 0, xs2, Len(xs2), b1, f2)
  <2>1. \A c, x : Statement("AddQuestion", y, 0, c, x) = AddQuestion(y, c, x)
    BY DEF Statement
  <2>2. \A f : Way("AddQuestion", y, 0, xs2, Len(xs2), b1, f) <=>
               f = [i \in 0 .. Len(xs2) |-> IF i = 0 THEN b1 ELSE AddQuestion(y, f[i - 1], xs2[i])]
    BY <2>1 DEF Way
  <2> QED
    BY <1>2, <2>2, WayExists
<1> HIDE DEF f2
<1>6. Loop("AddQuestion", y, 0, xs2, Len(xs2), b1, b2)
  BY <1>2, <1>5, WayIsLoop
<1> HIDE DEF b2
<1>7. Way("ChangeQuestion", y, 0, xs3, Len(xs3), b2, f3)
  <2>1. \A c, x : Statement("ChangeQuestion", y, 0, c, x) = ChangeQuestion(y, c, x)
    BY DEF Statement
  <2>2. \A f : Way("ChangeQuestion", y, 0, xs3, Len(xs3), b2, f) <=>
               f = [i \in 0 .. Len(xs3) |-> IF i = 0 THEN b2 ELSE ChangeQuestion(y, f[i - 1], xs3[i])]
    BY <2>1 DEF Way
  <2> QED
    BY <1>2, <2>2, WayExists
<1> HIDE DEF f3
<1>8. Loop("ChangeQuestion", y, 0, xs3, Len(xs3), b2, b3)
  BY <1>2, <1>7, WayIsLoop
<1> HIDE DEF b3
<1> QED
  BY <1>1, <1>2, <1>4, <1>6, <1>8 DEF ForAll, xs1, xs2, xs3

LEMMA CategoriesApplied ==
  ASSUME NEW y, NEW d, NEW b, NEW S, S = d.add \cup d.change \cup d.delete, Numbers(S)
  PROVE  ForAll("SyncCategory", y, d, S, b, applyCategories(y, d, b))
<1> DEFINE xs1 == Ascending(S)
           f1 == CHOOSE f :
                   f = [i \in 0 .. Len(xs1) |-> IF i = 0 THEN b ELSE SyncCategory(y, d, f[i - 1], xs1[i])]
           b1 == f1[Len(xs1)]
<1>1. applyCategories(y, d, b) = b1
  BY DEF applyCategories, ForEach
<1>2. Len(xs1) = Cardinality(S) /\ Len(xs1) \in Nat
  BY NumbersInOrder DEF Numbers
<1> HIDE DEF xs1
<1>3. Way("SyncCategory", y, d, xs1, Len(xs1), b, f1)
  <2>1. \A c, x : Statement("SyncCategory", y, d, c, x) = SyncCategory(y, d, c, x)
    BY DEF Statement
  <2>2. \A f : Way("SyncCategory", y, d, xs1, Len(xs1), b, f) <=>
               f = [i \in 0 .. Len(xs1) |-> IF i = 0 THEN b ELSE SyncCategory(y, d, f[i - 1], xs1[i])]
    BY <2>1 DEF Way
  <2> QED
    BY <1>2, <2>2, WayExists
<1> HIDE DEF f1
<1>4. Loop("SyncCategory", y, d, xs1, Len(xs1), b, b1)
  BY <1>2, <1>3, WayIsLoop
<1> HIDE DEF b1
<1> QED
  BY <1>1, <1>2, <1>4 DEF ForAll, xs1

LEMMA WorkbooksApplied ==
  ASSUME NEW y, NEW category, NEW d, NEW b, Numbers(d.add), Numbers(d.change), Numbers(d.delete)
  PROVE  \E p, q :
           /\ ForAll("DeleteWorkbook", y, category, d.delete, b, p)
           /\ ForAll("AddWorkbook", y, category, d.add, p, q)
           /\ ForAll("ChangeWorkbook", y, category, d.change, q, applyWorkbooks(y, category, d, b))
<1> DEFINE xs1 == Ascending(d.delete)
           xs2 == Ascending(d.add)
           xs3 == Ascending(d.change)
           f1 == CHOOSE f :
                   f = [i \in 0 .. Len(xs1) |-> IF i = 0 THEN b ELSE DeleteWorkbook(f[i - 1], xs1[i])]
           b1 == f1[Len(xs1)]
           f2 == CHOOSE f :
                   f = [i \in 0 .. Len(xs2) |-> IF i = 0 THEN b1 ELSE AddWorkbook(y, category, f[i - 1], xs2[i])]
           b2 == f2[Len(xs2)]
           f3 == CHOOSE f :
                   f = [i \in 0 .. Len(xs3) |-> IF i = 0 THEN b2 ELSE ChangeWorkbook(y, category, f[i - 1], xs3[i])]
           b3 == f3[Len(xs3)]
<1>1. applyWorkbooks(y, category, d, b) = b3
  BY DEF applyWorkbooks, ForEach
<1>2. /\ Len(xs1) = Cardinality(d.delete) /\ Len(xs1) \in Nat
      /\ Len(xs2) = Cardinality(d.add) /\ Len(xs2) \in Nat
      /\ Len(xs3) = Cardinality(d.change) /\ Len(xs3) \in Nat
  BY NumbersInOrder DEF Numbers
<1> HIDE DEF xs1, xs2, xs3
<1>3. Way("DeleteWorkbook", y, category, xs1, Len(xs1), b, f1)
  <2>1. \A c, x : Statement("DeleteWorkbook", y, category, c, x) = DeleteWorkbook(c, x)
    BY DEF Statement
  <2>2. \A f : Way("DeleteWorkbook", y, category, xs1, Len(xs1), b, f) <=>
               f = [i \in 0 .. Len(xs1) |-> IF i = 0 THEN b ELSE DeleteWorkbook(f[i - 1], xs1[i])]
    BY <2>1 DEF Way
  <2> QED
    BY <1>2, <2>2, WayExists
<1> HIDE DEF f1
<1>4. Loop("DeleteWorkbook", y, category, xs1, Len(xs1), b, b1)
  BY <1>2, <1>3, WayIsLoop
<1> HIDE DEF b1
<1>5. Way("AddWorkbook", y, category, xs2, Len(xs2), b1, f2)
  <2>1. \A c, x : Statement("AddWorkbook", y, category, c, x) = AddWorkbook(y, category, c, x)
    BY DEF Statement
  <2>2. \A f : Way("AddWorkbook", y, category, xs2, Len(xs2), b1, f) <=>
               f = [i \in 0 .. Len(xs2) |-> IF i = 0 THEN b1 ELSE AddWorkbook(y, category, f[i - 1], xs2[i])]
    BY <2>1 DEF Way
  <2> QED
    BY <1>2, <2>2, WayExists
<1> HIDE DEF f2
<1>6. Loop("AddWorkbook", y, category, xs2, Len(xs2), b1, b2)
  BY <1>2, <1>5, WayIsLoop
<1> HIDE DEF b2
<1>7. Way("ChangeWorkbook", y, category, xs3, Len(xs3), b2, f3)
  <2>1. \A c, x : Statement("ChangeWorkbook", y, category, c, x) = ChangeWorkbook(y, category, c, x)
    BY DEF Statement
  <2>2. \A f : Way("ChangeWorkbook", y, category, xs3, Len(xs3), b2, f) <=>
               f = [i \in 0 .. Len(xs3) |-> IF i = 0 THEN b2 ELSE ChangeWorkbook(y, category, f[i - 1], xs3[i])]
    BY <2>1 DEF Way
  <2> QED
    BY <1>2, <2>2, WayExists
<1> HIDE DEF f3
<1>8. Loop("ChangeWorkbook", y, category, xs3, Len(xs3), b2, b3)
  BY <1>2, <1>7, WayIsLoop
<1> HIDE DEF b3
<1> QED
  BY <1>1, <1>2, <1>4, <1>6, <1>8 DEF ForAll, xs1, xs2, xs3

Indices(s) == [i \in 1 .. Len(s) |-> i]
(* What the transactions of the importer do.                                *)
LEMMA ImagesImported ==
  ASSUME NEW y, NEW d, Numbers(DOMAIN y.images), NEW e, e \in importImages(y, d)
  PROVE  ForAll("ImportImage", y, 0, DOMAIN y.images, d, e)
<1> DEFINE xs1 == Ascending(DOMAIN y.images)
           f1 == CHOOSE f :
                   f = [i \in 0 .. Len(xs1) |-> IF i = 0 THEN d ELSE ImportImage(f[i - 1], xs1[i], y.images[xs1[i]])]
           b1 == f1[Len(xs1)]
<1>1. e = b1
  BY DEF importImages, Committed, ForEach
<1>2. Len(xs1) = Cardinality(DOMAIN y.images) /\ Len(xs1) \in Nat
  BY NumbersInOrder DEF Numbers
<1> HIDE DEF xs1
<1>3. Way("ImportImage", y, 0, xs1, Len(xs1), d, f1)
  <2>1. \A c, x : Statement("ImportImage", y, 0, c, x) = ImportImage(c, x, y.images[x])
    BY DEF Statement
  <2>2. \A f : Way("ImportImage", y, 0, xs1, Len(xs1), d, f) <=>
               f = [i \in 0 .. Len(xs1) |-> IF i = 0 THEN d ELSE ImportImage(f[i - 1], xs1[i], y.images[xs1[i]])]
    BY <2>1 DEF Way
  <2> QED
    BY <1>2, <2>2, WayExists
<1> HIDE DEF f1
<1>4. Loop("ImportImage", y, 0, xs1, Len(xs1), d, b1)
  BY <1>2, <1>3, WayIsLoop
<1> HIDE DEF b1
<1> QED
  BY <1>1, <1>2, <1>4 DEF ForAll, xs1

LEMMA QuestionImported ==
  ASSUME NEW y, NEW q, NEW d, y.questions[q].choices \in Seq(STRING), y.questions[q].images \in Seq(Nat),
         NEW e, e \in importQuestion(y, q, d)
  PROVE  \E p :
           /\ Loop("ImportNthChoice", y, q,
                   Indices(y.questions[q].choices), Len(y.questions[q].choices),
                   ImportSingleChoice(ImportQuestion(d, q), q, y.questions[q].text), p)
           /\ Loop("ImportNthImage", y, q,
                   Indices(y.questions[q].images), Len(y.questions[q].images), p, e)
<1> DEFINE start == ImportSingleChoice(ImportQuestion(d, q), q, y.questions[q].text)
           xs1 == Indices(y.questions[q].choices)
           n1 == Len(y.questions[q].choices)
           xs2 == Indices(y.questions[q].images)
           n2 == Len(y.questions[q].images)
           f1 == CHOOSE f :
                   f = [i \in 0 .. n1 |-> IF i = 0 THEN start ELSE ImportNthChoice(y, q, f[i - 1], i)]
           b1 == f1[n1]
           f2 == CHOOSE f :
                   f = [i \in 0 .. n2 |-> IF i = 0 THEN b1 ELSE ImportNthImage(y, q, f[i - 1], i)]
           b2 == f2[n2]
<1>1. e = b2
  BY DEF importQuestion, Committed, Times
<1>2. /\ n1 \in Nat /\ \A i \in 1 .. n1 : xs1[i] = i
      /\ n2 \in Nat /\ \A i \in 1 .. n2 : xs2[i] = i
  BY DEF Indices
<1> HIDE DEF start, xs1, n1, xs2, n2
<1>3. Way("ImportNthChoice", y, q, xs1, n1, start, f1)
  <2>1. ASSUME NEW f, NEW i \in 0 .. n1, i # 0
        PROVE  Statement("ImportNthChoice", y, q, f[i - 1], xs1[i]) = ImportNthChoice(y, q, f[i - 1], i)
    <3>1. xs1[i] = i
      BY <1>2, <2>1
    <3> QED
      BY <3>1 DEF Statement
  <2>2. \A f : Way("ImportNthChoice", y, q, xs1, n1, start, f) <=>
               f = [i \in 0 .. n1 |-> IF i = 0 THEN start ELSE ImportNthChoice(y, q, f[i - 1], i)]
    BY <2>1 DEF Way
  <2> QED
    BY <1>2, <2>2, WayExists
<1> HIDE DEF f1
<1>4. Loop("ImportNthChoice", y, q, xs1, n1, start, b1)
  BY <1>2, <1>3, WayIsLoop
<1> HIDE DEF b1
<1>5. Way("ImportNthImage", y, q, xs2, n2, b1, f2)
  <2>1. ASSUME NEW f, NEW i \in 0 .. n2, i # 0
        PROVE  Statement("ImportNthImage", y, q, f[i - 1], xs2[i]) = ImportNthImage(y, q, f[i - 1], i)
    <3>1. xs2[i] = i
      BY <1>2, <2>1
    <3> QED
      BY <3>1 DEF Statement
  <2>2. \A f : Way("ImportNthImage", y, q, xs2, n2, b1, f) <=>
               f = [i \in 0 .. n2 |-> IF i = 0 THEN b1 ELSE ImportNthImage(y, q, f[i - 1], i)]
    BY <2>1 DEF Way
  <2> QED
    BY <1>2, <2>2, WayExists
<1> HIDE DEF f2
<1>6. Loop("ImportNthImage", y, q, xs2, n2, b1, b2)
  BY <1>2, <1>5, WayIsLoop
<1> HIDE DEF b2
<1> QED
  BY <1>1, <1>2, <1>4, <1>6 DEF start, xs1, n1, xs2, n2

LEMMA WorkbookImported ==
  ASSUME NEW y, NEW w, NEW d, y.workbooks[w].questions \in Seq(Nat), NEW e, e \in importWorkbook(y, w, d)
  PROVE  Loop("ImportNthQuestion", y, w,
              Indices(y.workbooks[w].questions), Len(y.workbooks[w].questions),
              ImportWorkbook(d, w, y.workbooks[w].title), e)
<1> DEFINE start == ImportWorkbook(d, w, y.workbooks[w].title)
           xs1 == Indices(y.workbooks[w].questions)
           n1 == Len(y.workbooks[w].questions)
           f1 == CHOOSE f :
                   f = [i \in 0 .. n1 |-> IF i = 0 THEN start ELSE ImportNthQuestion(y, w, f[i - 1], i)]
           b1 == f1[n1]
<1>1. e = b1
  BY DEF importWorkbook, Committed, Times
<1>2. n1 \in Nat /\ \A i \in 1 .. n1 : xs1[i] = i
  BY DEF Indices
<1> HIDE DEF start, xs1, n1
<1>3. Way("ImportNthQuestion", y, w, xs1, n1, start, f1)
  <2>1. ASSUME NEW f, NEW i \in 0 .. n1, i # 0
        PROVE  Statement("ImportNthQuestion", y, w, f[i - 1], xs1[i]) = ImportNthQuestion(y, w, f[i - 1], i)
    <3>1. xs1[i] = i
      BY <1>2, <2>1
    <3> QED
      BY <3>1 DEF Statement
  <2>2. \A f : Way("ImportNthQuestion", y, w, xs1, n1, start, f) <=>
               f = [i \in 0 .. n1 |-> IF i = 0 THEN start ELSE ImportNthQuestion(y, w, f[i - 1], i)]
    BY <2>1 DEF Way
  <2> QED
    BY <1>2, <2>2, WayExists
<1> HIDE DEF f1
<1>4. Loop("ImportNthQuestion", y, w, xs1, n1, start, b1)
  BY <1>2, <1>3, WayIsLoop
<1> HIDE DEF b1
<1> QED
  BY <1>1, <1>2, <1>4 DEF start, xs1, n1

LEMMA CategoryImported ==
  ASSUME NEW y, NEW c, NEW d, y.categories[c].workbooks \in Seq(Nat), NEW e, e \in importCategory(y, c, d)
  PROVE  Loop("ImportNthWorkbook", y, c,
              Indices(y.categories[c].workbooks), Len(y.categories[c].workbooks),
              ImportCategory(d, c, y.categories[c].title), e)
<1> DEFINE start == ImportCategory(d, c, y.categories[c].title)
           xs1 == Indices(y.categories[c].workbooks)
           n1 == Len(y.categories[c].workbooks)
           f1 == CHOOSE f :
                   f = [i \in 0 .. n1 |-> IF i = 0 THEN start ELSE ImportNthWorkbook(y, c, f[i - 1], i)]
           b1 == f1[n1]
<1>1. e = b1
  BY DEF importCategory, Committed, Times
<1>2. n1 \in Nat /\ \A i \in 1 .. n1 : xs1[i] = i
  BY DEF Indices
<1> HIDE DEF start, xs1, n1
<1>3. Way("ImportNthWorkbook", y, c, xs1, n1, start, f1)
  <2>1. ASSUME NEW f, NEW i \in 0 .. n1, i # 0
        PROVE  Statement("ImportNthWorkbook", y, c, f[i - 1], xs1[i]) = ImportNthWorkbook(y, c, f[i - 1], i)
    <3>1. xs1[i] = i
      BY <1>2, <2>1
    <3> QED
      BY <3>1 DEF Statement
  <2>2. \A f : Way("ImportNthWorkbook", y, c, xs1, n1, start, f) <=>
               f = [i \in 0 .. n1 |-> IF i = 0 THEN start ELSE ImportNthWorkbook(y, c, f[i - 1], i)]
    BY <2>1 DEF Way
  <2> QED
    BY <1>2, <2>2, WayExists
<1> HIDE DEF f1
<1>4. Loop("ImportNthWorkbook", y, c, xs1, n1, start, b1)
  BY <1>2, <1>3, WayIsLoop
<1> HIDE DEF b1
<1> QED
  BY <1>1, <1>2, <1>4 DEF start, xs1, n1

-----------------------------------------------------------------------------
(* The importer: every transaction leaves well-shaped tables.               *)
Nothing == [appCategories |-> {}, workbooks |-> {}]
LEMMA ShapedIsKept ==
  ASSUME NEW d
  PROVE  Kept({}, Nothing, d) <=> Shaped(d)
BY DEF Kept, Nothing

LEMMA NumbersOf ==
  ASSUME NEW y, DirectoryOK(y)
  PROVE  /\ Numbers(DOMAIN y.images) /\ Numbers(DOMAIN y.questions)
         /\ Numbers(DOMAIN y.workbooks) /\ Numbers(DOMAIN y.categories)
BY DEF DirectoryOK, Numbers, Tables, IdNumbers

LEMMA CountedLoop ==
  ASSUME NEW op \in {"ImportNthChoice", "ImportNthImage", "ImportNthQuestion", "ImportNthWorkbook"},
         NEW y, NEW a, NEW s, Len(s) \in Nat, NEW b, Shaped(b), NEW r,
         Loop(op, y, a, Indices(s), Len(s), b, r)
  PROVE  Shaped(r)
<1>1. \A i \in 1 .. Len(s) : Allowed(op, a, {}, Nothing, Indices(s)[i])
  BY DEF Allowed, Indices
<1>2. op \in Statements
  BY DEF Statements
<1>3. Kept({}, Nothing, b)
  BY ShapedIsKept
<1>4. Kept({}, Nothing, r)
  BY <1>1, <1>2, <1>3, LoopKept
<1> QED
  BY <1>4, ShapedIsKept

LEMMA ImportedImages ==
  ASSUME NEW y, DirectoryOK(y), NEW d, Shaped(d), NEW e, e \in importImages(y, d)
  PROVE  Shaped(e)
<1>1. Numbers(DOMAIN y.images)
  BY NumbersOf
<1>2. ForAll("ImportImage", y, 0, DOMAIN y.images, d, e)
  BY <1>1, ImagesImported
<1>3. \A x \in DOMAIN y.images : Allowed("ImportImage", 0, {}, Nothing, x)
  BY <1>1 DEF Allowed, Numbers
<1>4. Kept({}, Nothing, d) /\ "ImportImage" \in Statements
  BY ShapedIsKept DEF Statements
<1>5. Kept({}, Nothing, e)
  BY <1>1, <1>2, <1>3, <1>4, ForAllKept
<1> QED
  BY <1>5, ShapedIsKept

LEMMA ImportedQuestion ==
  ASSUME NEW y, DirectoryOK(y), NEW q \in DOMAIN y.questions, NEW d, Shaped(d),
         NEW e, e \in importQuestion(y, q, d)
  PROVE  Shaped(e)
<1> DEFINE cs == y.questions[q].choices
           images == y.questions[q].images
           text == y.questions[q].text
           b == ImportSingleChoice(ImportQuestion(d, q), q, text)
<1>1. q \in Nat /\ cs \in Seq(STRING) /\ images \in Seq(Nat)
  BY NumbersOf DEF DirectoryOK, Numbers
<1>2. Shaped(b)
  <2>1. Kept({}, Nothing, ImportQuestion(d, q))
    BY <1>1, ShapedIsKept, QuestionsKept DEF ImportQuestion
  <2>2. Kept({}, Nothing, b)
    BY <2>1, DetailsWritten DEF ImportSingleChoice
  <2> QED
    BY <2>2, ShapedIsKept
<1>3. PICK p : /\ Loop("ImportNthChoice", y, q, Indices(cs), Len(cs), b, p)
               /\ Loop("ImportNthImage", y, q, Indices(images), Len(images), p, e)
  BY <1>1, QuestionImported
<1>4. Len(cs) \in Nat /\ Len(images) \in Nat
  BY <1>1
<1> HIDE DEF b, cs, images
<1>5. Shaped(p)
  BY <1>2, <1>3, <1>4, CountedLoop
<1> QED
  BY <1>3, <1>4, <1>5, CountedLoop

LEMMA ImportedWorkbook ==
  ASSUME NEW y, DirectoryOK(y), NEW w \in DOMAIN y.workbooks, NEW d, Shaped(d),
         NEW e, e \in importWorkbook(y, w, d)
  PROVE  Shaped(e)
<1> DEFINE qs == y.workbooks[w].questions
           title == y.workbooks[w].title
           b == ImportWorkbook(d, w, title)
           created == CreateWorkbook(d, w, title, NoCategory, TRUE)
           row == [id |-> w, title |-> title, category |-> NoCategory, published |-> TRUE]
<1>1. w \in Nat /\ qs \in Seq(Nat)
  BY NumbersOf DEF DirectoryOK, Numbers
<1>2. Shaped(created)
  <2>1. /\ Same(d, created, {"workbooks", "workbookQuestions"}) /\ d.workbooks \subseteq d.workbooks
        /\ created.workbooks = d.workbooks \cup {row}
    BY DEF CreateWorkbook, Shaped, AllTables, Same, TableNames, Serial
  <2>2. row.id = w /\ DOMAIN row = {"id", "title", "category", "published"}
    OBVIOUS
  <2> HIDE DEF created, row
  <2>3. WorkbookRows({row})
    BY <1>1, <2>2, FS_Singleton DEF WorkbookRows, NumberedRows
  <2>4. Kept({}, Nothing, d) /\ \A v \in Nothing.workbooks, r \in {row} : v.id # r.id
    BY ShapedIsKept DEF Nothing
  <2>5. Kept({}, Nothing, created)
    BY <2>1, <2>3, <2>4, WorkbookStored
  <2> QED
    BY <2>5, ShapedIsKept
<1>3. Shaped(b)
  BY <1>2 DEF ImportWorkbook
<1>4. Loop("ImportNthQuestion", y, w, Indices(qs), Len(qs), b, e) /\ Len(qs) \in Nat
  BY <1>1, WorkbookImported
<1> HIDE DEF b, qs
<1> QED
  BY <1>3, <1>4, CountedLoop

LEMMA ImportedCategory ==
  ASSUME NEW y, DirectoryOK(y), NEW c \in DOMAIN y.categories, NEW d, Shaped(d),
         NEW e, e \in importCategory(y, c, d)
  PROVE  Shaped(e)
<1> DEFINE ws == y.categories[c].workbooks
           b == ImportCategory(d, c, y.categories[c].title)
<1>1. c \in Nat /\ ws \in Seq(Nat)
  BY NumbersOf DEF DirectoryOK, Numbers
<1>2. Kept({}, Nothing, b)
  BY <1>1, ShapedIsKept, CategoryNamed DEF ImportCategory
<1>3. Loop("ImportNthWorkbook", y, c, Indices(ws), Len(ws), b, e) /\ Len(ws) \in Nat
  BY <1>1, CategoryImported
<1> HIDE DEF b, ws
<1> QED
  BY <1>2, <1>3, ShapedIsKept, CountedLoop

LEMMA ClearedData ==
  ASSUME NEW d, Shaped(d)
  PROVE  Shaped(clearData(d)) /\ clearData(d).workbooks = {}
<1> DEFINE e1 == DeleteAllWorkbookQuestions(d)
           e2 == DeleteAllWorkbooks(e1)
           e3 == DeleteAllCategories(e2)
           e4 == DeleteAllQuestionImages(e3)
           e5 == DeleteAllChoices(e4)
           e6 == DeleteAllSingleChoices(e5)
           e7 == DeleteAllQuestions(e6)
           e8 == DeleteAllImages(e7)
<1> USE DEF AllTables, TableNames, Serial
<1>1. AllTables(e1) /\ e1.seq = d.seq
  BY DEF Shaped, DeleteAllWorkbookQuestions
<1> HIDE DEF e1
<1>2. AllTables(e2) /\ e2.seq = d.seq /\ e2.workbooks = {}
  BY <1>1 DEF DeleteAllWorkbooks
<1> HIDE DEF e2
<1>3. AllTables(e3) /\ e3.seq = d.seq /\ e3.workbooks = {} /\ e3.categories = {}
  BY <1>2 DEF DeleteAllCategories
<1> HIDE DEF e3
<1>4. AllTables(e4) /\ e4.seq = d.seq /\ e4.workbooks = {} /\ e4.categories = {}
  BY <1>3 DEF DeleteAllQuestionImages
<1> HIDE DEF e4
<1>5. AllTables(e5) /\ e5.seq = d.seq /\ e5.workbooks = {} /\ e5.categories = {}
  BY <1>4 DEF DeleteAllChoices
<1> HIDE DEF e5
<1>6. AllTables(e6) /\ e6.seq = d.seq /\ e6.workbooks = {} /\ e6.categories = {}
  BY <1>5 DEF DeleteAllSingleChoices
<1> HIDE DEF e6
<1>7. /\ AllTables(e7) /\ e7.seq = d.seq /\ e7.workbooks = {} /\ e7.categories = {}
      /\ e7.questions = {}
  BY <1>6 DEF DeleteAllQuestions
<1> HIDE DEF e7
<1>8. /\ AllTables(e8) /\ e8.seq = d.seq /\ e8.workbooks = {} /\ e8.categories = {}
      /\ e8.questions = {} /\ e8.images = {}
  BY <1>7 DEF DeleteAllImages
<1>9. clearData(d) = e8
  BY DEF clearData, e1, e2, e3, e4, e5, e6, e7
<1> HIDE DEF e8
<1> QED
  BY <1>8, <1>9, FS_EmptySet DEF Shaped, Numbers, NumberedRows, WorkbookRows, CategoryRows

-----------------------------------------------------------------------------
(* The reset puts every sequence behind the rows that are there.            *)
LEMMA LargestOf ==
  ASSUME NEW S, Numbers(S)
  PROVE  Max(S) \in Nat /\ Max(S) + 1 \in Nat /\ \A s \in S : s < Max(S) + 1
<1>1. CASE S = {}
  BY <1>1 DEF Max
<1>2. CASE S # {}
  <2>1. \E m \in S : \A n \in S : n <= m
    BY <1>2, LargestExists DEF Numbers
  <2>2. Max(S) = CHOOSE m \in S : \A n \in S : n <= m
    BY <1>2 DEF Max
  <2>3. Max(S) \in S /\ \A n \in S : n <= Max(S)
    BY <2>1, <2>2
  <2>4. Max(S) \in Nat /\ \A n \in S : n \in Nat /\ n <= Max(S)
    BY <2>3 DEF Numbers
  <2> QED
    BY <2>4
<1> QED
  BY <1>1, <1>2

LEMMA IdsAreNumbers ==
  ASSUME NEW T, NumberedRows(T)
  PROVE  Numbers({r.id : r \in T})
<1> DEFINE f == [r \in T |-> r.id]
           S == {r.id : r \in T}
<1>1. f \in Surjection(T, S)
  BY DEF Surjection
<1>2. IsFiniteSet(S)
  <2> HIDE DEF f, S
  <2> QED
    BY <1>1, FS_Surjection DEF NumberedRows
<1> QED
  BY <1>2 DEF Numbers, NumberedRows

LEMMA SequencesReset ==
  ASSUME NEW d, Shaped(d)
  PROVE  LET e == resetSequences(d)
         IN  /\ Shaped(e) /\ SequencesAhead(e) /\ Same(d, e, {"seq"})
<1> DEFINE e == resetSequences(d)
           images == {m.id : m \in d.images}
           workbooks == {w.id : w \in d.workbooks}
           categories == {c.id : c \in d.categories}
<1>1. /\ Same(d, e, {"seq"}) /\ DOMAIN e.seq = DOMAIN d.seq
      /\ e.seq.questions = Max(d.questions) + 1 /\ e.seq.images = Max(images) + 1
      /\ e.seq.workbooks = Max(workbooks) + 1 /\ e.seq.categories = Max(categories) + 1
      /\ e.seq.apps = d.seq.apps /\ e.seq.announcements = d.seq.announcements
  BY DEF Shaped, AllTables, Counters, resetSequences, Same, TableNames, Serial
<1>2. /\ e.questions = d.questions /\ e.images = d.images /\ e.workbooks = d.workbooks
      /\ e.categories = d.categories /\ DOMAIN e = DOMAIN d
  BY <1>1 DEF Same, TableNames, Serial
<1> HIDE DEF e
<1>3. Numbers(d.questions) /\ Numbers(images) /\ Numbers(workbooks) /\ Numbers(categories)
  BY IdsAreNumbers DEF Shaped, WorkbookRows, CategoryRows
<1> HIDE DEF images, workbooks, categories
<1>4. /\ e.seq.questions \in Nat /\ \A q \in d.questions : q < e.seq.questions
      /\ e.seq.images \in Nat /\ \A i \in images : i < e.seq.images
      /\ e.seq.workbooks \in Nat /\ \A i \in workbooks : i < e.seq.workbooks
      /\ e.seq.categories \in Nat /\ \A i \in categories : i < e.seq.categories
  BY <1>1, <1>3, LargestOf
<1>5. Counters(e.seq)
  BY <1>1, <1>4 DEF Shaped, Counters, Serial
<1>6. SequencesAhead(e)
  BY <1>2, <1>4 DEF SequencesAhead, images, workbooks, categories
<1> QED
  BY <1>1, <1>2, <1>5, <1>6 DEF Shaped, AllTables, e

-----------------------------------------------------------------------------
(* A sync: what is in the plan, and what its transaction leaves.            *)
PlanOK(plan) ==
  \A t \in Tables : Numbers(plan[t].add) /\ Numbers(plan[t].change) /\ Numbers(plan[t].delete)
LEMMA FewerNumbers ==
  ASSUME NEW S, Numbers(S), NEW T, T \subseteq S
  PROVE  Numbers(T)
BY FS_Subset DEF Numbers
LEMMA MoreNumbers ==
  ASSUME NEW S, Numbers(S), NEW T, Numbers(T)
  PROVE  Numbers(S \cup T)
BY FS_Union DEF Numbers

LEMMA AppliedKeeps ==
  ASSUME NEW y, NEW plan, PlanOK(plan), plan.categories.delete \cap DOMAIN y.categories = {},
         NEW d, Shaped(d), Keyed(d.workbooks), NEW e, e \in applied(y, plan, d)
  PROVE  /\ Kept(DOMAIN y.categories, d, e)
         /\ SequencesAhead(e) /\ ConstraintsHold(e)
<1> DEFINE C == DOMAIN y.categories
           S == plan.images.add \cup (plan.images.change \cap DOMAIN loadImagesDB(d))
           T == plan.categories.add \cup plan.categories.change \cup plan.categories.delete
           b1 == applyImages(y, plan.images, d)
           b2 == applyQuestions(y, plan.questions, b1)
           b3 == applyCategories(y, plan.categories, b2)
<1>1. PICK category : /\ e = resetSequences(applyWorkbooks(y, category, plan.workbooks, b3))
                      /\ ConstraintsHold(e)
                      /\ plan.workbooks.add \cap DOMAIN WorkbookTitles(d) = {}
  <2>1. /\ e \in {after \in {resetSequences(b) : b \in
                    {applyWorkbooks(y, category, plan.workbooks, b3) : category \in buildCategoryMap(y)}} :
                    ConstraintsHold(after)}
        /\ plan.workbooks.add \cap DOMAIN WorkbookTitles(d) = {}
    BY DEF applied, Tables
  <2> HIDE DEF b3
  <2> QED
    BY <2>1
<1>2. \A t \in Tables : Numbers(plan[t].add) /\ Numbers(plan[t].change) /\ Numbers(plan[t].delete)
  BY DEF PlanOK
<1>3. /\ Numbers(plan.images.add) /\ Numbers(plan.images.change) /\ Numbers(plan.images.delete)
      /\ Numbers(plan.questions.add) /\ Numbers(plan.questions.change) /\ Numbers(plan.questions.delete)
      /\ Numbers(plan.workbooks.add) /\ Numbers(plan.workbooks.change) /\ Numbers(plan.workbooks.delete)
      /\ Numbers(plan.categories.add) /\ Numbers(plan.categories.change) /\ Numbers(plan.categories.delete)
  BY <1>2 DEF Tables
<1>4. Numbers(S) /\ Numbers(T)
  <2>1. Numbers(plan.images.change \cap DOMAIN loadImagesDB(d))
    BY <1>3, FewerNumbers
  <2>2. Numbers(plan.categories.add \cup plan.categories.change)
    BY <1>3, MoreNumbers
  <2> QED
    BY <1>3, <2>1, <2>2, MoreNumbers
<1>5. \A op : (op # "SyncCategory" /\ op # "AddWorkbook") =>
               \A a, X : Numbers(X) => \A x \in X : Allowed(op, a, C, d, x)
  BY DEF Allowed, Numbers
<1>6. Kept(C, d, d)
  BY DEF Kept, Keyed
<1>7. Kept(C, d, b1)
  <2>1. PICK p : /\ ForAll("PutImage", y, 0, S, d, p)
                 /\ ForAll("DropImage", y, 0, plan.images.delete, p, b1)
    BY <1>3, <1>4, ImagesApplied
  <2> HIDE DEF S, b1
  <2>2. Kept(C, d, p)
    BY <1>4, <1>5, <1>6, <2>1, ForAllKept DEF Statements
  <2> QED
    BY <1>3, <1>5, <2>1, <2>2, ForAllKept DEF Statements
<1>8. Kept(C, d, b2)
  <2> HIDE DEF b1
  <2>1. PICK p, q : /\ ForAll("DeleteQuestion", y, 0, plan.questions.delete, b1, p)
                    /\ ForAll("AddQuestion", y, 0, plan.questions.add, p, q)
                    /\ ForAll("ChangeQuestion", y, 0, plan.questions.change, q, b2)
    BY <1>3, QuestionsApplied
  <2> HIDE DEF b2
  <2>2. Kept(C, d, p)
    BY <1>3, <1>5, <1>7, <2>1, ForAllKept DEF Statements
  <2>3. Kept(C, d, q)
    BY <1>3, <1>5, <2>1, <2>2, ForAllKept DEF Statements
  <2> QED
    BY <1>3, <1>5, <2>1, <2>3, ForAllKept DEF Statements
<1>9. Kept(C, d, b3)
  <2> HIDE DEF b2
  <2>1. ForAll("SyncCategory", y, plan.categories, T, b2, b3)
    BY <1>4, CategoriesApplied
  <2>2. \A x \in T : Allowed("SyncCategory", plan.categories, C, d, x)
    BY <1>4 DEF Allowed, Numbers
  <2> HIDE DEF b3, T
  <2> QED
    BY <1>4, <1>8, <2>1, <2>2, ForAllKept DEF Statements
<1> DEFINE b4 == applyWorkbooks(y, category, plan.workbooks, b3)
<1>10. Kept(C, d, b4)
  <2> HIDE DEF b3
  <2>1. PICK p, q : /\ ForAll("DeleteWorkbook", y, category, plan.workbooks.delete, b3, p)
                    /\ ForAll("AddWorkbook", y, category, plan.workbooks.add, p, q)
                    /\ ForAll("ChangeWorkbook", y, category, plan.workbooks.change, q, b4)
    BY <1>3, WorkbooksApplied
  <2>2. \A x \in plan.workbooks.add : Allowed("AddWorkbook", category, C, d, x)
    BY <1>1, <1>3 DEF Allowed, Numbers, WorkbookTitles, Rows
  <2> HIDE DEF b4
  <2>3. Kept(C, d, p)
    BY <1>3, <1>5, <1>9, <2>1, ForAllKept DEF Statements
  <2>4. Kept(C, d, q)
    BY <1>3, <2>1, <2>2, <2>3, ForAllKept DEF Statements
  <2> QED
    BY <1>3, <1>5, <2>1, <2>4, ForAllKept DEF Statements
<1>11. e = resetSequences(b4) /\ ConstraintsHold(e)
  BY <1>1
<1> HIDE DEF b4
<1>12. Shaped(e) /\ SequencesAhead(e) /\ Same(b4, e, {"seq"})
  BY <1>10, <1>11, SequencesReset DEF Kept
<1>13. e.appCategories = b4.appCategories /\ e.workbooks = b4.workbooks
  BY <1>12 DEF Same, TableNames, Serial
<1> QED
  BY <1>10, <1>11, <1>12, <1>13 DEF Kept

-----------------------------------------------------------------------------
(* The administration: whatever it writes, the tables stay well-shaped,     *)
(* workbooks keep their key, and sequences that were ahead stay ahead.      *)
Workable(d) == Shaped(d) /\ Keyed(d.workbooks)
Follows(d, e) == Workable(e) /\ (SequencesAhead(d) => SequencesAhead(e))
LEMMA FollowsTwice ==
  ASSUME NEW d, NEW e, Follows(d, e), NEW g, Follows(e, g)
  PROVE  Follows(d, g)
BY DEF Follows

LEMMA FollowsWhen ==
  ASSUME NEW d, Workable(d), NEW e, Shaped(e), Keyed(e.workbooks),
         \A t \in DOMAIN d.seq : d.seq[t] <= e.seq[t],
         \A q \in e.questions : q \in d.questions \/ q < e.seq.questions,
         \A m \in e.images : (\E n \in d.images : n.id = m.id) \/ m.id < e.seq.images,
         \A w \in e.workbooks : (\E v \in d.workbooks : v.id = w.id) \/ w.id < e.seq.workbooks,
         \A c \in e.categories : (\E k \in d.categories : k.id = c.id) \/ c.id < e.seq.categories
  PROVE  Follows(d, e)
<1>1. SUFFICES ASSUME SequencesAhead(d) PROVE SequencesAhead(e)
  BY DEF Follows, Workable
<1>2. \A t \in {"questions", "images", "workbooks", "categories"} :
        d.seq[t] \in Nat /\ e.seq[t] \in Nat /\ d.seq[t] <= e.seq[t]
  BY DEF Workable, Shaped, Counters, Serial
<1>3. /\ d.seq.questions \in Nat /\ e.seq.questions \in Nat /\ d.seq.questions <= e.seq.questions
      /\ d.seq.images \in Nat /\ e.seq.images \in Nat /\ d.seq.images <= e.seq.images
      /\ d.seq.workbooks \in Nat /\ e.seq.workbooks \in Nat /\ d.seq.workbooks <= e.seq.workbooks
      /\ d.seq.categories \in Nat /\ e.seq.categories \in Nat /\ d.seq.categories <= e.seq.categories
  BY <1>2
<1>4. /\ \A q \in d.questions : q \in Nat
      /\ \A t \in {"images", "workbooks", "categories"} : \A r \in d[t] : r.id \in Nat
  BY DEF Workable, Shaped, Numbers, NumberedRows, WorkbookRows, CategoryRows
<1>5. \A q \in e.questions : q < e.seq.questions
  BY <1>1, <1>3, <1>4 DEF SequencesAhead
<1>6. \A m \in e.images : m.id < e.seq.images
  BY <1>1, <1>3, <1>4 DEF SequencesAhead
<1>7. \A w \in e.workbooks : w.id < e.seq.workbooks
  BY <1>1, <1>3, <1>4 DEF SequencesAhead
<1>8. \A c \in e.categories : c.id < e.seq.categories
  BY <1>1, <1>3, <1>4 DEF SequencesAhead
<1> QED
  BY <1>5, <1>6, <1>7, <1>8 DEF SequencesAhead

LEMMA DrawnFollows ==
  ASSUME NEW d, Workable(d), NEW table \in Serial \cup {"questions"}
  PROVE  LET e == NextVal(d, table)
         IN  /\ Follows(d, e) /\ Same(d, e, {"seq"}) /\ DOMAIN e.seq = DOMAIN d.seq
             /\ e.seq[table] = d.seq[table] + 1 /\ d.seq[table] \in Nat
<1> DEFINE e == NextVal(d, table)
<1>1. /\ Same(d, e, {"seq"}) /\ DOMAIN e.seq = DOMAIN d.seq /\ table \in DOMAIN d.seq
      /\ e.seq[table] = d.seq[table] + 1 /\ \A t \in DOMAIN d.seq : t # table => e.seq[t] = d.seq[t]
  BY DEF Workable, Shaped, AllTables, Counters, NextVal, Same, TableNames, Serial
<1> HIDE DEF e
<1>2. \A t \in DOMAIN d.seq : d.seq[t] \in Nat
  BY DEF Workable, Shaped, Counters
<1>3. \A t \in DOMAIN d.seq : e.seq[t] \in Nat /\ d.seq[t] <= e.seq[t]
  BY <1>1, <1>2
<1>4. /\ e.questions = d.questions /\ e.images = d.images /\ e.workbooks = d.workbooks
      /\ e.categories = d.categories /\ DOMAIN e = DOMAIN d
  BY <1>1 DEF Same, TableNames, Serial
<1>5. Shaped(e) /\ Keyed(e.workbooks)
  BY <1>1, <1>3, <1>4 DEF Workable, Shaped, AllTables, Counters
<1>6. Follows(d, e)
  BY <1>3, <1>4, <1>5, FollowsWhen
<1> QED
  BY <1>1, <1>2, <1>6 DEF e

LEMMA DetailsFollow ==
  ASSUME NEW d, Workable(d), NEW id, NEW x, NEW s
  PROVE  /\ Follows(d, CreateSingleChoice(d, id, x)) /\ Follows(d, UpdateSingleChoice(d, id, x))
         /\ Follows(d, CreateChoice(d, id, s)) /\ Follows(d, DeleteChoicesByQuestionID(d, id))
         /\ Follows(d, CreateQuestionImage(d, id, s)) /\ Follows(d, DeleteQuestionImages(d, id))
         /\ Follows(d, bulkInsertWorkbookQuestions(d, id, s))
         /\ Follows(d, DeleteWorkbookQuestions(d, id))
<1> DEFINE Touches(e) == Same(d, e, Details)
<1>1. ASSUME NEW e, Touches(e) PROVE Follows(d, e)
  <2>1. /\ e.questions = d.questions /\ e.images = d.images /\ e.workbooks = d.workbooks
        /\ e.categories = d.categories /\ e.seq = d.seq
    BY <1>1 DEF Same, Details, TableNames, Serial
  <2>2. Shaped(e)
    BY <1>1, DetailsOnly, ShapedIsKept DEF Workable
  <2> QED
    BY <2>1, <2>2 DEF Follows, Workable, SequencesAhead
<1>2. AllTables(d)
  BY DEF Workable, Shaped
<1> USE DEF AllTables, Same, Details, TableNames, Serial
<1>3. Touches(CreateSingleChoice(d, id, x)) /\ Touches(UpdateSingleChoice(d, id, x))
  BY <1>2 DEF CreateSingleChoice, UpdateSingleChoice
<1>4. Touches(CreateChoice(d, id, s)) /\ Touches(DeleteChoicesByQuestionID(d, id))
  BY <1>2 DEF CreateChoice, DeleteChoicesByQuestionID
<1>5. Touches(CreateQuestionImage(d, id, s)) /\ Touches(DeleteQuestionImages(d, id))
  BY <1>2 DEF CreateQuestionImage, DeleteQuestionImages
<1>6. Touches(bulkInsertWorkbookQuestions(d, id, s)) /\ Touches(DeleteWorkbookQuestions(d, id))
  BY <1>2 DEF bulkInsertWorkbookQuestions, DeleteWorkbookQuestions
<1> HIDE DEF Touches
<1> QED
  BY <1>1, <1>3, <1>4, <1>5, <1>6

LEMMA QuestionEdited ==
  ASSUME NEW d, Workable(d), NEW q, NEW b
  PROVE  /\ Follows(d, AdminCreateQuestion(d, b)) /\ Follows(d, AdminUpdateQuestion(d, q, b))
         /\ q \in d.questions => Follows(d, AdminDeleteQuestion(d, q))
<1>1. Follows(d, d)
  BY DEF Follows
<1>2. Follows(d, AdminCreateQuestion(d, b))
  <2> DEFINE id == d.seq.questions
             drawn == NextVal(d, "questions")
             e1 == CreateQuestion(drawn, id)
             e2 == CreateSingleChoice(e1, id, b.text)
             e3 == CreateChoice(e2, id, b.choices)
             e4 == CreateQuestionImage(e3, id, b.images)
  <2>1. /\ Follows(d, drawn) /\ Same(d, drawn, {"seq"}) /\ drawn.seq.questions = id + 1 /\ id \in Nat
    BY DrawnFollows
  <2>2. AdminCreateQuestion(d, b) \in {d, drawn, e4}
    BY DEF AdminCreateQuestion
  <2> HIDE DEF id, drawn
  <2>3. Same(drawn, e1, {"questions"}) /\ e1.questions = drawn.questions \cup {id}
    BY <2>1 DEF Follows, Workable, Shaped, AllTables, CreateQuestion, Same, TableNames, Serial
  <2>4. Shaped(e1)
    BY <2>1, ShapedIsKept, QuestionsKept DEF Follows, Workable
  <2> HIDE DEF e1
  <2>5. /\ e1.images = drawn.images /\ e1.workbooks = drawn.workbooks
        /\ e1.categories = drawn.categories /\ e1.seq = drawn.seq
    BY <2>3 DEF Same, TableNames, Serial
  <2>6. Workable(e1) /\ id < e1.seq.questions
    BY <2>1, <2>4, <2>5 DEF Follows, Workable
  <2>7. Follows(drawn, e1)
    BY <2>1, <2>3, <2>5, <2>6 DEF Follows, SequencesAhead
  <2>8. Follows(e1, e2)
    BY <2>6, DetailsFollow
  <2> HIDE DEF e2
  <2>9. Follows(e2, e3)
    BY <2>8, DetailsFollow DEF Follows
  <2> HIDE DEF e3
  <2>10. Follows(e3, e4)
    BY <2>9, DetailsFollow DEF Follows
  <2> HIDE DEF e4
  <2>11. Follows(d, e4)
    BY <2>1, <2>7, <2>8, <2>9, <2>10, FollowsTwice
  <2> QED
    BY <1>1, <2>1, <2>2, <2>11
<1>3. Follows(d, AdminUpdateQuestion(d, q, b))
  <2> DEFINE e1 == UpdateSingleChoice(d, q, b.text)
             e2 == DeleteChoicesByQuestionID(e1, q)
             e3 == CreateChoice(e2, q, b.choices)
             e4 == DeleteQuestionImages(e3, q)
             e5 == CreateQuestionImage(e4, q, b.images)
  <2>1. AdminUpdateQuestion(d, q, b) \in {d, e5}
    BY DEF AdminUpdateQuestion
  <2>2. Follows(d, e1)
    BY DetailsFollow
  <2> HIDE DEF e1
  <2>3. Follows(e1, e2)
    BY <2>2, DetailsFollow DEF Follows
  <2> HIDE DEF e2
  <2>4. Follows(e2, e3)
    BY <2>3, DetailsFollow DEF Follows
  <2> HIDE DEF e3
  <2>5. Follows(e3, e4)
    BY <2>4, DetailsFollow DEF Follows
  <2> HIDE DEF e4
  <2>6. Follows(e4, e5)
    BY <2>5, DetailsFollow DEF Follows
  <2> HIDE DEF e5
  <2>7. Follows(d, e5)
    BY <2>2, <2>3, <2>4, <2>5, <2>6, FollowsTwice
  <2> QED
    BY <1>1, <2>1, <2>7
<1>4. ASSUME q \in d.questions PROVE Follows(d, AdminDeleteQuestion(d, q))
  <2> DEFINE e == DeleteQuestion(d, q)
  <2>1. /\ e.questions \subseteq d.questions /\ e.images = d.images /\ e.workbooks = d.workbooks
        /\ e.categories = d.categories /\ e.seq = d.seq
    BY DEF Workable, Shaped, AllTables, DeleteQuestion, TableNames, Serial
  <2>2. q \in Nat
    BY <1>4 DEF Workable, Shaped, Numbers
  <2>3. Shaped(e)
    BY <2>2, ShapedIsKept, QuestionsKept DEF Workable
  <2> HIDE DEF e
  <2>4. Follows(d, e)
    BY <2>1, <2>3 DEF Follows, Workable, SequencesAhead
  <2> QED
    BY <2>4 DEF AdminDeleteQuestion, e
<1> QED
  BY <1>2, <1>3, <1>4

LEMMA WorkbookEdited ==
  ASSUME NEW d, Workable(d), NEW w \in d.workbooks, NEW b
  PROVE  /\ Follows(d, AdminUpdateWorkbook(d, w.id, b))
         /\ Follows(d, AdminDeleteWorkbook(d, w.id))
<1> DEFINE id == w.id
<1>1. WorkbookRows(d.workbooks) /\ AllTables(d)
  BY DEF Workable, Shaped
<1>2. id \in Nat
  BY <1>1 DEF WorkbookRows, NumberedRows
<1>3. Follows(d, AdminUpdateWorkbook(d, id, b))
  <2> DEFINE row == [id |-> id, title |-> b.title, category |-> b.category, published |-> IsPublished(b)]
             R == {v \in d.workbooks : v.id # id}
             e1 == UpdateWorkbook(d, id, b.title, b.category, IsPublished(b))
             e2 == DeleteWorkbookQuestions(e1, id)
             e3 == bulkInsertWorkbookQuestions(e2, id, b.questions)
  <2>1. AdminUpdateWorkbook(d, id, b) \in {d, e3}
    BY DEF AdminUpdateWorkbook
  <2>2. WorkbookExists(d, id)
    BY DEF WorkbookExists
  <2>3. Same(d, e1, {"workbooks", "workbookQuestions"}) /\ e1.workbooks = R \cup {row}
    BY <1>1, <2>2 DEF UpdateWorkbook, AllTables, Same, TableNames, Serial
  <2>4. row.id = id /\ DOMAIN row = {"id", "title", "category", "published"}
    OBVIOUS
  <2>5. R \subseteq d.workbooks /\ \A v \in R : v.id # id
    OBVIOUS
  <2> HIDE DEF R, row, e1
  <2>6. WorkbookRows({row})
    BY <1>2, <2>4, FS_Singleton DEF WorkbookRows, NumberedRows
  <2>7. Shaped(e1)
    <3>1. Kept({}, Nothing, d) /\ \A v \in Nothing.workbooks, r \in {row} : v.id # r.id
      BY ShapedIsKept DEF Workable, Nothing
    <3>2. Kept({}, Nothing, e1)
      BY <2>3, <2>5, <2>6, <3>1, WorkbookStored
    <3> QED
      BY <3>2, ShapedIsKept
  <2>8. Keyed(e1.workbooks)
    BY <2>3, <2>4, <2>5 DEF Workable, Keyed
  <2>9. /\ e1.questions = d.questions /\ e1.images = d.images
        /\ e1.categories = d.categories /\ e1.seq = d.seq
    BY <2>3 DEF Same, TableNames, Serial
  <2>10. \A v \in e1.workbooks : \E u \in d.workbooks : v.id = u.id
    BY <2>3, <2>4, <2>5
  <2>11. Follows(d, e1)
    BY <2>7, <2>8, <2>9, <2>10 DEF Follows, Workable, SequencesAhead
  <2>12. Follows(e1, e2)
    BY <2>11, DetailsFollow DEF Follows
  <2> HIDE DEF e2
  <2>13. Follows(e2, e3)
    BY <2>12, DetailsFollow DEF Follows
  <2> HIDE DEF e3
  <2>14. Follows(d, e3) /\ Follows(d, d)
    BY <2>11, <2>12, <2>13, FollowsTwice DEF Follows
  <2> QED
    BY <2>1, <2>14
<1>4. Follows(d, AdminDeleteWorkbook(d, id))
  <2> DEFINE e == DeleteWorkbook(d, id)
  <2>1. /\ e.workbooks \subseteq d.workbooks /\ e.questions = d.questions /\ e.images = d.images
        /\ e.categories = d.categories /\ e.seq = d.seq
    BY <1>1 DEF AllTables, DeleteWorkbook, TableNames, Serial
  <2>2. Shaped(e)
    BY <1>2, ShapedIsKept, WorkbooksKept DEF Workable
  <2> HIDE DEF e
  <2>3. Follows(d, e)
    BY <2>1, <2>2 DEF Follows, Workable, SequencesAhead, Keyed
  <2> QED
    BY <2>3 DEF AdminDeleteWorkbook, e
<1> QED
  BY <1>3, <1>4

(* A new row takes the number that was drawn, if no row has it.             *)
LEMMA WorkbookNew ==
  ASSUME NEW d, Workable(d), NEW b
  PROVE  Follows(d, AdminCreateWorkbook(d, b))
<1> DEFINE id == d.seq.workbooks
           drawn == NextVal(d, "workbooks")
           row == [id |-> id, title |-> b.title, category |-> b.category, published |-> IsPublished(b)]
           e1 == CreateWorkbook(drawn, id, b.title, b.category, IsPublished(b))
           e2 == bulkInsertWorkbookQuestions(e1, id, b.questions)
<1>1. /\ Follows(d, drawn) /\ Same(d, drawn, {"seq"}) /\ drawn.seq.workbooks = id + 1 /\ id \in Nat
  BY DrawnFollows DEF Serial
<1>2. \/ AdminCreateWorkbook(d, b) = drawn
      \/ AdminCreateWorkbook(d, b) = e2 /\ ~WorkbookExists(d, id)
  BY DEF AdminCreateWorkbook
<1>3. row.id = id /\ DOMAIN row = {"id", "title", "category", "published"}
  OBVIOUS
<1> HIDE DEF id, drawn
<1>4. ASSUME ~WorkbookExists(d, id) PROVE Follows(d, e2)
  <2>1. /\ Same(drawn, e1, {"workbooks", "workbookQuestions"})
        /\ e1.workbooks = drawn.workbooks \cup {row} /\ drawn.workbooks = d.workbooks
    BY <1>1 DEF Follows, Workable, Shaped, AllTables, CreateWorkbook, Same, TableNames, Serial
  <2> HIDE DEF row, e1
  <2>2. WorkbookRows({row})
    BY <1>1, <1>3, FS_Singleton DEF WorkbookRows, NumberedRows
  <2>3. Shaped(e1)
    <3>1. Kept({}, Nothing, drawn) /\ \A v \in Nothing.workbooks, r \in {row} : v.id # r.id
      BY <1>1, ShapedIsKept DEF Follows, Workable, Nothing
    <3>2. drawn.workbooks \subseteq drawn.workbooks
      OBVIOUS
    <3>3. Kept({}, Nothing, e1)
      BY <2>1, <2>2, <3>1, <3>2, WorkbookStored
    <3> QED
      BY <3>3, ShapedIsKept
  <2>4. Keyed(e1.workbooks)
    BY <1>1, <1>3, <1>4, <2>1 DEF Workable, Keyed, WorkbookExists
  <2>5. /\ e1.questions = drawn.questions /\ e1.images = drawn.images
        /\ e1.categories = drawn.categories /\ e1.seq = drawn.seq
    BY <2>1 DEF Same, TableNames, Serial
  <2>6. row.id < e1.seq.workbooks
    BY <1>1, <1>3, <2>5
  <2>7. Follows(drawn, e1)
    BY <2>1, <2>3, <2>4, <2>5, <2>6 DEF Follows, Workable, SequencesAhead
  <2>8. Follows(e1, e2)
    BY <2>7, DetailsFollow DEF Follows
  <2> HIDE DEF e2
  <2> QED
    BY <1>1, <2>7, <2>8, FollowsTwice
<1> QED
  BY <1>1, <1>2, <1>4

LEMMA CategoryEdited ==
  ASSUME NEW d, Workable(d), NEW title, NEW id
  PROVE  /\ Follows(d, AdminCreateCategory(d, title)) /\ Follows(d, AdminDeleteCategory(d, id))
<1>1. Follows(d, AdminCreateCategory(d, title))
  <2> DEFINE new == d.seq.categories
             drawn == NextVal(d, "categories")
             row == [id |-> new, title |-> title]
             e == CreateCategory(drawn, new, title)
  <2>1. /\ Follows(d, drawn) /\ drawn.seq.categories = new + 1 /\ new \in Nat
    BY DrawnFollows DEF Serial
  <2>2. AdminCreateCategory(d, title) \in {drawn, e}
    BY DEF AdminCreateCategory
  <2> HIDE DEF drawn, new
  <2>3. Same(drawn, e, {"categories"}) /\ e.categories = drawn.categories \cup {row}
    BY <2>1 DEF Follows, Workable, Shaped, AllTables, CreateCategory, Same, TableNames, Serial
  <2>4. Shaped(e)
    BY <2>1, ShapedIsKept, CategoryNamed DEF Follows, Workable
  <2>5. row.id = new
    OBVIOUS
  <2> HIDE DEF e, row
  <2>6. /\ e.questions = drawn.questions /\ e.images = drawn.images
        /\ e.workbooks = drawn.workbooks /\ e.seq = drawn.seq
    BY <2>3 DEF Same, TableNames, Serial
  <2>7. row.id < e.seq.categories
    BY <2>1, <2>5, <2>6
  <2>8. Workable(e)
    BY <2>1, <2>4, <2>6 DEF Follows, Workable
  <2>9. Follows(drawn, e)
    BY <2>3, <2>6, <2>7, <2>8 DEF Follows, SequencesAhead
  <2> QED
    BY <2>1, <2>2, <2>9, FollowsTwice
<1>2. Follows(d, AdminDeleteCategory(d, id))
  <2> DEFINE e == DeleteCategory(d, id)
             New(w) == IF w.category = id THEN [w EXCEPT !.category = NoCategory] ELSE w
  <2>1. /\ e.categories \subseteq d.categories /\ e.workbooks = {New(w) : w \in d.workbooks}
        /\ e.questions = d.questions /\ e.images = d.images /\ e.seq = d.seq
    BY DEF Workable, Shaped, AllTables, DeleteCategory, TableNames, Serial
  <2>2. \A w \in d.workbooks : New(w).id = w.id
    BY DEF Workable, Shaped, WorkbookRows
  <2>3. Shaped(e)
    BY ShapedIsKept, CategoryGone DEF Workable
  <2> HIDE DEF e, New
  <2>4. Keyed(e.workbooks) /\ \A v \in e.workbooks : \E w \in d.workbooks : v.id = w.id
    BY <2>1, <2>2 DEF Workable, Keyed
  <2>5. Follows(d, e)
    BY <2>1, <2>3, <2>4 DEF Follows, Workable, SequencesAhead
  <2> QED
    BY <2>5 DEF AdminDeleteCategory, e
<1> QED
  BY <1>1, <1>2

LEMMA ImageUploaded ==
  ASSUME NEW d, Workable(d), NEW path
  PROVE  Follows(d, CreatePresignedUrl(d, path))
<1> DEFINE id == d.seq.images
           drawn == NextVal(d, "images")
           row == [id |-> id, path |-> path]
           e == CreateImage(drawn, id, path)
<1>1. /\ Follows(d, drawn) /\ drawn.seq.images = id + 1 /\ id \in Nat
  BY DrawnFollows DEF Serial
<1>2. CreatePresignedUrl(d, path) \in {drawn, e}
  BY DEF CreatePresignedUrl
<1> HIDE DEF drawn, id
<1>3. Same(drawn, e, {"images", "questionImages"}) /\ e.images = drawn.images \cup {row}
  BY <1>1 DEF Follows, Workable, Shaped, AllTables, CreateImage, Same, TableNames, Serial
<1> HIDE DEF e
<1>4. Shaped(e)
  <2>1. Kept({}, Nothing, drawn) /\ drawn.images \subseteq drawn.images
    BY <1>1, ShapedIsKept DEF Follows, Workable
  <2>2. e.images = drawn.images \cup {[id |-> id, path |-> path]}
    BY <1>3
  <2>3. Kept({}, Nothing, e)
    BY <1>1, <1>3, <2>1, <2>2, ImageStored
  <2> QED
    BY <2>3, ShapedIsKept
<1>5. row.id = id
  OBVIOUS
<1> HIDE DEF row
<1>6. /\ e.questions = drawn.questions /\ e.categories = drawn.categories
      /\ e.workbooks = drawn.workbooks /\ e.seq = drawn.seq
  BY <1>3 DEF Same, TableNames, Serial
<1>7. row.id < e.seq.images
  BY <1>1, <1>5, <1>6
<1>8. Workable(e)
  BY <1>1, <1>4, <1>6 DEF Follows, Workable
<1>9. Follows(drawn, e)
  BY <1>3, <1>6, <1>7, <1>8 DEF Follows, SequencesAhead
<1> QED
  BY <1>1, <1>2, <1>9, FollowsTwice

-----------------------------------------------------------------------------
(* What the plan has read, and what it finds in it.                         *)
Queried(read) ==
  IsSequence(read) /\ Len(read) \in 0 .. Queries /\ \A i \in DOMAIN read : Numbers(DOMAIN read[i])
LEMMA QueryShape ==
  ASSUME Shaped(db), NEW n \in 1 .. Queries
  PROVE  Numbers(DOMAIN Query(n))
<1>1. /\ Numbers(db.questions) /\ Numbers({m.id : m \in db.images})
      /\ Numbers({w.id : w \in db.workbooks}) /\ Numbers({c.id : c \in db.categories})
  BY IdsAreNumbers DEF Shaped, WorkbookRows, CategoryRows
<1>2. n \in {1, 2, 3, 4, 5, 6, 7, 8}
  BY DEF Queries
<1>3. DOMAIN loadImagesDB(db) = {m.id : m \in db.images}
  BY DEF loadImagesDB, Rows
<1>4. /\ DOMAIN QuestionTexts(db) = db.questions /\ DOMAIN QuestionChoices(db) = db.questions
      /\ DOMAIN QuestionImageIds(db) = db.questions
  BY DEF QuestionTexts, QuestionChoices, QuestionImageIds
<1>5. /\ DOMAIN WorkbookTitles(db) = {w.id : w \in db.workbooks}
      /\ DOMAIN WorkbookQuestionIds(db) = {w.id : w \in db.workbooks}
  BY DEF WorkbookTitles, WorkbookQuestionIds, Rows
<1>6. /\ DOMAIN CategoryTitles(db) = {c.id : c \in db.categories}
      /\ DOMAIN CategoryWorkbookIds(db) = {c.id : c \in db.categories}
  BY DEF CategoryTitles, CategoryWorkbookIds, Rows
<1>7. Query(n) \in {loadImagesDB(db), QuestionTexts(db), QuestionChoices(db), QuestionImageIds(db),
                    WorkbookTitles(db), WorkbookQuestionIds(db), CategoryTitles(db),
                    CategoryWorkbookIds(db)}
  BY <1>2 DEF Query
<1> QED
  BY <1>1, <1>3, <1>4, <1>5, <1>6, <1>7

LEMMA OneMoreQuery ==
  ASSUME NEW read, Queried(read), Len(read) < Queries, NEW answer, Numbers(DOMAIN answer)
  PROVE  Queried(Append(read, answer))
<1> DEFINE T == {read[i] : i \in DOMAIN read} \cup {answer}
           n == Len(read)
           more == Append(read, answer)
<1>1. read \in Seq(T) /\ n \in Nat /\ DOMAIN read = 1 .. n /\ n < Queries
  BY DEF Queried, IsSequence
<1>2. \A f \in T : Numbers(DOMAIN f)
  BY DEF Queried
<1> HIDE DEF T
<1>3. answer \in T
  BY DEF T
<1>4. more \in Seq(T) /\ Len(more) = n + 1
  BY <1>1, <1>3
<1> HIDE DEF more, n
<1>5. /\ n + 1 \in 0 .. Queries /\ DOMAIN more = 1 .. n + 1
      /\ \A i \in 1 .. n + 1 : more[i] \in T
  BY <1>1, <1>4 DEF Queries
<1>6. IsSequence(more)
  <2>1. more = [i \in 1 .. n + 1 |-> more[i]] /\ n + 1 \in Nat
    BY <1>1, <1>4
  <2> QED
    BY <2>1, FunctionIsSequence
<1> QED
  BY <1>2, <1>4, <1>5, <1>6 DEF Queried, more

LEMMA DiffNumbers ==
  ASSUME NEW y, DirectoryOK(y), NEW have, Numbers(DOMAIN have)
  PROVE  /\ LET d == planImages(y, have) IN Numbers(d.add) /\ Numbers(d.change) /\ Numbers(d.delete)
         /\ LET d == planQuestions(y, have) IN Numbers(d.add) /\ Numbers(d.change) /\ Numbers(d.delete)
         /\ LET d == planWorkbooks(y, have) IN Numbers(d.add) /\ Numbers(d.change) /\ Numbers(d.delete)
         /\ LET d == planCategories(y, have)
            IN  /\ Numbers(d.add) /\ Numbers(d.change) /\ Numbers(d.delete)
                /\ d.delete \cap DOMAIN y.categories = {}
<1>1. /\ Numbers(DOMAIN y.images) /\ Numbers(DOMAIN y.questions)
      /\ Numbers(DOMAIN y.workbooks) /\ Numbers(DOMAIN y.categories)
  BY NumbersOf
<1>2. \A S : S \subseteq DOMAIN have => Numbers(S)
  BY FewerNumbers
<1>3. LET d == planImages(y, have) IN Numbers(d.add) /\ Numbers(d.change) /\ Numbers(d.delete)
  <2> DEFINE d == planImages(y, have)
  <2>1. d.add \subseteq DOMAIN y.images /\ d.change \subseteq DOMAIN have /\ d.delete \subseteq DOMAIN have
    BY DEF planImages, Diff
  <2> HIDE DEF d
  <2>2. Numbers(d.add) /\ Numbers(d.change) /\ Numbers(d.delete)
    BY <1>1, <1>2, <2>1, FewerNumbers
  <2> QED
    BY <2>2 DEF d
<1>4. LET d == planQuestions(y, have) IN Numbers(d.add) /\ Numbers(d.change) /\ Numbers(d.delete)
  <2> DEFINE d == planQuestions(y, have)
  <2>1. d.add \subseteq DOMAIN y.questions /\ d.change \subseteq DOMAIN have /\ d.delete \subseteq DOMAIN have
    BY DEF planQuestions, Diff
  <2> HIDE DEF d
  <2>2. Numbers(d.add) /\ Numbers(d.change) /\ Numbers(d.delete)
    BY <1>1, <1>2, <2>1, FewerNumbers
  <2> QED
    BY <2>2 DEF d
<1>5. LET d == planWorkbooks(y, have) IN Numbers(d.add) /\ Numbers(d.change) /\ Numbers(d.delete)
  <2> DEFINE d == planWorkbooks(y, have)
  <2>1. d.add \subseteq DOMAIN y.workbooks /\ d.change \subseteq DOMAIN have /\ d.delete \subseteq DOMAIN have
    BY DEF planWorkbooks, Diff
  <2> HIDE DEF d
  <2>2. Numbers(d.add) /\ Numbers(d.change) /\ Numbers(d.delete)
    BY <1>1, <1>2, <2>1, FewerNumbers
  <2> QED
    BY <2>2 DEF d
<1>6. LET d == planCategories(y, have)
      IN  /\ Numbers(d.add) /\ Numbers(d.change) /\ Numbers(d.delete)
          /\ d.delete \cap DOMAIN y.categories = {}
  <2> DEFINE d == planCategories(y, have)
  <2>1. /\ d.add \subseteq DOMAIN y.categories /\ d.change \subseteq DOMAIN have
        /\ d.delete = DOMAIN have \ DOMAIN y.categories
    BY DEF planCategories, Diff
  <2> HIDE DEF d
  <2>2. Numbers(d.add) /\ Numbers(d.change) /\ Numbers(d.delete)
    BY <1>1, <1>2, <2>1, FewerNumbers
  <2>3. d.delete \cap DOMAIN y.categories = {}
    BY <2>1
  <2> QED
    BY <2>2, <2>3 DEF d
<1> QED
  BY <1>3, <1>4, <1>5, <1>6

LEMMA WholePlan ==
  ASSUME Queried(tool.read), Len(tool.read) = Queries, DirectoryOK(tool.data)
  PROVE  LET plan == [t \in Tables |-> PlanOf(t)]
         IN  PlanOK(plan) /\ plan.categories.delete \cap DOMAIN tool.data.categories = {}
<1> DEFINE r == tool.read
           y == tool.data
           plan == [t \in Tables |-> PlanOf(t)]
<1>1. \A i \in {1, 2, 5, 7} : Numbers(DOMAIN r[i])
  BY DEF Queried, IsSequence, Queries
<1>2. /\ PlanOf("images") = planImages(y, r[1])
      /\ PlanOf("questions") = planQuestions(y, loadQuestionsDB(r[2], r[3], r[4]))
      /\ PlanOf("workbooks") = planWorkbooks(y, loadWorkbooksDB(r[5], r[6]))
      /\ PlanOf("categories") = planCategories(y, loadCategoriesDB(r[7], r[8]))
  BY DEF PlanOf
<1>3. /\ DOMAIN loadQuestionsDB(r[2], r[3], r[4]) = DOMAIN r[2]
      /\ DOMAIN loadWorkbooksDB(r[5], r[6]) = DOMAIN r[5]
      /\ DOMAIN loadCategoriesDB(r[7], r[8]) = DOMAIN r[7]
  BY DEF loadQuestionsDB, loadWorkbooksDB, loadCategoriesDB
<1> HIDE DEF r, y
<1>4. DirectoryOK(y)
  BY DEF y
<1>5. LET d == PlanOf("images") IN Numbers(d.add) /\ Numbers(d.change) /\ Numbers(d.delete)
  BY <1>1, <1>2, <1>4, DiffNumbers
<1>6. LET d == PlanOf("questions") IN Numbers(d.add) /\ Numbers(d.change) /\ Numbers(d.delete)
  BY <1>1, <1>2, <1>3, <1>4, DiffNumbers
<1>7. LET d == PlanOf("workbooks") IN Numbers(d.add) /\ Numbers(d.change) /\ Numbers(d.delete)
  BY <1>1, <1>2, <1>3, <1>4, DiffNumbers
<1>8. LET d == PlanOf("categories") IN /\ Numbers(d.add) /\ Numbers(d.change) /\ Numbers(d.delete)
                                       /\ d.delete \cap DOMAIN y.categories = {}
  BY <1>1, <1>2, <1>3, <1>4, DiffNumbers
<1>9. /\ \A t \in Tables : plan[t] = PlanOf(t)
      /\ plan.categories = PlanOf("categories")
  BY DEF Tables
<1> HIDE DEF plan
<1> QED
  BY <1>5, <1>6, <1>7, <1>8, <1>9 DEF PlanOK, Tables, plan, y

-----------------------------------------------------------------------------
(* The runs: the tables are well-shaped, a plan is made of what was read of *)
(* them, and the importer's last transaction is the reset.                  *)
ToolOK ==
  /\ DOMAIN tool = DOMAIN None /\ tool.data \in Data /\ Queried(tool.read)
  /\ tool.stage = "plan" => tool.kind = "sync"
  /\ tool.stage \in Phases => tool.todo \subseteq Files(tool.stage, tool.data)
  /\ tool.stage = "sequences" => tool.todo # {}
SeedingInvariant == Workable(db) /\ ToolOK /\ SequencesFollowRows

LEMMA WorkableSchema ==
  ASSUME NEW d, Sound(d)
  PROVE  Workable(d) /\ SequencesAhead(d)
<1>1. \A t \in {"images", "workbooks", "categories"} : NumberedRows(d[t]) /\ Keyed(d[t])
  BY DEF Sound, Intact, SerialsOK, SerialOK, Serial, NumberedRows
<1>2. AllTables(d) /\ Counters(d.seq)
  BY DEF Sound, Intact, SerialsOK, SerialOK, QuestionsOK, AllTables, Counters
<1>3. Numbers(d.questions)
  BY DEF Sound, Intact, QuestionsOK, Numbers
<1>4. WorkbookRows(d.workbooks) /\ CategoryRows(d.categories)
  BY <1>1 DEF Sound, Intact, CategoriesOK, WorkbookRows, CategoryRows
<1>5. SequencesAhead(d)
  BY SoundIsSchema DEF SchemaOK
<1> QED
  BY <1>1, <1>2, <1>3, <1>4, <1>5 DEF Workable, Shaped

LEMMA SeedingInit == Init => SeedingInvariant
<1> SUFFICES ASSUME Init PROVE SeedingInvariant
  OBVIOUS
<1>1. Workable(db)
  BY ContentAssumption, SoundIsSchema, WorkableSchema DEF Init
<1>2. Queried(<< >>)
  BY DEF Queried, IsSequence, Queries
<1>3. /\ tool.read = << >> /\ tool.stage = "idle" /\ tool.data = Yaml /\ DOMAIN tool = DOMAIN None
  BY DEF Init, None
<1>4. ToolOK
  BY <1>2, <1>3, SeedingAssumption DEF ToolOK, Phases
<1> QED
  BY <1>1, <1>3, <1>4 DEF SeedingInvariant, SequencesFollowRows

LEMMA Starting ==
  ASSUME SeedingInvariant, NEW y \in Data,
         StartSync(y) \/ StartImport(y, "clear") \/ StartImport(y, "workbooks")
  PROVE  SeedingInvariant'
<1>1. db' = db /\ Queried(<< >>)
  BY DEF StartSync, StartImport, Start, Queried, IsSequence, Queries
<1>2. Workable(db')
  BY <1>1 DEF SeedingInvariant
<1>3. CASE StartSync(y)
  <2>1. /\ DOMAIN tool' = DOMAIN None /\ tool'.data = y /\ tool'.read = << >> /\ tool'.kind = "sync"
        /\ tool'.stage \in {"plan", "failed"}
    BY <1>3 DEF StartSync, Start, None
  <2> QED
    BY <1>1, <1>2, <2>1 DEF SeedingInvariant, ToolOK, SequencesFollowRows, Phases
<1>4. ASSUME NEW first \in {"clear", "workbooks"}, StartImport(y, first) PROVE SeedingInvariant'
  <2>1. /\ DOMAIN tool' = DOMAIN None /\ tool'.data = y /\ tool'.read = << >>
        /\ tool'.stage = first /\ tool'.todo = Files(first, y)
    BY <1>4 DEF StartImport, Start, Entering, None
  <2> QED
    BY <1>1, <1>2, <2>1 DEF SeedingInvariant, ToolOK, SequencesFollowRows, Phases
<1> QED
  BY <1>3, <1>4

LEMMA Querying == ASSUME SeedingInvariant, PlanQuery PROVE SeedingInvariant'
<1> DEFINE answer == Query(Len(tool.read) + 1)
<1>1. /\ tool.stage = "plan" /\ Len(tool.read) < Queries /\ db' = db
      /\ tool' = [tool EXCEPT !.read = Append(@, answer)]
  BY DEF PlanQuery
<1>2. Len(tool.read) + 1 \in 1 .. Queries /\ Queried(tool.read)
  BY <1>1 DEF SeedingInvariant, ToolOK, Queried, Queries
<1>3. Numbers(DOMAIN answer)
  BY <1>2, QueryShape DEF SeedingInvariant, Workable
<1> HIDE DEF answer
<1>4. Queried(Append(tool.read, answer))
  BY <1>1, <1>2, <1>3, OneMoreQuery
<1>5. /\ DOMAIN tool' = DOMAIN tool /\ tool'.data = tool.data /\ tool'.kind = tool.kind
      /\ tool'.stage = "plan" /\ tool'.read = Append(tool.read, answer)
  BY <1>1 DEF SeedingInvariant, ToolOK, None
<1> QED
  BY <1>1, <1>4, <1>5 DEF SeedingInvariant, ToolOK, SequencesFollowRows, Phases

(* A run that ends "failed" has no more claims.                             *)
LEMMA Failing ==
  ASSUME SeedingInvariant, tool' = Failed, Workable(db')
  PROVE  SeedingInvariant'
<1>1. /\ DOMAIN tool' = DOMAIN None /\ tool'.data = tool.data /\ tool'.read = << >>
      /\ tool'.stage = "failed"
  BY DEF Failed, None
<1>2. Queried(<< >>)
  BY DEF Queried, IsSequence, Queries
<1> QED
  BY <1>1, <1>2 DEF SeedingInvariant, ToolOK, SequencesFollowRows, Phases

(* What a sync may write when all queries were answered.                    *)
LEMMA SyncOutcomes ==
  ASSUME SeedingInvariant, Planned, NEW after \in Outcomes
  PROVE  /\ Kept(DOMAIN tool.data.categories, db, after) /\ SequencesAhead(after)
         /\ Workable(after)
<1> DEFINE plan == [t \in Tables |-> PlanOf(t)]
<1>1. DirectoryOK(tool.data)
  BY SeedingAssumption DEF SeedingInvariant, ToolOK
<1>2. PlanOK(plan) /\ plan.categories.delete \cap DOMAIN tool.data.categories = {}
  BY <1>1, WholePlan DEF SeedingInvariant, ToolOK, Planned
<1>3. after \in applied(tool.data, plan, db)
  BY DEF Outcomes
<1> HIDE DEF plan
<1>4. Kept(DOMAIN tool.data.categories, db, after) /\ SequencesAhead(after) /\ ConstraintsHold(after)
  BY <1>2, <1>3, AppliedKeeps DEF SeedingInvariant, Workable
<1> QED
  BY <1>4 DEF Kept, Workable, ConstraintsHold

LEMMA Applying == ASSUME SeedingInvariant, Apply PROVE SeedingInvariant'
<1>1. ASSUME tool' = Ended("done")
      PROVE  /\ DOMAIN tool' = DOMAIN tool /\ tool'.data = tool.data /\ tool'.kind = tool.kind
             /\ tool'.stage = "done" /\ tool'.read = tool.read
  BY <1>1 DEF Ended, SeedingInvariant, ToolOK, None
<1>2. CASE ~Changing
  <2>1. tool' = Ended("done") /\ db' = db /\ tool.stage = "plan"
    BY <1>2 DEF Apply, Planned
  <2>2. ~Changing'
    BY <1>1, <1>2, <2>1 DEF Changing, Compared, PlanOf
  <2>3. tool'.kind = "sync"
    BY <1>1, <2>1 DEF SeedingInvariant, ToolOK
  <2>4. SequencesFollowRows'
    BY <2>2, <2>3 DEF SequencesFollowRows
  <2> QED
    BY <1>1, <2>1, <2>4 DEF SeedingInvariant, ToolOK, Phases
<1>3. CASE Changing /\ \E after \in Outcomes : db' = after /\ tool' = Ended("done")
  <2>1. Workable(db') /\ SequencesAhead(db') /\ tool' = Ended("done")
    BY <1>3, SyncOutcomes DEF Apply
  <2>2. SequencesFollowRows'
    BY <2>1 DEF SequencesFollowRows
  <2> QED
    BY <1>1, <2>1, <2>2 DEF SeedingInvariant, ToolOK, Phases
<1>4. CASE tool' = Failed /\ db' = db
  BY <1>4, Failing DEF SeedingInvariant
<1> QED
  BY <1>2, <1>3, <1>4 DEF Apply

(* Rolled back but setval, or committed.                                    *)
LEMMA CommitFailing == ASSUME SeedingInvariant, CommitFails PROVE SeedingInvariant'
<1>1. PICK after \in Outcomes : db' \in {[db EXCEPT !.seq = after.seq], after}
  BY DEF CommitFails
<1>2. Workable(after) /\ Counters(after.seq)
  BY SyncOutcomes DEF CommitFails, Workable, Shaped
<1>3. Workable([db EXCEPT !.seq = after.seq])
  BY <1>2 DEF SeedingInvariant, Workable, Shaped, AllTables, TableNames, Serial
<1>4. Workable(db')
  BY <1>1, <1>2, <1>3
<1> QED
  BY <1>4, Failing DEF CommitFails

(* One transaction of the importer.                                         *)
LEMMA TransactionsWork ==
  ASSUME SeedingInvariant, tool.stage \in Phases, tool.todo # {}, NEW after \in Transaction
  PROVE  Workable(after) /\ (tool.stage = "sequences" => SequencesAhead(after))
<1> DEFINE y == tool.data
<1>1. DirectoryOK(y) /\ Shaped(db) /\ tool.todo \subseteq Files(tool.stage, y)
  BY SeedingAssumption DEF SeedingInvariant, ToolOK, Workable
<1>2. File \in Files(tool.stage, y)
  BY <1>1 DEF File
<1> HIDE DEF y
<1>3. CASE tool.stage = "clear"
  <2>1. after = clearData(db)
    BY <1>3 DEF Transaction
  <2> QED
    BY <1>1, <1>3, <2>1, ClearedData DEF Workable, Keyed
<1>4. CASE tool.stage = "sequences"
  <2>1. after = resetSequences(db)
    BY <1>4 DEF Transaction
  <2>2. Shaped(after) /\ SequencesAhead(after) /\ Same(db, after, {"seq"})
    BY <1>1, <2>1, SequencesReset
  <2>3. after.workbooks = db.workbooks
    BY <2>2 DEF Same, TableNames, Serial
  <2> QED
    BY <2>2, <2>3 DEF SeedingInvariant, Workable
<1>5. ASSUME ConstraintsHold(after), Shaped(after), tool.stage # "sequences"
      PROVE  Workable(after) /\ (tool.stage = "sequences" => SequencesAhead(after))
  BY <1>5 DEF ConstraintsHold, Workable
<1>6. CASE tool.stage = "images"
  <2>1. after \in importImages(y, db)
    BY <1>6 DEF Transaction, y
  <2>2. ConstraintsHold(after)
    BY <2>1 DEF importImages, Committed
  <2> QED
    BY <1>1, <1>5, <1>6, <2>1, <2>2, ImportedImages
<1>7. CASE tool.stage = "questions"
  <2>1. after \in importQuestion(y, File, db) /\ File \in DOMAIN y.questions
    BY <1>2, <1>7 DEF Transaction, Files, y
  <2>2. ConstraintsHold(after)
    BY <2>1 DEF importQuestion, Committed
  <2> QED
    BY <1>1, <1>5, <1>7, <2>1, <2>2, ImportedQuestion
<1>8. CASE tool.stage = "workbooks"
  <2>1. after \in importWorkbook(y, File, db) /\ File \in DOMAIN y.workbooks
    BY <1>2, <1>8 DEF Transaction, Files, y
  <2>2. ConstraintsHold(after)
    BY <2>1 DEF importWorkbook, Committed
  <2> QED
    BY <1>1, <1>5, <1>8, <2>1, <2>2, ImportedWorkbook
<1>9. CASE tool.stage = "categories"
  <2>1. after \in importCategory(y, File, db) /\ File \in DOMAIN y.categories
    BY <1>2, <1>9 DEF Transaction, Files, y
  <2>2. ConstraintsHold(after)
    BY <2>1 DEF importCategory, Committed
  <2> QED
    BY <1>1, <1>5, <1>9, <2>1, <2>2, ImportedCategory
<1> QED
  BY <1>3, <1>4, <1>6, <1>7, <1>8, <1>9 DEF Phases

(* The next phase begins; "done" follows on the reset only.                 *)
LEMMA NextPhase ==
  ASSUME SeedingInvariant, tool.stage \in Phases,
         tool' = Entering(tool, Following[tool.stage]), Workable(db'),
         tool.stage = "sequences" => SequencesAhead(db')
  PROVE  SeedingInvariant'
<1> DEFINE stage == Following[tool.stage]
<1>1. /\ stage \in (Phases \cup {"done"}) /\ stage # "plan"
      /\ stage = "done" => tool.stage = "sequences"
  BY DEF Following, Phases
<1>2. /\ DOMAIN tool' = DOMAIN tool /\ tool'.data = tool.data /\ tool'.read = tool.read
      /\ tool'.stage = stage /\ tool'.todo = Files(stage, tool.data)
  BY DEF Entering, SeedingInvariant, ToolOK, None
<1> HIDE DEF stage
<1>3. stage = "sequences" => Files(stage, tool.data) # {}
  BY DEF Files
<1>4. ToolOK'
  BY <1>1, <1>2, <1>3 DEF SeedingInvariant, ToolOK
<1>5. SequencesFollowRows'
  BY <1>1, <1>2 DEF SequencesFollowRows
<1> QED
  BY <1>4, <1>5 DEF SeedingInvariant

LEMMA Importing == ASSUME SeedingInvariant, RunInTx PROVE SeedingInvariant'
<1>1. tool.stage \in Phases /\ tool.todo # {}
  BY DEF RunInTx
<1>2. CASE tool' = Failed /\ db' = db
  BY <1>2, Failing DEF SeedingInvariant
<1>3. CASE \E after \in Transaction : db' = after /\ tool' = AfterFile
  <2>1. /\ Workable(db') /\ (tool.stage = "sequences" => SequencesAhead(db')) /\ tool' = AfterFile
    BY <1>1, <1>3, TransactionsWork
  <2>2. CASE tool.todo = {File}
    BY <1>1, <2>1, <2>2, NextPhase DEF AfterFile
  <2>3. CASE tool.todo # {File}
    <3>1. tool' = [tool EXCEPT !.todo = @ \ {File}, !.attempt = 0]
      BY <2>1, <2>3 DEF AfterFile
    <3>2. /\ DOMAIN tool' = DOMAIN tool /\ tool'.data = tool.data /\ tool'.read = tool.read
          /\ tool'.stage = tool.stage /\ tool'.todo = tool.todo \ {File}
      BY <3>1 DEF SeedingInvariant, ToolOK, None
    <3>3. tool.stage # "sequences"
      <4> SUFFICES ASSUME tool.stage = "sequences" PROVE FALSE
        OBVIOUS
      <4>1. Files("sequences", tool.data) = {"the one transaction"}
        BY DEF Files
      <4>2. tool.todo = {"the one transaction"}
        BY <1>1, <4>1 DEF SeedingInvariant, ToolOK
      <4>3. File \in tool.todo
        BY <1>1 DEF File
      <4> QED
        BY <2>3, <4>2, <4>3
    <3> QED
      BY <1>1, <2>1, <3>2, <3>3 DEF SeedingInvariant, ToolOK, SequencesFollowRows, Phases
  <2> QED
    BY <2>2, <2>3
<1> QED
  BY <1>2, <1>3 DEF RunInTx

LEMMA LosingConnection == ASSUME SeedingInvariant, ConnectionLost PROVE SeedingInvariant'
<1>1. tool.stage \in Phases /\ tool.todo # {} /\ db' \in {db} \cup Transaction
  BY DEF ConnectionLost
<1>2. Workable(db')
  BY <1>1, TransactionsWork DEF SeedingInvariant
<1>3. CASE tool' = Failed
  BY <1>2, <1>3, Failing
<1>4. CASE tool' = [tool EXCEPT !.attempt = @ + 1]
  <2>1. /\ DOMAIN tool' = DOMAIN tool /\ tool'.data = tool.data /\ tool'.read = tool.read
        /\ tool'.stage = tool.stage /\ tool'.todo = tool.todo
    BY <1>4 DEF SeedingInvariant, ToolOK, None
  <2> QED
    BY <1>1, <1>2, <2>1 DEF SeedingInvariant, ToolOK, SequencesFollowRows, Phases
<1> QED
  BY <1>3, <1>4 DEF ConnectionLost

(* One request of the administration.                                       *)
LEMMA Editing == ASSUME SeedingInvariant, EditContent PROVE SeedingInvariant'
<1>1. Workable(db)
  BY DEF SeedingInvariant
<1>2. Follows(db, db') /\ tool' = [tool EXCEPT !.clean = FALSE]
  <2>1. CASE \E b \in QuestionBodies :
               \/ Edit(AdminCreateQuestion(db, b))
               \/ \E q \in db.questions : Edit(AdminUpdateQuestion(db, q, b))
    BY <1>1, <2>1, QuestionEdited DEF Edit
  <2>2. CASE \E q \in db.questions : Edit(AdminDeleteQuestion(db, q))
    BY <1>1, <2>2, QuestionEdited DEF Edit
  <2>3. CASE \E b \in WorkbookBodies :
               \/ Edit(AdminCreateWorkbook(db, b))
               \/ \E w \in db.workbooks : Edit(AdminUpdateWorkbook(db, w.id, b))
    BY <1>1, <2>3, WorkbookNew, WorkbookEdited DEF Edit
  <2>4. CASE \E w \in db.workbooks : Edit(AdminDeleteWorkbook(db, w.id))
    BY <1>1, <2>4, WorkbookEdited DEF Edit
  <2>5. CASE \E t \in Titles : Edit(AdminCreateCategory(db, t))
    BY <1>1, <2>5, CategoryEdited DEF Edit
  <2>6. CASE \E c \in db.categories : Edit(AdminDeleteCategory(db, c.id))
    BY <1>1, <2>6, CategoryEdited DEF Edit
  <2>7. CASE /\ NewPaths(db, Uploads) # {}
             /\ Edit(CreatePresignedUrl(db, CHOOSE path \in NewPaths(db, Uploads) : TRUE))
    BY <1>1, <2>7, ImageUploaded DEF Edit
  <2> QED
    BY <2>1, <2>2, <2>3, <2>4, <2>5, <2>6, <2>7 DEF EditContent
<1>3. /\ DOMAIN tool' = DOMAIN tool /\ tool'.data = tool.data /\ tool'.read = tool.read
      /\ tool'.stage = tool.stage /\ tool'.todo = tool.todo /\ tool'.kind = tool.kind
  BY <1>2 DEF SeedingInvariant, ToolOK, None
<1>4. ToolOK'
  BY <1>3 DEF SeedingInvariant, ToolOK
<1>5. Changing' <=> Changing
  BY <1>3 DEF Changing, Compared, PlanOf
<1>6. SequencesFollowRows'
  BY <1>2, <1>3, <1>5 DEF SeedingInvariant, SequencesFollowRows, Follows
<1> QED
  BY <1>2, <1>4, <1>6 DEF SeedingInvariant, Follows

LEMMA SeedingStep == SeedingInvariant /\ [Next]_vars => SeedingInvariant'
<1> SUFFICES ASSUME SeedingInvariant, [Next]_vars PROVE SeedingInvariant'
  OBVIOUS
<1>1. CASE \E y \in Data : StartSync(y) \/ StartImport(y, "clear") \/ StartImport(y, "workbooks")
  BY <1>1, Starting
<1>2. CASE PlanQuery
  BY <1>2, Querying
<1>3. CASE Apply
  BY <1>3, Applying
<1>4. CASE CommitFails
  BY <1>4, CommitFailing
<1>5. CASE RunInTx
  BY <1>5, Importing
<1>6. CASE NoFiles
  <2>1. tool.stage # "sequences"
    BY <1>6 DEF NoFiles, SeedingInvariant, ToolOK
  <2> QED
    BY <1>6, <2>1, NextPhase DEF NoFiles, SeedingInvariant
<1>7. CASE ConnectionLost
  BY <1>7, LosingConnection
<1>8. CASE Killed
  BY <1>8, Failing DEF Killed, SeedingInvariant
<1>9. CASE EditContent
  BY <1>9, Editing
<1>10. CASE UNCHANGED vars
  BY <1>10 DEF vars, SeedingInvariant, ToolOK, SequencesFollowRows, Workable, Changing, Compared, PlanOf
<1> QED
  BY <1>1, <1>2, <1>3, <1>4, <1>5, <1>6, <1>7, <1>8, <1>9, <1>10 DEF Next

(* After a tool that wrote rows under explicit ids has succeeded, and as    *)
(* long as no other one is started, no create of the administration meets a *)
(* row: whatever the data directories and requests, wherever earlier runs   *)
(* were cut off, and whatever the administration wrote beside the run.      *)
THEOREM CreatesMeetNoRow == Spec => []SequencesFollowRows
<1>1. SeedingInvariant => SequencesFollowRows
  BY DEF SeedingInvariant
<1> QED
  BY <1>1, SeedingInit, SeedingStep, PTL DEF Spec

(* A sync takes no app its link to a category that stays, and publishes or  *)
(* hides no workbook that stays; nor does one whose COMMIT went through and *)
(* whose run failed for want of the answer.                                 *)
THEOREM SyncsKeepTheRest == Spec => SyncKeepsTheRest
<1>1. ASSUME SeedingInvariant, [Next]_vars,
             tool.kind = "sync", tool.stage = "plan", tool'.stage \in {"done", "failed"}
      PROVE  /\ \A r \in db.appCategories :
                  r.category \in DOMAIN tool.data.categories => r \in db'.appCategories
             /\ \A w \in db.workbooks, v \in db'.workbooks :
                  w.id = v.id => w.published = v.published
  <2>1. CASE Apply \/ CommitFails
    <3>1. CASE db' = db
      BY <1>1, <3>1 DEF SeedingInvariant, Workable, Keyed
    <3>2. CASE db' \in Outcomes
      BY <1>1, <2>1, <3>2, SyncOutcomes DEF Apply, CommitFails, Kept
    <3>3. CASE \E after \in Outcomes : db' = [db EXCEPT !.seq = after.seq]
      <4>1. db'.appCategories = db.appCategories /\ db'.workbooks = db.workbooks
        BY <1>1, <3>3 DEF SeedingInvariant, Workable, Shaped, AllTables, TableNames, Serial
      <4> QED
        BY <1>1, <4>1 DEF SeedingInvariant, Workable, Keyed
    <3> QED
      BY <2>1, <3>1, <3>2, <3>3 DEF Apply, CommitFails
  <2>2. CASE \E y \in Data : StartSync(y) \/ StartImport(y, "clear") \/ StartImport(y, "workbooks")
    BY <1>1, <2>2 DEF StartSync, StartImport, Start, AtWork
  <2>3. CASE PlanQuery
    BY <1>1, <2>3 DEF PlanQuery, SeedingInvariant, ToolOK, None
  <2>4. CASE Killed
    BY <1>1, <2>4 DEF Killed, SeedingInvariant, Workable, Keyed
  <2>5. CASE RunInTx \/ NoFiles \/ ConnectionLost
    BY <1>1, <2>5 DEF RunInTx, NoFiles, ConnectionLost, Phases
  <2>6. CASE EditContent
    <3>1. tool' = [tool EXCEPT !.clean = FALSE]
      BY <2>6 DEF EditContent, Edit
    <3> QED
      BY <1>1, <3>1 DEF SeedingInvariant, ToolOK, None
  <2>7. CASE UNCHANGED vars
    BY <1>1, <2>7 DEF vars
  <2> QED
    BY <1>1, <2>1, <2>2, <2>3, <2>4, <2>5, <2>6, <2>7 DEF Next
<1>2. SeedingInvariant /\ [Next]_vars =>
        [(tool.kind = "sync" /\ tool.stage = "plan" /\ tool'.stage \in {"done", "failed"}) =>
           /\ \A r \in db.appCategories :
                r.category \in DOMAIN tool.data.categories => r \in db'.appCategories
           /\ \A w \in db.workbooks, v \in db'.workbooks :
                w.id = v.id => w.published = v.published]_vars
  BY <1>1
<1> QED
  BY <1>2, SeedingInit, SeedingStep, PTL DEF Spec, SyncKeepsTheRest

-----------------------------------------------------------------------------
(* The columns of the tables; together with the constraints they are the    *)
(* schema, except that sequences may be behind the rows.                    *)
IdRows(T) == IsFiniteSet(T) /\ \A r \in T : r.id \in IdNumbers
TextRows(T) == IsFiniteSet(T) /\ \A s \in T : DOMAIN s = {"question", "text"}
ChoiceRows(T) == IsFiniteSet(T) /\ \A c \in T : c.index \in Nat /\ c.correct \in BOOLEAN
OrderRows(T) == IsFiniteSet(T) /\ \A r \in T : r.order \in Nat
NamedRows(T) == IdRows(T) /\ \A c \in T : DOMAIN c = {"id", "title"}
BookRows(T) == IdRows(T) /\ \A w \in T : DOMAIN w = {"id", "title", "category", "published"}
SlugRows(T) == IdRows(T) /\ \A a \in T : DOMAIN a = {"id", "slug"}
Numbering(seq) == DOMAIN seq = Serial \cup {"questions"} /\ \A t \in DOMAIN seq : seq[t] \in IdNumbers
Typed(d) ==
  /\ AllTables(d) /\ Numbering(d.seq)
  /\ IsFiniteSet(d.questions) /\ d.questions \subseteq IdNumbers
  /\ TextRows(d.singleChoices) /\ ChoiceRows(d.choices)
  /\ OrderRows(d.questionImages) /\ OrderRows(d.workbookQuestions)
  /\ IdRows(d.images) /\ NamedRows(d.categories) /\ BookRows(d.workbooks)
  /\ SlugRows(d.apps) /\ IdRows(d.announcements) /\ IsFiniteSet(d.appCategories)

LEMMA IntactIsTyped ==
  ASSUME NEW d
  PROVE  Intact(FALSE, d) <=> (Typed(d) /\ ConstraintsHold(d))
<1>1. ASSUME Intact(FALSE, d) PROVE Typed(d)
  <2>1. AllTables(d) /\ Numbering(d.seq)
    BY <1>1 DEF Intact, SerialsOK, SerialOK, QuestionsOK, AllTables, Numbering, IdNumbers
  <2>2. \A t \in Serial : IdRows(d[t])
    BY <1>1 DEF Intact, SerialsOK, SerialOK, IdRows, IdNumbers
  <2>3. /\ IdRows(d.images) /\ IdRows(d.categories) /\ IdRows(d.workbooks)
        /\ IdRows(d.apps) /\ IdRows(d.announcements)
    BY <2>2 DEF Serial
  <2>4. NamedRows(d.categories) /\ BookRows(d.workbooks)
    BY <1>1, <2>3 DEF Intact, CategoriesOK, NamedRows, BookRows
  <2>5. SlugRows(d.apps) /\ IsFiniteSet(d.appCategories)
    BY <1>1, <2>3 DEF Intact, AppsOK, LinkedOK, SlugRows
  <2>6. /\ IsFiniteSet(d.questions) /\ d.questions \subseteq IdNumbers
        /\ TextRows(d.singleChoices) /\ ChoiceRows(d.choices)
    BY <1>1 DEF Intact, QuestionsOK, ChoicesOK, TextRows, ChoiceRows, IdNumbers
  <2>7. OrderRows(d.questionImages) /\ OrderRows(d.workbookQuestions)
    BY <1>1 DEF Intact, ImagesOK, ShownOK, PlacesOK, PlacedOK, OrderRows
  <2> QED
    BY <2>1, <2>3, <2>4, <2>5, <2>6, <2>7 DEF Typed
<1>2. ASSUME Intact(FALSE, d) PROVE ConstraintsHold(d)
  <2>1. \A T \in {d.categories, d.workbooks, d.announcements, d.apps, d.images} : Keyed(T)
    BY <1>2 DEF Intact, SerialsOK, SerialOK, Serial
  <2>2. /\ \A s, t \in d.singleChoices : s.question = t.question => s = t
        /\ \A c, e \in d.choices : (c.question = e.question /\ c.index = e.index) => c = e
        /\ \A r \in d.singleChoices \cup d.choices : QuestionExists(d, r.question)
        /\ \A q \in d.questions : GetQuestionByID(d, q) # {}
    BY <1>2 DEF Intact, QuestionsOK, ChoicesOK, QuestionExists, GetQuestionByID
  <2>3. /\ \A m, n \in d.images : m.path = n.path => m = n
        /\ \A r, s \in d.questionImages :
             (r.question = s.question /\ (r.image = s.image \/ r.order = s.order)) => r = s
        /\ \A r \in d.questionImages :
             QuestionExists(d, r.question) /\ \E m \in d.images : m.id = r.image
    BY <1>2 DEF Intact, ImagesOK, ShownOK, QuestionExists
  <2>4. /\ \A r, s \in d.workbookQuestions :
             (r.workbook = s.workbook /\ r.question = s.question) => r = s
        /\ \A r \in d.workbookQuestions :
             WorkbookExists(d, r.workbook) /\ QuestionExists(d, r.question)
        /\ \A w \in d.workbooks : w.category = NoCategory \/ CategoryExists(d, w.category)
    BY <1>2 DEF Intact, PlacesOK, PlacedOK, CategoriesOK, QuestionExists
  <2>5. /\ \A a, b \in d.apps : a.slug = b.slug => a = b
        /\ \A r, s \in d.appCategories : (r.app = s.app /\ r.category = s.category) => r = s
        /\ \A r \in d.appCategories : CategoryExists(d, r.category) /\ GetAppByID(d, r.app) # {}
    BY <1>2 DEF Intact, AppsOK, LinkedOK, GetAppByID
  <2> QED
    BY <2>1, <2>2, <2>3, <2>4, <2>5 DEF ConstraintsHold
<1>3. ASSUME Typed(d), ConstraintsHold(d) PROVE Intact(FALSE, d)
  <2>1. SerialsOK(d, FALSE)
    <3>1. \A t \in Serial : Keyed(d[t])
      BY <1>3 DEF ConstraintsHold, Serial
    <3>2. \A t \in Serial : IdRows(d[t])
      BY <1>3 DEF Typed, NamedRows, BookRows, SlugRows, Serial
    <3> QED
      BY <1>3, <3>1, <3>2 DEF Typed, AllTables, Numbering, IdRows, IdNumbers, SerialsOK, SerialOK
  <2>2. QuestionsOK(d, FALSE)
    <3>1. ChoicesOK(d.choices)
      BY <1>3 DEF Typed, ChoiceRows, ConstraintsHold, ChoicesOK
    <3>2. /\ \A s, t \in d.singleChoices : s.question = t.question => s = t
          /\ \A s \in d.singleChoices : DOMAIN s = {"question", "text"} /\ s.question \in d.questions
          /\ \A q \in d.questions : \E s \in d.singleChoices : s.question = q
          /\ \A c \in d.choices : c.question \in d.questions
      BY <1>3 DEF Typed, TextRows, ConstraintsHold, QuestionExists, GetQuestionByID
    <3>3. /\ d.seq.questions \in Nat \ {0} /\ IsFiniteSet(d.questions) /\ IsFiniteSet(d.singleChoices)
          /\ \A q \in d.questions : q \in Nat \ {0}
      BY <1>3 DEF Typed, TextRows, Numbering, IdNumbers
    <3> QED
      BY <3>1, <3>2, <3>3 DEF QuestionsOK
  <2>3. PlacesOK(d)
    BY <1>3 DEF Typed, OrderRows, ConstraintsHold, PlacesOK, PlacedOK, QuestionExists
  <2>4. ImagesOK(d)
    BY <1>3 DEF Typed, OrderRows, ConstraintsHold, ImagesOK, ShownOK, QuestionExists
  <2>5. CategoriesOK(d) /\ AppsOK(d)
    BY <1>3 DEF Typed, NamedRows, BookRows, SlugRows, ConstraintsHold, CategoriesOK, AppsOK, LinkedOK,
       GetAppByID
  <2> QED
    BY <2>1, <2>2, <2>3, <2>4, <2>5 DEF Intact
<1> QED
  BY <1>1, <1>2, <1>3

-----------------------------------------------------------------------------
(* The rows that a data directory stands for.                               *)
ImageRow(y, i) == [id |-> i, path |-> y.images[i]]
TextRow(y, q) == [question |-> q, text |-> y.questions[q].text]
ChoiceRow(y, q, i) == [question |-> q, index |-> i - 1, text |-> y.questions[q].choices[i],
                       correct |-> i - 1 = y.questions[q].correct]
ShownRow(y, q, i) == [question |-> q, image |-> y.questions[q].images[i], order |-> i - 1]
PlaceRow(y, w, i) == [workbook |-> w, question |-> y.workbooks[w].questions[i], order |-> i - 1]
ChoicesFor(y, q) == {ChoiceRow(y, q, i) : i \in DOMAIN y.questions[q].choices}
ShownFor(y, q) == {ShownRow(y, q, i) : i \in DOMAIN y.questions[q].images}
PlacesFor(y, w) == {PlaceRow(y, w, i) : i \in DOMAIN y.workbooks[w].questions}

(* What each statement of the tools writes, and that it writes nothing else.*)
Retexted(y, q, s) == IF s.question = q THEN [s EXCEPT !.text = y.questions[q].text] ELSE s
LEMMA PutImageEffects ==
  ASSUME NEW d, AllTables(d), NEW y, NEW x
  PROVE  LET e == PutImage(y, d, x)
         IN  /\ Same(d, e, {"images"})
             /\ \A r : r \in e.images <=> (r \in d.images /\ r.id # x) \/ r = ImageRow(y, x)
<1> USE DEF AllTables, Same, TableNames, Serial
<1>1. LET e == PutImage(y, d, x)
      IN  /\ Same(d, e, {"images"})
          /\ \A r : r \in e.images <=> (r \in d.images /\ r.id # x) \/ r = ImageRow(y, x)
  BY DEF PutImage, CreateImage, ImageRow
<1> HIDE DEF AllTables, Same
<1> QED
  BY <1>1
LEMMA DropImageEffects ==
  ASSUME NEW d, AllTables(d), NEW x
  PROVE  LET e == DropImage(d, x)
         IN  /\ Same(d, e, {"images", "questionImages"})
             /\ \A r : r \in e.images <=> r \in d.images /\ r.id # x
             /\ \A r : r \in e.questionImages <=> r \in d.questionImages /\ r.image # x
<1> USE DEF AllTables, Same, TableNames, Serial
<1>1. LET e == DropImage(d, x)
      IN  /\ Same(d, e, {"images", "questionImages"})
          /\ \A r : r \in e.images <=> r \in d.images /\ r.id # x
          /\ \A r : r \in e.questionImages <=> r \in d.questionImages /\ r.image # x
  BY DEF DropImage
<1> HIDE DEF AllTables, Same
<1> QED
  BY <1>1

(* The details of a question; the places of a workbook.                     *)
LEMMA DetailsInserted ==
  ASSUME NEW d, AllTables(d), NEW y, NEW q
  PROVE  LET e == insertQuestionDetails(d, q, y.questions[q])
         IN  /\ Same(d, e, {"choices", "questionImages"})
             /\ e.choices = d.choices \cup ChoicesFor(y, q)
             /\ e.questionImages = d.questionImages \cup ShownFor(y, q)
<1> USE DEF AllTables, Same, TableNames, Serial
<1> DEFINE v == y.questions[q]
           cs == [i \in DOMAIN v.choices |-> [text |-> v.choices[i], correct |-> i - 1 = v.correct]]
           c == CreateChoice(d, q, cs)
           e == CreateQuestionImage(c, q, v.images)
<1>1. e = insertQuestionDetails(d, q, v)
  BY DEF insertQuestionDetails
<1>2. \A i \in DOMAIN v.choices : cs[i].text = v.choices[i] /\ cs[i].correct = (i - 1 = v.correct)
  OBVIOUS
<1>3. DOMAIN cs = DOMAIN v.choices
  OBVIOUS
<1> HIDE DEF cs
<1>4. {[question |-> q, index |-> i - 1, text |-> cs[i].text, correct |-> cs[i].correct] : i \in DOMAIN cs}
        = ChoicesFor(y, q)
  BY <1>2, <1>3 DEF ChoicesFor, ChoiceRow
<1>5. Same(d, c, {"choices"}) /\ c.choices = d.choices \cup ChoicesFor(y, q)
  BY <1>4 DEF CreateChoice
<1> HIDE DEF c
<1>6. Same(c, e, {"questionImages"}) /\ e.questionImages = c.questionImages \cup ShownFor(y, q)
  BY <1>5 DEF CreateQuestionImage, ShownFor, ShownRow
<1> HIDE DEF e
<1>7. /\ Same(d, e, {"choices", "questionImages"})
      /\ e.choices = d.choices \cup ChoicesFor(y, q)
      /\ e.questionImages = d.questionImages \cup ShownFor(y, q)
  BY <1>5, <1>6
<1> HIDE DEF Same
<1> QED
  BY <1>1, <1>7
LEMMA PlacesInserted ==
  ASSUME NEW d, AllTables(d), NEW y, NEW w
  PROVE  LET e == bulkInsertWorkbookQuestions(d, w, y.workbooks[w].questions)
         IN  /\ Same(d, e, {"workbookQuestions"})
             /\ e.workbookQuestions = d.workbookQuestions \cup PlacesFor(y, w)
BY DEF bulkInsertWorkbookQuestions, PlacesFor, PlaceRow, AllTables, Same, TableNames, Serial

QuestionTables == {"questions", "singleChoices", "choices", "questionImages"}
LEMMA DeleteQuestionEffects ==
  ASSUME NEW d, AllTables(d), NEW x
  PROVE  LET e == DeleteQuestion(d, x)
         IN  /\ Same(d, e, QuestionTables \cup {"workbookQuestions"})
             /\ e.questions = d.questions \ {x}
             /\ \A r : r \in e.singleChoices <=> r \in d.singleChoices /\ r.question # x
             /\ \A r : r \in e.choices <=> r \in d.choices /\ r.question # x
             /\ \A r : r \in e.questionImages <=> r \in d.questionImages /\ r.question # x
             /\ \A r : r \in e.workbookQuestions <=> r \in d.workbookQuestions /\ r.question # x
<1> USE DEF AllTables, Same, TableNames, Serial, QuestionTables
<1>1. LET e == DeleteQuestion(d, x)
      IN  /\ Same(d, e, QuestionTables \cup {"workbookQuestions"})
          /\ e.questions = d.questions \ {x}
          /\ \A r : r \in e.singleChoices <=> r \in d.singleChoices /\ r.question # x
          /\ \A r : r \in e.choices <=> r \in d.choices /\ r.question # x
          /\ \A r : r \in e.questionImages <=> r \in d.questionImages /\ r.question # x
          /\ \A r : r \in e.workbookQuestions <=> r \in d.workbookQuestions /\ r.question # x
  BY DEF DeleteQuestion
<1> HIDE DEF AllTables, Same
<1> QED
  BY <1>1
LEMMA AddQuestionEffects ==
  ASSUME NEW d, AllTables(d), NEW y, NEW x
  PROVE  LET e == AddQuestion(y, d, x)
         IN  /\ Same(d, e, QuestionTables)
             /\ e.questions = d.questions \cup {x}
             /\ e.singleChoices = d.singleChoices \cup {TextRow(y, x)}
             /\ e.choices = d.choices \cup ChoicesFor(y, x)
             /\ e.questionImages = d.questionImages \cup ShownFor(y, x)
<1> USE DEF AllTables, Same, TableNames, Serial, QuestionTables
<1>1. LET e == AddQuestion(y, d, x)
      IN  /\ Same(d, e, QuestionTables)
          /\ e.questions = d.questions \cup {x}
          /\ e.singleChoices = d.singleChoices \cup {TextRow(y, x)}
          /\ e.choices = d.choices \cup ChoicesFor(y, x)
          /\ e.questionImages = d.questionImages \cup ShownFor(y, x)
  <2> DEFINE c == CreateSingleChoice(CreateQuestion(d, x), x, y.questions[x].text)
             e == insertQuestionDetails(c, x, y.questions[x])
  <2>1. /\ Same(d, c, {"questions", "singleChoices"}) /\ c.questions = d.questions \cup {x}
        /\ c.singleChoices = d.singleChoices \cup {TextRow(y, x)}
    BY DEF CreateSingleChoice, CreateQuestion, TextRow
  <2> HIDE DEF c
  <2>2. AllTables(c)
    BY <2>1
  <2>3. /\ Same(c, e, {"choices", "questionImages"})
        /\ e.choices = c.choices \cup ChoicesFor(y, x)
        /\ e.questionImages = c.questionImages \cup ShownFor(y, x)
    <3> HIDE DEF AllTables, Same
    <3> QED
      BY <2>2, DetailsInserted
  <2>4. e = AddQuestion(y, d, x)
    BY DEF AddQuestion, c
  <2> HIDE DEF e
  <2>5. /\ Same(d, e, QuestionTables)
        /\ e.questions = d.questions \cup {x}
        /\ e.singleChoices = d.singleChoices \cup {TextRow(y, x)}
        /\ e.choices = d.choices \cup ChoicesFor(y, x)
        /\ e.questionImages = d.questionImages \cup ShownFor(y, x)
    BY <2>1, <2>3
  <2> HIDE DEF Same
  <2> QED
    BY <2>4, <2>5
<1> HIDE DEF AllTables, Same
<1> QED
  BY <1>1
LEMMA ChangeQuestionEffects ==
  ASSUME NEW d, AllTables(d), NEW y, NEW x
  PROVE  LET e == ChangeQuestion(y, d, x)
         IN  /\ Same(d, e, QuestionTables \ {"questions"})
             /\ \A r : r \in e.singleChoices <=> \E s \in d.singleChoices : r = Retexted(y, x, s)
             /\ \A r : r \in e.choices <=> (r \in d.choices /\ r.question # x) \/ r \in ChoicesFor(y, x)
             /\ \A r : r \in e.questionImages <=> (r \in d.questionImages /\ r.question # x) \/ r \in ShownFor(y, x)
<1> USE DEF AllTables, Same, TableNames, Serial, QuestionTables
<1>1. LET e == ChangeQuestion(y, d, x)
      IN  /\ Same(d, e, QuestionTables \ {"questions"})
          /\ \A r : r \in e.singleChoices <=> \E s \in d.singleChoices : r = Retexted(y, x, s)
          /\ \A r : r \in e.choices <=> (r \in d.choices /\ r.question # x) \/ r \in ChoicesFor(y, x)
          /\ \A r : r \in e.questionImages <=> (r \in d.questionImages /\ r.question # x) \/ r \in ShownFor(y, x)
  <2> DEFINE c == UpdateSingleChoice(DeleteQuestionImages(DeleteChoicesByQuestionID(d, x), x),
                                     x, y.questions[x].text)
             e == insertQuestionDetails(c, x, y.questions[x])
  <2>1. /\ Same(d, c, {"singleChoices", "choices", "questionImages"})
        /\ \A r : r \in c.singleChoices <=> \E s \in d.singleChoices : r = Retexted(y, x, s)
        /\ \A r : r \in c.choices <=> r \in d.choices /\ r.question # x
        /\ \A r : r \in c.questionImages <=> r \in d.questionImages /\ r.question # x
    BY DEF UpdateSingleChoice, DeleteQuestionImages, DeleteChoicesByQuestionID, Retexted
  <2> HIDE DEF c
  <2>2. AllTables(c)
    BY <2>1
  <2>3. /\ Same(c, e, {"choices", "questionImages"})
        /\ e.choices = c.choices \cup ChoicesFor(y, x)
        /\ e.questionImages = c.questionImages \cup ShownFor(y, x)
    <3> HIDE DEF AllTables, Same
    <3> QED
      BY <2>2, DetailsInserted
  <2>4. e = ChangeQuestion(y, d, x)
    BY DEF ChangeQuestion, c
  <2> HIDE DEF e
  <2>5. /\ Same(d, e, QuestionTables \ {"questions"})
        /\ \A r : r \in e.singleChoices <=> \E s \in d.singleChoices : r = Retexted(y, x, s)
        /\ \A r : r \in e.choices <=> (r \in d.choices /\ r.question # x) \/ r \in ChoicesFor(y, x)
        /\ \A r : r \in e.questionImages <=> (r \in d.questionImages /\ r.question # x) \/ r \in ShownFor(y, x)
    BY <2>1, <2>3
  <2> HIDE DEF Same
  <2> QED
    BY <2>4, <2>5
<1> HIDE DEF AllTables, Same
<1> QED
  BY <1>1

(* How a workbook's category moves when one category is synced.             *)
Loosened(x, w) == IF w.category = x THEN [w EXCEPT !.category = NoCategory] ELSE w
Filed(y, x, w) == IF w.id \in Elems(y.categories[x].workbooks) THEN [w EXCEPT !.category = x] ELSE w
Moved(y, diff, x, w) ==
  IF x \in diff.delete THEN Loosened(x, w)
  ELSE IF x \in diff.add THEN Filed(y, x, w) ELSE Filed(y, x, Loosened(x, w))
CategoryRow(y, x) == [id |-> x, title |-> y.categories[x].title]
Titled(y, x, c) == IF c.id = x THEN [c EXCEPT !.title = y.categories[x].title] ELSE c
LEMMA CategoryEffects ==
  ASSUME NEW d, AllTables(d), NEW y, NEW diff, NEW x
  PROVE  LET e == SyncCategory(y, diff, d, x)
         IN  /\ Same(d, e, {"categories", "workbooks", "appCategories"})
             /\ \A r : r \in e.workbooks <=> \E s \in d.workbooks : r = Moved(y, diff, x, s)
             /\ x \in diff.delete => \A r : r \in e.categories <=> r \in d.categories /\ r.id # x
             /\ x \notin diff.delete /\ x \in diff.add =>
                  \A r : r \in e.categories <=> r \in d.categories \/ r = CategoryRow(y, x)
             /\ x \notin diff.delete /\ x \notin diff.add =>
                  \A r : r \in e.categories <=> \E s \in d.categories : r = Titled(y, x, s)
             /\ e.appCategories \subseteq d.appCategories
<1> DEFINE e == SyncCategory(y, diff, d, x)
<1> USE DEF AllTables, Same, TableNames, Serial
<1>1. CASE x \in diff.delete
  <2>1. e = DeleteCategory(d, x)
    BY <1>1 DEF SyncCategory
  <2>2. /\ Same(d, e, {"categories", "workbooks", "appCategories"})
        /\ \A r : r \in e.categories <=> r \in d.categories /\ r.id # x
        /\ \A r : r \in e.workbooks <=> \E s \in d.workbooks : r = Loosened(x, s)
        /\ \A r : r \in e.appCategories <=> r \in d.appCategories /\ r.category # x
    <3>1. /\ Same(d, e, {"categories", "workbooks", "appCategories"})
          /\ e.workbooks = {Loosened(x, w) : w \in d.workbooks}
          /\ e.categories = {r \in d.categories : r.id # x}
          /\ e.appCategories = {r \in d.appCategories : r.category # x}
      BY <2>1 DEF DeleteCategory, Loosened
    <3> HIDE DEF Same, e
    <3> QED
      BY <3>1
  <2>3. \A w : Moved(y, diff, x, w) = Loosened(x, w)
    BY <1>1 DEF Moved
  <2> HIDE DEF e, Same
  <2> QED
    BY <1>1, <2>2, <2>3 DEF e
<1>2. CASE x \notin diff.delete /\ x \in diff.add
  <2> DEFINE c == CreateCategory(d, x, y.categories[x].title)
  <2>1. e = FillCategory(y, c, x)
    BY <1>2 DEF SyncCategory
  <2>2. Same(d, c, {"categories"}) /\ c.categories = d.categories \cup {CategoryRow(y, x)}
    BY DEF CreateCategory, CategoryRow
  <2> HIDE DEF c, e
  <2>3. Same(c, e, {"workbooks"}) /\ \A r : r \in e.workbooks <=> \E s \in c.workbooks : r = Filed(y, x, s)
    BY <2>1, <2>2 DEF FillCategory, Filed
  <2>4. \A w : Moved(y, diff, x, w) = Filed(y, x, w)
    BY <1>2 DEF Moved
  <2>5. /\ Same(d, e, {"categories", "workbooks", "appCategories"})
        /\ c.workbooks = d.workbooks /\ e.appCategories = d.appCategories
        /\ e.categories = d.categories \cup {CategoryRow(y, x)}
    BY <2>2, <2>3
  <2> HIDE DEF Same
  <2> QED
    BY <1>2, <2>3, <2>4, <2>5 DEF e
<1>3. CASE x \notin diff.delete /\ x \notin diff.add
  <2> DEFINE c == UpdateCategory(d, x, y.categories[x].title)
             b == EmptyCategory(c, x)
  <2>1. e = FillCategory(y, b, x)
    BY <1>3 DEF SyncCategory
  <2>2. Same(d, c, {"categories"}) /\ \A r : r \in c.categories <=> \E s \in d.categories : r = Titled(y, x, s)
    BY DEF UpdateCategory, Titled
  <2> HIDE DEF c
  <2>3. Same(c, b, {"workbooks"}) /\ \A r : r \in b.workbooks <=> \E s \in c.workbooks : r = Loosened(x, s)
    BY <2>2 DEF EmptyCategory, Loosened
  <2> HIDE DEF b, e
  <2>4. Same(b, e, {"workbooks"}) /\ \A r : r \in e.workbooks <=> \E s \in b.workbooks : r = Filed(y, x, s)
    BY <2>1, <2>2, <2>3 DEF FillCategory, Filed
  <2>5. \A w : Moved(y, diff, x, w) = Filed(y, x, Loosened(x, w))
    BY <1>3 DEF Moved
  <2>6. /\ Same(d, e, {"categories", "workbooks", "appCategories"})
        /\ c.workbooks = d.workbooks /\ e.appCategories = d.appCategories
        /\ \A r : r \in e.categories <=> \E s \in d.categories : r = Titled(y, x, s)
    BY <2>2, <2>3, <2>4
  <2> HIDE DEF Same
  <2>7. \A r : r \in e.workbooks <=> \E s \in d.workbooks : r = Moved(y, diff, x, s)
    BY <2>3, <2>4, <2>5, <2>6
  <2> QED
    BY <1>3, <2>6, <2>7 DEF e
<1> HIDE DEF Same, e
<1>4. /\ Same(d, e, {"categories", "workbooks", "appCategories"})
      /\ \A r : r \in e.workbooks <=> \E s \in d.workbooks : r = Moved(y, diff, x, s)
      /\ x \in diff.delete => \A r : r \in e.categories <=> r \in d.categories /\ r.id # x
      /\ x \notin diff.delete /\ x \in diff.add =>
           \A r : r \in e.categories <=> r \in d.categories \/ r = CategoryRow(y, x)
      /\ x \notin diff.delete /\ x \notin diff.add =>
           \A r : r \in e.categories <=> \E s \in d.categories : r = Titled(y, x, s)
      /\ e.appCategories \subseteq d.appCategories
  BY <1>1, <1>2, <1>3 DEF e
<1> QED
  BY <1>4 DEF e

WorkbookLine(y, x, category) ==
  [id |-> x, title |-> y.workbooks[x].title, category |-> category, published |-> TRUE]
Retitled(y, x, category, w) ==
  IF w.id = x THEN [w EXCEPT !.title = y.workbooks[x].title, !.category = category] ELSE w
LEMMA DeleteWorkbookEffects ==
  ASSUME NEW d, AllTables(d), NEW x
  PROVE  LET e == DeleteWorkbook(d, x)
         IN  /\ Same(d, e, {"workbooks", "workbookQuestions"})
             /\ \A r : r \in e.workbooks <=> r \in d.workbooks /\ r.id # x
             /\ \A r : r \in e.workbookQuestions <=> r \in d.workbookQuestions /\ r.workbook # x
<1> USE DEF AllTables, Same, TableNames, Serial
<1>1. LET e == DeleteWorkbook(d, x)
      IN  /\ Same(d, e, {"workbooks", "workbookQuestions"})
          /\ \A r : r \in e.workbooks <=> r \in d.workbooks /\ r.id # x
          /\ \A r : r \in e.workbookQuestions <=> r \in d.workbookQuestions /\ r.workbook # x
  BY DEF DeleteWorkbook
<1> HIDE DEF AllTables, Same
<1> QED
  BY <1>1
LEMMA AddWorkbookEffects ==
  ASSUME NEW d, AllTables(d), NEW y, NEW category, NEW x
  PROVE  LET e == AddWorkbook(y, category, d, x)
         IN  /\ Same(d, e, {"workbooks", "workbookQuestions"})
             /\ e.workbooks = d.workbooks \cup {WorkbookLine(y, x, category[x])}
             /\ e.workbookQuestions = d.workbookQuestions \cup PlacesFor(y, x)
<1> USE DEF AllTables, Same, TableNames, Serial
<1>1. LET e == AddWorkbook(y, category, d, x)
      IN  /\ Same(d, e, {"workbooks", "workbookQuestions"})
          /\ e.workbooks = d.workbooks \cup {WorkbookLine(y, x, category[x])}
          /\ e.workbookQuestions = d.workbookQuestions \cup PlacesFor(y, x)
  <2> DEFINE c == CreateWorkbook(d, x, y.workbooks[x].title, category[x], TRUE)
             e == bulkInsertWorkbookQuestions(c, x, y.workbooks[x].questions)
  <2>1. /\ Same(d, c, {"workbooks"})
        /\ c.workbooks = d.workbooks \cup {WorkbookLine(y, x, category[x])}
    BY DEF CreateWorkbook, WorkbookLine
  <2> HIDE DEF c
  <2>2. AllTables(c)
    BY <2>1
  <2>3. /\ Same(c, e, {"workbookQuestions"})
        /\ e.workbookQuestions = c.workbookQuestions \cup PlacesFor(y, x)
    <3> HIDE DEF AllTables, Same
    <3> QED
      BY <2>2, PlacesInserted
  <2>4. e = AddWorkbook(y, category, d, x)
    BY DEF AddWorkbook, c
  <2> HIDE DEF e
  <2>5. /\ Same(d, e, {"workbooks", "workbookQuestions"})
        /\ e.workbooks = d.workbooks \cup {WorkbookLine(y, x, category[x])}
        /\ e.workbookQuestions = d.workbookQuestions \cup PlacesFor(y, x)
    BY <2>1, <2>3
  <2> HIDE DEF Same
  <2> QED
    BY <2>4, <2>5
<1> HIDE DEF AllTables, Same
<1> QED
  BY <1>1
LEMMA ChangeWorkbookEffects ==
  ASSUME NEW d, AllTables(d), NEW y, NEW category, NEW x
  PROVE  LET e == ChangeWorkbook(y, category, d, x)
         IN  /\ Same(d, e, {"workbooks", "workbookQuestions"})
             /\ \A r : r \in e.workbooks <=> \E s \in d.workbooks : r = Retitled(y, x, category[x], s)
             /\ \A r : r \in e.workbookQuestions <=> (r \in d.workbookQuestions /\ r.workbook # x) \/ r \in PlacesFor(y, x)
<1> USE DEF AllTables, Same, TableNames, Serial
<1>1. LET e == ChangeWorkbook(y, category, d, x)
      IN  /\ Same(d, e, {"workbooks", "workbookQuestions"})
          /\ \A r : r \in e.workbooks <=> \E s \in d.workbooks : r = Retitled(y, x, category[x], s)
          /\ \A r : r \in e.workbookQuestions <=> (r \in d.workbookQuestions /\ r.workbook # x) \/ r \in PlacesFor(y, x)
  <2> DEFINE b == Rewritten(d, x, y.workbooks[x].title, category[x])
             c == DeleteWorkbookQuestions(b, x)
             e == bulkInsertWorkbookQuestions(c, x, y.workbooks[x].questions)
  <2>1. e = ChangeWorkbook(y, category, d, x)
    BY DEF ChangeWorkbook, Rewritten
  <2>2. /\ Same(d, b, {"workbooks"})
        /\ \A r : r \in b.workbooks <=> \E s \in d.workbooks : r = Retitled(y, x, category[x], s)
    BY DEF Rewritten, Retitled
  <2> HIDE DEF b
  <2>3. /\ Same(b, c, {"workbookQuestions"})
        /\ \A r : r \in c.workbookQuestions <=> r \in b.workbookQuestions /\ r.workbook # x
    BY <2>2 DEF DeleteWorkbookQuestions
  <2> HIDE DEF c
  <2>4. AllTables(c)
    BY <2>2, <2>3
  <2>5. /\ Same(c, e, {"workbookQuestions"})
        /\ e.workbookQuestions = c.workbookQuestions \cup PlacesFor(y, x)
    <3> HIDE DEF AllTables, Same
    <3> QED
      BY <2>4, PlacesInserted
  <2> HIDE DEF e
  <2>6. /\ Same(d, e, {"workbooks", "workbookQuestions"})
        /\ \A r : r \in e.workbooks <=> \E s \in d.workbooks : r = Retitled(y, x, category[x], s)
        /\ \A r : r \in e.workbookQuestions <=> (r \in d.workbookQuestions /\ r.workbook # x) \/ r \in PlacesFor(y, x)
    BY <2>2, <2>3, <2>5
  <2> HIDE DEF Same
  <2> QED
    BY <2>1, <2>6
<1> HIDE DEF AllTables, Same
<1> QED
  BY <1>1

(* The importer's.                                                          *)
LEMMA NthChoiceEffects ==
  ASSUME NEW d, AllTables(d), NEW y, NEW x, NEW i
  PROVE  LET e == ImportNthChoice(y, x, d, i)
         IN  /\ Same(d, e, {"choices"})
             /\ e.choices = IF \E c \in d.choices : c.question = x /\ c.index = i - 1 THEN d.choices
                            ELSE d.choices \cup {ChoiceRow(y, x, i)}
<1> USE DEF AllTables, Same, TableNames, Serial
<1>1. LET e == ImportNthChoice(y, x, d, i)
      IN  /\ Same(d, e, {"choices"})
          /\ e.choices = IF \E c \in d.choices : c.question = x /\ c.index = i - 1 THEN d.choices
                         ELSE d.choices \cup {ChoiceRow(y, x, i)}
  <2> DEFINE c == [index |-> i - 1, text |-> y.questions[x].choices[i],
                   correct |-> i - 1 = y.questions[x].correct]
  <2>1. With(c, "question", x) = ChoiceRow(y, x, i)
    BY DEF With, ChoiceRow
  <2>2. c.index = i - 1
    OBVIOUS
  <2>3. ImportNthChoice(y, x, d, i) = ImportChoice(d, x, c)
    BY DEF ImportNthChoice
  <2> HIDE DEF c
  <2> QED
    BY <2>1, <2>2, <2>3 DEF ImportChoice
<1> HIDE DEF AllTables, Same
<1> QED
  BY <1>1
LEMMA NthImageEffects ==
  ASSUME NEW d, AllTables(d), NEW y, NEW x, NEW i
  PROVE  LET e == ImportNthImage(y, x, d, i)
             new == ShownRow(y, x, i)
         IN  /\ Same(d, e, {"questionImages"})
             /\ e.questionImages = IF \E r \in d.questionImages :
                                        r.question = x /\ (r.image = new.image \/ r.order = new.order)
                                   THEN d.questionImages ELSE d.questionImages \cup {new}
<1> USE DEF AllTables, Same, TableNames, Serial
<1>1. LET e == ImportNthImage(y, x, d, i)
          new == ShownRow(y, x, i)
      IN  /\ Same(d, e, {"questionImages"})
          /\ e.questionImages = IF \E r \in d.questionImages :
                                     r.question = x /\ (r.image = new.image \/ r.order = new.order)
                                THEN d.questionImages ELSE d.questionImages \cup {new}
  BY DEF ImportNthImage, ImportQuestionImage, ShownRow
<1> HIDE DEF AllTables, Same
<1> QED
  BY <1>1
LEMMA NthQuestionEffects ==
  ASSUME NEW d, AllTables(d), NEW y, NEW x, NEW i
  PROVE  LET e == ImportNthQuestion(y, x, d, i)
             new == PlaceRow(y, x, i)
         IN  /\ Same(d, e, {"workbookQuestions"})
             /\ e.workbookQuestions = IF \E r \in d.workbookQuestions :
                                           r.workbook = x /\ r.question = new.question
                                      THEN d.workbookQuestions ELSE d.workbookQuestions \cup {new}
<1> USE DEF AllTables, Same, TableNames, Serial
<1>1. LET e == ImportNthQuestion(y, x, d, i)
          new == PlaceRow(y, x, i)
      IN  /\ Same(d, e, {"workbookQuestions"})
          /\ e.workbookQuestions = IF \E r \in d.workbookQuestions :
                                        r.workbook = x /\ r.question = new.question
                                   THEN d.workbookQuestions ELSE d.workbookQuestions \cup {new}
  BY DEF ImportNthQuestion, ImportWorkbookQuestion, PlaceRow
<1> HIDE DEF AllTables, Same
<1> QED
  BY <1>1
NthMoved(y, x, i, d, e) ==
  /\ Same(d, e, {"workbooks"})
  /\ e.workbooks = {IF w.id = y.categories[x].workbooks[i]
                    THEN [w EXCEPT !.category = x] ELSE w : w \in d.workbooks}
LEMMA NthWorkbookEffects ==
  ASSUME NEW d, AllTables(d), NEW y, NEW x, NEW i
  PROVE  NthMoved(y, x, i, d, ImportNthWorkbook(y, x, d, i))
<1> USE DEF AllTables, Same, TableNames, Serial
<1>1. LET e == ImportNthWorkbook(y, x, d, i)
      IN  /\ Same(d, e, {"workbooks"})
          /\ e.workbooks = {IF w.id = y.categories[x].workbooks[i]
                            THEN [w EXCEPT !.category = x] ELSE w : w \in d.workbooks}
  BY DEF ImportNthWorkbook, SetWorkbookCategory
<1> HIDE DEF AllTables, Same
<1> QED
  BY <1>1 DEF NthMoved
QuestionBegun(y, x, d, e) ==
  /\ Same(d, e, {"questions", "singleChoices"})
  /\ e.questions = d.questions \cup {x}
  /\ e.singleChoices = IF \E s \in d.singleChoices : s.question = x
                       THEN {Retexted(y, x, s) : s \in d.singleChoices}
                       ELSE d.singleChoices \cup {TextRow(y, x)}
LEMMA QuestionStarts ==
  ASSUME NEW d, AllTables(d), NEW y, NEW x
  PROVE  QuestionBegun(y, x, d, ImportSingleChoice(ImportQuestion(d, x), x, y.questions[x].text))
<1> USE DEF AllTables, Same, TableNames, Serial
<1>1. LET e == ImportSingleChoice(ImportQuestion(d, x), x, y.questions[x].text)
      IN  /\ Same(d, e, {"questions", "singleChoices"})
          /\ e.questions = d.questions \cup {x}
          /\ e.singleChoices = IF \E s \in d.singleChoices : s.question = x
                               THEN {Retexted(y, x, s) : s \in d.singleChoices}
                               ELSE d.singleChoices \cup {TextRow(y, x)}
  <2> DEFINE c == ImportQuestion(d, x)
             e == ImportSingleChoice(c, x, y.questions[x].text)
  <2>1. Same(d, c, {"questions"}) /\ c.questions = d.questions \cup {x}
    BY DEF ImportQuestion, CreateQuestion
  <2> HIDE DEF c
  <2>2. GetQuestionByID(c, x) = {} <=> ~\E s \in d.singleChoices : s.question = x
    BY <2>1 DEF GetQuestionByID
  <2>3. /\ Same(c, e, {"singleChoices"})
        /\ e.singleChoices = IF \E s \in d.singleChoices : s.question = x
                             THEN {Retexted(y, x, s) : s \in d.singleChoices}
                             ELSE d.singleChoices \cup {TextRow(y, x)}
    BY <2>1, <2>2 DEF ImportSingleChoice, CreateSingleChoice, UpdateSingleChoice, Retexted, TextRow
  <2> HIDE DEF e
  <2>4. Same(d, e, {"questions", "singleChoices"}) /\ e.questions = d.questions \cup {x}
    BY <2>1, <2>3
  <2> HIDE DEF Same
  <2> QED
    BY <2>3, <2>4 DEF e, c
<1> HIDE DEF AllTables, Same
<1> QED
  BY <1>1 DEF QuestionBegun
WorkbookBegun(y, x, d, e) ==
  /\ Same(d, e, {"workbooks"})
  /\ e.workbooks = IF \E w \in d.workbooks : w.id = x THEN d.workbooks
                   ELSE d.workbooks \cup {WorkbookLine(y, x, NoCategory)}
LEMMA WorkbookStarts ==
  ASSUME NEW d, AllTables(d), NEW y, NEW x
  PROVE  WorkbookBegun(y, x, d, ImportWorkbook(d, x, y.workbooks[x].title))
<1> USE DEF AllTables, Same, TableNames, Serial
<1>1. LET e == ImportWorkbook(d, x, y.workbooks[x].title)
      IN  /\ Same(d, e, {"workbooks"})
          /\ e.workbooks = IF \E w \in d.workbooks : w.id = x THEN d.workbooks
                           ELSE d.workbooks \cup {WorkbookLine(y, x, NoCategory)}
  BY DEF ImportWorkbook, CreateWorkbook, WorkbookExists, WorkbookLine
<1> HIDE DEF AllTables, Same
<1> QED
  BY <1>1 DEF WorkbookBegun
CategoryBegun(y, x, d, e) ==
  /\ Same(d, e, {"categories"})
  /\ e.categories = IF \E c \in d.categories : c.id = x THEN d.categories
                    ELSE d.categories \cup {CategoryRow(y, x)}
LEMMA CategoryStarts ==
  ASSUME NEW d, AllTables(d), NEW y, NEW x
  PROVE  CategoryBegun(y, x, d, ImportCategory(d, x, y.categories[x].title))
<1> USE DEF AllTables, Same, TableNames, Serial
<1>1. LET e == ImportCategory(d, x, y.categories[x].title)
      IN  /\ Same(d, e, {"categories"})
          /\ e.categories = IF \E c \in d.categories : c.id = x THEN d.categories
                            ELSE d.categories \cup {CategoryRow(y, x)}
  BY DEF ImportCategory, CreateCategory, CategoryExists, CategoryRow
<1> HIDE DEF AllTables, Same
<1> QED
  BY <1>1 DEF CategoryBegun

-----------------------------------------------------------------------------
(* The rows of several of its entries have the columns of their tables.     *)
ImagesFor(y, S) == {ImageRow(y, x) : x \in S}
TextsFor(y, S) == {TextRow(y, x) : x \in S}
AllChoices(y, S) == UNION {ChoicesFor(y, x) : x \in S}
AllShown(y, S) == UNION {ShownFor(y, x) : x \in S}
AllPlaces(y, S) == UNION {PlacesFor(y, x) : x \in S}
TitlesFor(y, S) == {CategoryRow(y, x) : x \in S}

LEMMA UnionOfRows ==
  ASSUME NEW S, IsFiniteSet(S), NEW f, \A x \in S : IsFiniteSet(f[x])
  PROVE  IsFiniteSet(UNION {f[x] : x \in S})
<1> DEFINE V == {f[x] : x \in S}
<1>1. IsFiniteSet(V) /\ \A v \in V : IsFiniteSet(v)
  BY RewrittenRows
<1> HIDE DEF V
<1>2. IsFiniteSet(UNION V)
  BY <1>1, FS_UNION
<1> QED
  BY <1>2 DEF V

LEMMA EntriesOf ==
  ASSUME NEW y, DirectoryOK(y)
  PROVE  /\ \A q \in DOMAIN y.questions :
              /\ y.questions[q].choices \in Seq(STRING) /\ y.questions[q].images \in Seq(Nat)
              /\ y.questions[q].correct \in Int
         /\ \A w \in DOMAIN y.workbooks : y.workbooks[w].questions \in Seq(Nat)
         /\ \A c \in DOMAIN y.categories : y.categories[c].workbooks \in Seq(Nat)
         /\ \A S : S \subseteq DOMAIN y.questions => IsFiniteSet(S) /\ S \subseteq IdNumbers
         /\ \A S : S \subseteq DOMAIN y.workbooks => IsFiniteSet(S) /\ S \subseteq IdNumbers
         /\ \A S : S \subseteq DOMAIN y.categories => IsFiniteSet(S) /\ S \subseteq IdNumbers
         /\ \A S : S \subseteq DOMAIN y.images => IsFiniteSet(S) /\ S \subseteq IdNumbers
<1>1. \A t \in Tables : \A S : S \subseteq DOMAIN y[t] => IsFiniteSet(S) /\ S \subseteq IdNumbers
  BY FS_Subset DEF DirectoryOK
<1>2. /\ \A q \in DOMAIN y.questions :
           /\ y.questions[q].choices \in Seq(STRING) /\ y.questions[q].images \in Seq(Nat)
           /\ y.questions[q].correct \in Int
      /\ \A w \in DOMAIN y.workbooks : y.workbooks[w].questions \in Seq(Nat)
      /\ \A c \in DOMAIN y.categories : y.categories[c].workbooks \in Seq(Nat)
  BY DEF DirectoryOK
<1> QED
  BY <1>1, <1>2 DEF Tables

LEMMA EntryRows ==
  ASSUME NEW s, Len(s) \in Nat, DOMAIN s = 1 .. Len(s), NEW f
  PROVE  IsFiniteSet({f[i] : i \in DOMAIN s})
<1>1. IsFiniteSet(DOMAIN s)
  BY FS_Interval
<1> QED
  BY <1>1, RewrittenRows

LEMMA DetailsTyped ==
  ASSUME NEW y, DirectoryOK(y)
  PROVE  /\ \A q \in DOMAIN y.questions : ChoiceRows(ChoicesFor(y, q)) /\ OrderRows(ShownFor(y, q))
         /\ \A w \in DOMAIN y.workbooks : OrderRows(PlacesFor(y, w))
<1>2. ASSUME NEW q \in DOMAIN y.questions
      PROVE  ChoiceRows(ChoicesFor(y, q)) /\ OrderRows(ShownFor(y, q))
  <2> DEFINE cs == y.questions[q].choices
             images == y.questions[q].images
             f == [i \in DOMAIN cs |-> ChoiceRow(y, q, i)]
             g == [i \in DOMAIN images |-> ShownRow(y, q, i)]
  <2>1. cs \in Seq(STRING) /\ images \in Seq(Nat)
    BY EntriesOf
  <2>2. /\ Len(cs) \in Nat /\ DOMAIN cs = 1 .. Len(cs)
        /\ Len(images) \in Nat /\ DOMAIN images = 1 .. Len(images)
    BY <2>1
  <2>3. /\ ChoicesFor(y, q) = {f[i] : i \in DOMAIN cs}
        /\ ShownFor(y, q) = {g[i] : i \in DOMAIN images}
    BY DEF ChoicesFor, ShownFor
  <2>4. /\ \A i \in DOMAIN cs : f[i].index = i - 1 /\ f[i].correct \in BOOLEAN
        /\ \A i \in DOMAIN images : g[i].order = i - 1
    BY DEF ChoiceRow, ShownRow
  <2> HIDE DEF f, g, cs, images
  <2>5. \A i : (i \in DOMAIN cs \/ i \in DOMAIN images) => i - 1 \in Nat
    BY <2>2
  <2>6. IsFiniteSet(ChoicesFor(y, q)) /\ IsFiniteSet(ShownFor(y, q))
    <3>1. IsFiniteSet({f[i] : i \in DOMAIN cs})
      BY <2>2, EntryRows
    <3>2. IsFiniteSet({g[i] : i \in DOMAIN images})
      BY <2>2, EntryRows
    <3> QED
      BY <2>3, <3>1, <3>2
  <2>7. /\ \A r \in ChoicesFor(y, q) : r.index \in Nat /\ r.correct \in BOOLEAN
        /\ \A r \in ShownFor(y, q) : r.order \in Nat
    BY <2>3, <2>4, <2>5
  <2> QED
    BY <2>6, <2>7 DEF ChoiceRows, OrderRows
<1>3. ASSUME NEW w \in DOMAIN y.workbooks PROVE OrderRows(PlacesFor(y, w))
  <2> DEFINE qs == y.workbooks[w].questions
             f == [i \in DOMAIN qs |-> PlaceRow(y, w, i)]
  <2>1. qs \in Seq(Nat)
    BY EntriesOf
  <2>2. Len(qs) \in Nat /\ DOMAIN qs = 1 .. Len(qs)
    BY <2>1
  <2>3. PlacesFor(y, w) = {f[i] : i \in DOMAIN qs}
    BY DEF PlacesFor
  <2>4. \A i \in DOMAIN qs : f[i].order = i - 1
    BY DEF PlaceRow
  <2> HIDE DEF f, qs
  <2>5. \A i \in DOMAIN qs : i - 1 \in Nat
    BY <2>2
  <2>6. IsFiniteSet({f[i] : i \in DOMAIN qs})
    BY <2>2, EntryRows
  <2> QED
    BY <2>3, <2>4, <2>5, <2>6 DEF OrderRows
<1> QED
  BY <1>2, <1>3

LEMMA FilledTyped ==
  ASSUME NEW y, DirectoryOK(y)
  PROVE  /\ \A S : S \subseteq DOMAIN y.images => IdRows(ImagesFor(y, S))
         /\ \A S : S \subseteq DOMAIN y.questions =>
              TextRows(TextsFor(y, S)) /\ ChoiceRows(AllChoices(y, S)) /\ OrderRows(AllShown(y, S))
         /\ \A S : S \subseteq DOMAIN y.workbooks => OrderRows(AllPlaces(y, S))
         /\ \A S : S \subseteq DOMAIN y.categories => NamedRows(TitlesFor(y, S))
<1>1. ASSUME NEW S, S \subseteq DOMAIN y.images PROVE IdRows(ImagesFor(y, S))
  <2> DEFINE f == [x \in S |-> ImageRow(y, x)]
  <2>1. IsFiniteSet(S) /\ S \subseteq IdNumbers
    BY <1>1, EntriesOf
  <2>2. IsFiniteSet({f[x] : x \in S})
    BY <2>1, RewrittenRows
  <2>3. {f[x] : x \in S} = ImagesFor(y, S)
    BY DEF ImagesFor
  <2> QED
    BY <2>1, <2>2, <2>3 DEF IdRows, ImagesFor, ImageRow
<1>2. ASSUME NEW S, S \subseteq DOMAIN y.categories PROVE NamedRows(TitlesFor(y, S))
  <2> DEFINE f == [x \in S |-> CategoryRow(y, x)]
  <2>1. IsFiniteSet(S) /\ S \subseteq IdNumbers
    BY <1>2, EntriesOf
  <2>2. IsFiniteSet({f[x] : x \in S})
    BY <2>1, RewrittenRows
  <2>3. {f[x] : x \in S} = TitlesFor(y, S)
    BY DEF TitlesFor
  <2> QED
    BY <2>1, <2>2, <2>3 DEF NamedRows, IdRows, TitlesFor, CategoryRow
<1>3. ASSUME NEW S, S \subseteq DOMAIN y.questions
      PROVE  TextRows(TextsFor(y, S)) /\ ChoiceRows(AllChoices(y, S)) /\ OrderRows(AllShown(y, S))
  <2> DEFINE f == [x \in S |-> TextRow(y, x)]
             g == [x \in S |-> ChoicesFor(y, x)]
             h == [x \in S |-> ShownFor(y, x)]
  <2>1. IsFiniteSet(S)
    BY <1>3, EntriesOf
  <2>2. IsFiniteSet({f[x] : x \in S})
    BY <2>1, RewrittenRows
  <2>3. {f[x] : x \in S} = TextsFor(y, S)
    BY DEF TextsFor
  <2>4. TextRows(TextsFor(y, S))
    BY <2>2, <2>3 DEF TextRows, TextsFor, TextRow
  <2>5. \A x \in S : ChoiceRows(g[x]) /\ OrderRows(h[x])
    BY <1>3, DetailsTyped
  <2>6. AllChoices(y, S) = UNION {g[x] : x \in S} /\ AllShown(y, S) = UNION {h[x] : x \in S}
    BY DEF AllChoices, AllShown
  <2> HIDE DEF g, h
  <2>7. IsFiniteSet(AllChoices(y, S)) /\ IsFiniteSet(AllShown(y, S))
    BY <2>1, <2>5, <2>6, UnionOfRows DEF ChoiceRows, OrderRows
  <2> QED
    BY <2>4, <2>5, <2>6, <2>7 DEF ChoiceRows, OrderRows
<1>4. ASSUME NEW S, S \subseteq DOMAIN y.workbooks PROVE OrderRows(AllPlaces(y, S))
  <2> DEFINE g == [x \in S |-> PlacesFor(y, x)]
  <2>1. IsFiniteSet(S)
    BY <1>4, EntriesOf
  <2>2. \A x \in S : OrderRows(g[x])
    BY <1>4, DetailsTyped
  <2>3. AllPlaces(y, S) = UNION {g[x] : x \in S}
    BY DEF AllPlaces
  <2> HIDE DEF g
  <2>4. IsFiniteSet(AllPlaces(y, S))
    BY <2>1, <2>2, <2>3, UnionOfRows DEF OrderRows
  <2> QED
    BY <2>2, <2>3, <2>4 DEF OrderRows
<1> QED
  BY <1>1, <1>2, <1>3, <1>4

-----------------------------------------------------------------------------
(* What a loop over S makes of a table t, when each of its statements       *)
(* deletes the rows with its number in a column (by), and writes others.    *)
Fresh(y, a, t, x) ==
  CASE t = "images"            -> {ImageRow(y, x)}
    [] t = "questions"         -> {x}
    [] t = "singleChoices"     -> {TextRow(y, x)}
    [] t = "choices"           -> ChoicesFor(y, x)
    [] t = "questionImages"    -> ShownFor(y, x)
    [] t = "workbookQuestions" -> PlacesFor(y, x)
    [] t = "workbooks"         -> {WorkbookLine(y, x, a[x])}
    [] t = "categories"        -> IF x \in a.delete THEN {} ELSE {CategoryRow(y, x)}
Key(by, row) == IF by = "itself" THEN row ELSE row[by]
Effect(y, a, d, e, t, by, fills, x) ==
  \A row : row \in e[t] <=> \/ row \in d[t] /\ (by = "none" \/ Key(by, row) # x)
                            \/ fills /\ row \in Fresh(y, a, t, x)

(* What the statements of a loop rely on, and leave for the next.           *)
Ready(op, y, a, S, d) ==
  /\ AllTables(d)
  /\ op = "ChangeQuestion" => /\ TextRows(d.singleChoices)
                              /\ \A q \in S : \E s \in d.singleChoices : s.question = q
  /\ op \in {"ChangeWorkbook", "SyncCategory"} => BookRows(d.workbooks)
  /\ op = "SyncCategory" =>
       /\ NamedRows(d.categories) /\ IsFiniteSet(d.appCategories)
       /\ \A x \in S : x \in a.delete \/ x \in a.add \/ \E c \in d.categories : c.id = x
       /\ \A c \in d.categories : c.id \in a.add => c = CategoryRow(y, c.id)
Proceeds(op, y, a, S, F) ==
  \A d, x : (Ready(op, y, a, S, d) /\ x \in S) => LET e == Statement(op, y, a, d, x)
                                                   IN  Ready(op, y, a, S, e) /\ Same(d, e, F)
Rewrites(op, y, a, S, t, by, fills) ==
  \A d, x : (Ready(op, y, a, S, d) /\ x \in S) =>
              Effect(y, a, d, Statement(op, y, a, d, x), t, by, fills, x)
OwnColumn(y, a, S, t, by) == \A x \in S : \A row \in Fresh(y, a, t, x) : Key(by, row) = x

(* A loop, unrolled.                                                        *)
Unrolled(op, y, a, S, b, r, n, ids, f) ==
  /\ n \in Nat /\ S = {ids[i] : i \in 1 .. n} /\ f[0] = b /\ f[n] = r
  /\ \A i \in 1 .. n : f[i] = Statement(op, y, a, f[i - 1], ids[i])
LEMMA LoopUnrolled ==
  ASSUME NEW op, NEW y, NEW a, NEW S, Numbers(S), NEW b, NEW r, ForAll(op, y, a, S, b, r)
  PROVE  \E n, ids, f : Unrolled(op, y, a, S, b, r, n, ids, f)
<1> DEFINE n == Cardinality(S)
           ids == Ascending(S)
<1>1. /\ n \in Nat /\ \A i \in 1 .. n : ids[i] \in S
      /\ \A s \in S : \E i \in 1 .. n : ids[i] = s
  BY NumbersInOrder DEF Numbers
<1>2. Loop(op, y, a, ids, n, b, r)
  BY DEF ForAll
<1> HIDE DEF n, ids
<1>3. S = {ids[i] : i \in 1 .. n}
  BY <1>1
<1>4. PICK f : f[0] = b /\ f[n] = r /\ \A i \in 1 .. n : f[i] = Statement(op, y, a, f[i - 1], ids[i])
  BY <1>2 DEF Loop
<1>5. Unrolled(op, y, a, S, b, r, n, ids, f)
  BY <1>1, <1>3, <1>4 DEF Unrolled
<1> QED
  BY <1>5
LEMMA LoopReady ==
  ASSUME NEW op, NEW y, NEW a, NEW S, NEW b, NEW r, NEW n, NEW ids, NEW f,
         Unrolled(op, y, a, S, b, r, n, ids, f), NEW F, Proceeds(op, y, a, S, F), Ready(op, y, a, S, b)
  PROVE  \A i \in 0 .. n : Ready(op, y, a, S, f[i]) /\ Same(b, f[i], F)
<1> DEFINE G == {i \in 0 .. n : Ready(op, y, a, S, f[i]) /\ Same(b, f[i], F)}
<1>1. n \in Nat /\ f[0] = b
  BY DEF Unrolled
<1>2. 0 \in G
  BY <1>1 DEF Same
<1>3. ASSUME NEW i \in 1 .. n, i - 1 \in G PROVE i \in G
  <2>1. f[i] = Statement(op, y, a, f[i - 1], ids[i]) /\ ids[i] \in S
    BY DEF Unrolled
  <2>2. Ready(op, y, a, S, f[i - 1]) /\ Same(b, f[i - 1], F)
    BY <1>3
  <2>3. Ready(op, y, a, S, f[i]) /\ Same(f[i - 1], f[i], F)
    BY <2>1, <2>2 DEF Proceeds
  <2>4. Same(b, f[i], F)
    BY <2>2, <2>3 DEF Same
  <2> QED
    BY <1>1, <2>3, <2>4
<1> HIDE DEF G
<1>4. \A i \in 0 .. n : i \in G
  BY <1>1, <1>2, <1>3, Climb
<1> QED
  BY <1>4 DEF G
LEMMA LoopSame ==
  ASSUME NEW op, NEW y, NEW a, NEW S, Numbers(S), NEW b, NEW r, ForAll(op, y, a, S, b, r),
         NEW F, Proceeds(op, y, a, S, F), Ready(op, y, a, S, b)
  PROVE  Ready(op, y, a, S, r) /\ Same(b, r, F)
<1>1. PICK n, ids, f : Unrolled(op, y, a, S, b, r, n, ids, f)
  BY LoopUnrolled
<1>2. \A i \in 0 .. n : Ready(op, y, a, S, f[i]) /\ Same(b, f[i], F)
  BY <1>1, LoopReady
<1>3. n \in 0 .. n /\ f[n] = r
  BY <1>1 DEF Unrolled
<1> QED
  BY <1>2, <1>3
RowsAfter(y, a, S, t, by, fills, b, r) ==
  \A row : row \in r[t] <=> \/ row \in b[t] /\ (by = "none" \/ Key(by, row) \notin S)
                            \/ fills /\ \E x \in S : row \in Fresh(y, a, t, x)
LEMMA LoopRewrites ==
  ASSUME NEW op, NEW y, NEW a, NEW S, Numbers(S), NEW b, NEW r, ForAll(op, y, a, S, b, r),
         NEW F, Proceeds(op, y, a, S, F), Ready(op, y, a, S, b),
         NEW t, NEW by, NEW fills, Rewrites(op, y, a, S, t, by, fills),
         by # "none" /\ fills => OwnColumn(y, a, S, t, by)
  PROVE  RowsAfter(y, a, S, t, by, fills, b, r)
<1>1. PICK n, ids, f : Unrolled(op, y, a, S, b, r, n, ids, f)
  BY LoopUnrolled
<1>2. \A i \in 0 .. n : Ready(op, y, a, S, f[i])
  BY <1>1, LoopReady
<1>3. n \in Nat /\ f[0] = b /\ f[n] = r
  BY <1>1 DEF Unrolled
<1> DEFINE Done(i) == {ids[j] : j \in 1 .. i}
           G == {i \in 0 .. n : \A row : row \in f[i][t] <=>
                   \/ row \in b[t] /\ (by = "none" \/ Key(by, row) \notin Done(i))
                   \/ fills /\ \E x \in Done(i) : row \in Fresh(y, a, t, x)}
<1>4. Done(0) = {} /\ Done(n) = S
  BY <1>1 DEF Unrolled
<1>5. 0 \in G
  <2> HIDE DEF Done
  <2> QED
    BY <1>3, <1>4
<1>6. ASSUME NEW i \in 1 .. n, i - 1 \in G PROVE i \in G
  <2>1. f[i] = Statement(op, y, a, f[i - 1], ids[i]) /\ ids[i] \in S /\ Done(i) \subseteq S
    BY <1>1 DEF Unrolled
  <2>2. Done(i) = Done(i - 1) \cup {ids[i]} /\ i - 1 \in 0 .. n
    BY <1>3
  <2>3. Effect(y, a, f[i - 1], f[i], t, by, fills, ids[i])
    BY <1>2, <2>1, <2>2 DEF Rewrites
  <2>4. \A row : row \in f[i - 1][t] <=>
             \/ row \in b[t] /\ (by = "none" \/ Key(by, row) \notin Done(i - 1))
             \/ fills /\ \E x \in Done(i - 1) : row \in Fresh(y, a, t, x)
    BY <1>6
  <2> HIDE DEF Done
  <2>5. \A row : row \in f[i][t] <=> \/ row \in f[i - 1][t] /\ (by = "none" \/ Key(by, row) # ids[i])
                                     \/ fills /\ row \in Fresh(y, a, t, ids[i])
    BY <2>3 DEF Effect
  <2>6. by # "none" /\ fills =>
          \A x \in Done(i) : \A row \in Fresh(y, a, t, x) : Key(by, row) = x
    BY <2>1 DEF OwnColumn
  <2>7. \A row : row \in f[i][t] <=> \/ row \in b[t] /\ (by = "none" \/ Key(by, row) \notin Done(i))
                                     \/ fills /\ \E x \in Done(i) : row \in Fresh(y, a, t, x)
    <3>1. CASE by = "none"
      BY <2>2, <2>4, <2>5, <3>1
    <3>2. CASE by # "none" /\ ~fills
      BY <2>2, <2>4, <2>5, <3>2
    <3>3. CASE by # "none" /\ fills
      BY <2>2, <2>4, <2>5, <2>6, <3>3
    <3> QED
      BY <3>1, <3>2, <3>3
  <2> QED
    BY <2>7
<1>7. n \in G
  <2> HIDE DEF G
  <2> QED
    BY <1>3, <1>5, <1>6, Climb
<1> HIDE DEF Done
<1> QED
  BY <1>3, <1>4, <1>7 DEF RowsAfter

LEMMA OwnColumns ==
  ASSUME NEW y, NEW a, NEW S
  PROVE  /\ OwnColumn(y, a, S, "images", "id") /\ OwnColumn(y, a, S, "questions", "itself")
         /\ OwnColumn(y, a, S, "singleChoices", "question") /\ OwnColumn(y, a, S, "choices", "question")
         /\ OwnColumn(y, a, S, "questionImages", "question")
         /\ OwnColumn(y, a, S, "workbookQuestions", "workbook")
         /\ OwnColumn(y, a, S, "categories", "id")
BY DEF OwnColumn, Fresh, Key, ImageRow, TextRow, ChoicesFor, ChoiceRow, ShownFor, ShownRow,
       PlacesFor, PlaceRow, CategoryRow

LEMMA SameKeepsTables ==
  ASSUME NEW d, AllTables(d), NEW e, NEW F, Same(d, e, F)
  PROVE  AllTables(e)
BY DEF AllTables, Same

LEMMA ImageLoops ==
  ASSUME NEW y, NEW S
  PROVE  /\ Proceeds("PutImage", y, 0, S, {"images"})
         /\ Rewrites("PutImage", y, 0, S, "images", "id", TRUE)
         /\ Proceeds("DropImage", y, 0, S, {"images", "questionImages"})
         /\ Rewrites("DropImage", y, 0, S, "images", "id", FALSE)
         /\ Rewrites("DropImage", y, 0, S, "questionImages", "image", FALSE)
<1>1. ASSUME NEW d, NEW x \in S, Ready("PutImage", y, 0, S, d)
      PROVE  LET e == Statement("PutImage", y, 0, d, x)
             IN  /\ Ready("PutImage", y, 0, S, e) /\ Same(d, e, {"images"})
                 /\ Effect(y, 0, d, e, "images", "id", TRUE, x)
  <2> DEFINE e == PutImage(y, d, x)
  <2>1. AllTables(d)
    BY <1>1 DEF Ready
  <2>2. /\ Same(d, e, {"images"})
        /\ \A r : r \in e.images <=> (r \in d.images /\ r.id # x) \/ r = ImageRow(y, x)
    BY <2>1, PutImageEffects
  <2>3. Statement("PutImage", y, 0, d, x) = e
    BY DEF Statement
  <2> HIDE DEF e
  <2>4. AllTables(e)
    BY <2>1, <2>2, SameKeepsTables
  <2>5. Effect(y, 0, d, e, "images", "id", TRUE, x)
    BY <2>2 DEF Effect, Fresh, Key
  <2> QED
    BY <2>2, <2>3, <2>4, <2>5 DEF Ready
<1>2. ASSUME NEW d, NEW x \in S, Ready("DropImage", y, 0, S, d)
      PROVE  LET e == Statement("DropImage", y, 0, d, x)
             IN  /\ Ready("DropImage", y, 0, S, e) /\ Same(d, e, {"images", "questionImages"})
                 /\ Effect(y, 0, d, e, "images", "id", FALSE, x)
                 /\ Effect(y, 0, d, e, "questionImages", "image", FALSE, x)
  <2> DEFINE e == DropImage(d, x)
  <2>1. AllTables(d)
    BY <1>2 DEF Ready
  <2>2. /\ Same(d, e, {"images", "questionImages"})
        /\ \A r : r \in e.images <=> r \in d.images /\ r.id # x
        /\ \A r : r \in e.questionImages <=> r \in d.questionImages /\ r.image # x
    BY <2>1, DropImageEffects
  <2>3. Statement("DropImage", y, 0, d, x) = e
    BY DEF Statement
  <2> HIDE DEF e
  <2>4. AllTables(e)
    BY <2>1, <2>2, SameKeepsTables
  <2>5. /\ Effect(y, 0, d, e, "images", "id", FALSE, x)
        /\ Effect(y, 0, d, e, "questionImages", "image", FALSE, x)
    BY <2>2 DEF Effect, Key
  <2> QED
    BY <2>2, <2>3, <2>4, <2>5 DEF Ready
<1> QED
  BY <1>1, <1>2 DEF Proceeds, Rewrites

Rest == {"singleChoices", "choices", "questionImages"}
LEMMA QuestionLoops ==
  ASSUME NEW y, NEW S
  PROVE  /\ Proceeds("DeleteQuestion", y, 0, S, QuestionTables \cup {"workbookQuestions"})
         /\ Rewrites("DeleteQuestion", y, 0, S, "questions", "itself", FALSE)
         /\ \A t \in Rest \cup {"workbookQuestions"} :
              Rewrites("DeleteQuestion", y, 0, S, t, "question", FALSE)
         /\ Proceeds("AddQuestion", y, 0, S, QuestionTables)
         /\ \A t \in QuestionTables : Rewrites("AddQuestion", y, 0, S, t, "none", TRUE)
<1>1. ASSUME NEW d, NEW x \in S, Ready("DeleteQuestion", y, 0, S, d)
      PROVE  LET e == Statement("DeleteQuestion", y, 0, d, x)
             IN  /\ Ready("DeleteQuestion", y, 0, S, e)
                 /\ Same(d, e, QuestionTables \cup {"workbookQuestions"})
                 /\ Effect(y, 0, d, e, "questions", "itself", FALSE, x)
                 /\ \A t \in Rest \cup {"workbookQuestions"} : Effect(y, 0, d, e, t, "question", FALSE, x)
  <2> DEFINE e == DeleteQuestion(d, x)
  <2>1. AllTables(d)
    BY <1>1 DEF Ready
  <2>2. /\ Same(d, e, QuestionTables \cup {"workbookQuestions"})
        /\ e.questions = d.questions \ {x}
        /\ \A r : r \in e.singleChoices <=> r \in d.singleChoices /\ r.question # x
        /\ \A r : r \in e.choices <=> r \in d.choices /\ r.question # x
        /\ \A r : r \in e.questionImages <=> r \in d.questionImages /\ r.question # x
        /\ \A r : r \in e.workbookQuestions <=> r \in d.workbookQuestions /\ r.question # x
    BY <2>1, DeleteQuestionEffects
  <2>3. Statement("DeleteQuestion", y, 0, d, x) = e
    BY DEF Statement
  <2> HIDE DEF e
  <2>4. AllTables(e)
    BY <2>1, <2>2, SameKeepsTables
  <2>5. Effect(y, 0, d, e, "questions", "itself", FALSE, x)
    BY <2>2 DEF Effect, Key
  <2>6. \A t \in Rest \cup {"workbookQuestions"} : Effect(y, 0, d, e, t, "question", FALSE, x)
    BY <2>2 DEF Effect, Key, Rest
  <2> QED
    BY <2>2, <2>3, <2>4, <2>5, <2>6 DEF Ready
<1>2. ASSUME NEW d, NEW x \in S, Ready("AddQuestion", y, 0, S, d)
      PROVE  LET e == Statement("AddQuestion", y, 0, d, x)
             IN  /\ Ready("AddQuestion", y, 0, S, e) /\ Same(d, e, QuestionTables)
                 /\ \A t \in QuestionTables : Effect(y, 0, d, e, t, "none", TRUE, x)
  <2> DEFINE e == AddQuestion(y, d, x)
  <2>1. AllTables(d)
    BY <1>2 DEF Ready
  <2>2. /\ Same(d, e, QuestionTables)
        /\ e.questions = d.questions \cup {x}
        /\ e.singleChoices = d.singleChoices \cup {TextRow(y, x)}
        /\ e.choices = d.choices \cup ChoicesFor(y, x)
        /\ e.questionImages = d.questionImages \cup ShownFor(y, x)
    BY <2>1, AddQuestionEffects
  <2>3. Statement("AddQuestion", y, 0, d, x) = e
    BY DEF Statement
  <2> HIDE DEF e
  <2>4. AllTables(e)
    BY <2>1, <2>2, SameKeepsTables
  <2>5. \A t \in QuestionTables : Effect(y, 0, d, e, t, "none", TRUE, x)
    BY <2>2 DEF Effect, Fresh, QuestionTables
  <2> QED
    BY <2>2, <2>3, <2>4, <2>5 DEF Ready
<1> QED
  BY <1>1, <1>2 DEF Proceeds, Rewrites

LEMMA QuestionLoop ==
  ASSUME NEW y, NEW S
  PROVE  /\ Proceeds("ChangeQuestion", y, 0, S, Rest)
         /\ \A t \in Rest : Rewrites("ChangeQuestion", y, 0, S, t, "question", TRUE)
<1>1. ASSUME NEW d, NEW x \in S, Ready("ChangeQuestion", y, 0, S, d)
      PROVE  LET e == Statement("ChangeQuestion", y, 0, d, x)
             IN  /\ Ready("ChangeQuestion", y, 0, S, e) /\ Same(d, e, Rest)
                 /\ \A t \in Rest : Effect(y, 0, d, e, t, "question", TRUE, x)
  <2> DEFINE e == ChangeQuestion(y, d, x)
             f == [s \in d.singleChoices |-> Retexted(y, x, s)]
  <2>1. /\ AllTables(d) /\ TextRows(d.singleChoices)
        /\ \A q \in S : \E s \in d.singleChoices : s.question = q
    BY <1>1 DEF Ready
  <2>2. /\ Same(d, e, QuestionTables \ {"questions"})
        /\ \A r : r \in e.singleChoices <=> \E s \in d.singleChoices : r = Retexted(y, x, s)
        /\ \A r : r \in e.choices <=> (r \in d.choices /\ r.question # x) \/ r \in ChoicesFor(y, x)
        /\ \A r : r \in e.questionImages <=> \/ r \in d.questionImages /\ r.question # x
                                            \/ r \in ShownFor(y, x)
    BY <2>1, ChangeQuestionEffects
  <2>3. Statement("ChangeQuestion", y, 0, d, x) = e
    BY DEF Statement
  <2> HIDE DEF e
  <2>4. AllTables(e)
    BY <2>1, <2>2, SameKeepsTables
  <2>5. \A s \in d.singleChoices : Retexted(y, x, s) = IF s.question = x THEN TextRow(y, x) ELSE s
    BY <2>1 DEF TextRows, Retexted, TextRow
  <2>6. \A row : row \in e.singleChoices <=> \/ row \in d.singleChoices /\ row.question # x
                                             \/ row = TextRow(y, x)
    BY <2>1, <2>2, <2>5
  <2>7. Same(d, e, Rest)
    <3>1. QuestionTables \ {"questions"} = Rest
      BY DEF QuestionTables, Rest
    <3> QED
      BY <2>2, <3>1
  <2>8. \A t \in Rest : Effect(y, 0, d, e, t, "question", TRUE, x)
    <3> HIDE DEF f
    <3>1. Effect(y, 0, d, e, "singleChoices", "question", TRUE, x)
      BY <2>6 DEF Effect, Fresh, Key
    <3>2. Effect(y, 0, d, e, "choices", "question", TRUE, x)
      BY <2>2 DEF Effect, Fresh, Key
    <3>3. Effect(y, 0, d, e, "questionImages", "question", TRUE, x)
      BY <2>2 DEF Effect, Fresh, Key
    <3> QED
      BY <3>1, <3>2, <3>3 DEF Rest
  <2>9. TextRows(e.singleChoices)
    <3>1. IsFiniteSet({f[s] : s \in d.singleChoices})
      <4>1. IsFiniteSet(d.singleChoices)
        BY <2>1 DEF TextRows
      <4> HIDE DEF f
      <4> QED
        BY <4>1, RewrittenRows
    <3>2. {f[s] : s \in d.singleChoices} = e.singleChoices
      <4>1. \A s \in d.singleChoices : f[s] = Retexted(y, x, s)
        OBVIOUS
      <4> HIDE DEF f
      <4> QED
        BY <2>2, <4>1
    <3>3. DOMAIN TextRow(y, x) = {"question", "text"}
      BY DEF TextRow
    <3> QED
      BY <2>1, <2>6, <3>1, <3>2, <3>3 DEF TextRows
  <2>10. \A q \in S : \E s \in e.singleChoices : s.question = q
    <3>1. TextRow(y, x).question = x
      BY DEF TextRow
    <3> QED
      BY <2>1, <2>6, <3>1
  <2> QED
    BY <2>3, <2>4, <2>7, <2>8, <2>9, <2>10 DEF Ready
<1> QED
  BY <1>1 DEF Proceeds, Rewrites

LEMMA TypedByField ==
  ASSUME NEW x, NEW w, DOMAIN w = {"id", "title", "category", "published"}, NEW y, NEW a
  PROVE  /\ DOMAIN Moved(y, a, x, w) = DOMAIN w
         /\ Moved(y, a, x, w).id = w.id /\ Moved(y, a, x, w).title = w.title
         /\ Moved(y, a, x, w).published = w.published
         /\ Moved(y, a, x, w).category =
              IF x \notin a.delete /\ w.id \in Elems(y.categories[x].workbooks) THEN x
              ELSE IF (x \in a.delete \/ x \notin a.add) /\ w.category = x THEN NoCategory
              ELSE w.category
<1>1. /\ DOMAIN Loosened(x, w) = DOMAIN w /\ Loosened(x, w).id = w.id
      /\ Loosened(x, w).title = w.title /\ Loosened(x, w).published = w.published
      /\ Loosened(x, w).category = IF w.category = x THEN NoCategory ELSE w.category
  BY DEF Loosened
<1>2. ASSUME NEW v, DOMAIN v = {"id", "title", "category", "published"}
      PROVE  /\ DOMAIN Filed(y, x, v) = DOMAIN v /\ Filed(y, x, v).id = v.id
             /\ Filed(y, x, v).title = v.title /\ Filed(y, x, v).published = v.published
             /\ Filed(y, x, v).category = IF v.id \in Elems(y.categories[x].workbooks) THEN x
                                          ELSE v.category
  BY <1>2 DEF Filed
<1> QED
  BY <1>1, <1>2 DEF Moved

SyncTables(d) ==
  /\ AllTables(d) /\ BookRows(d.workbooks) /\ NamedRows(d.categories) /\ IsFiniteSet(d.appCategories)
LEMMA CategorySynced ==
  ASSUME NEW y, NEW a, NEW d, SyncTables(d), NEW x, x \in a.add => x \in IdNumbers
  PROVE  SyncTables(SyncCategory(y, a, d, x))
<1> DEFINE e == SyncCategory(y, a, d, x)
           f == [w \in d.workbooks |-> Moved(y, a, x, w)]
           row == CategoryRow(y, x)
<1>1. /\ AllTables(d) /\ BookRows(d.workbooks)
      /\ NamedRows(d.categories) /\ IsFiniteSet(d.appCategories)
  BY DEF SyncTables
<1>2. /\ Same(d, e, {"categories", "workbooks", "appCategories"})
      /\ \A r : r \in e.workbooks <=> \E s \in d.workbooks : r = Moved(y, a, x, s)
      /\ x \in a.delete => \A r : r \in e.categories <=> r \in d.categories /\ r.id # x
      /\ x \notin a.delete /\ x \in a.add =>
           \A r : r \in e.categories <=> r \in d.categories \/ r = row
      /\ x \notin a.delete /\ x \notin a.add =>
           \A r : r \in e.categories <=> \E s \in d.categories : r = Titled(y, x, s)
      /\ e.appCategories \subseteq d.appCategories
  BY <1>1, CategoryEffects
<1> HIDE DEF e
<1>3. AllTables(e)
  BY <1>1, <1>2, SameKeepsTables
<1>4. BookRows(e.workbooks)
  <2>1. IsFiniteSet({f[w] : w \in d.workbooks})
    <3>1. IsFiniteSet(d.workbooks)
      BY <1>1 DEF BookRows, IdRows
    <3> HIDE DEF f
    <3> QED
      BY <3>1, RewrittenRows
  <2>2. {f[w] : w \in d.workbooks} = e.workbooks
    <3>1. \A w \in d.workbooks : f[w] = Moved(y, a, x, w)
      OBVIOUS
    <3> HIDE DEF f
    <3> QED
      BY <1>2, <3>1
  <2>3. \A w \in d.workbooks : /\ w.id \in IdNumbers
                               /\ DOMAIN w = {"id", "title", "category", "published"}
    BY <1>1 DEF BookRows, IdRows
  <2>4. \A w \in d.workbooks : Moved(y, a, x, w).id = w.id /\ DOMAIN Moved(y, a, x, w) = DOMAIN w
    BY <2>3, TypedByField
  <2> QED
    BY <1>2, <2>1, <2>2, <2>3, <2>4 DEF BookRows, IdRows
<1>5. \A c \in d.categories : Titled(y, x, c) = IF c.id = x THEN row ELSE c
  BY <1>1 DEF NamedRows, Titled, CategoryRow
<1>6. row.id = x /\ DOMAIN row = {"id", "title"}
  BY DEF CategoryRow
<1> HIDE DEF row
<1>7. NamedRows(e.categories)
  <2>1. IsFiniteSet(d.categories \cup {row})
    BY <1>1, FS_Singleton, FS_Union DEF NamedRows, IdRows
  <2>2. \A r \in e.categories : r \in d.categories \/ (r = row /\ x \in IdNumbers)
    <3>1. \A c \in d.categories : c.id \in IdNumbers
      BY <1>1 DEF NamedRows, IdRows
    <3>2. CASE x \in a.delete
      BY <1>2, <3>2
    <3>3. CASE x \notin a.delete /\ x \in a.add
      BY <1>2, <3>3
    <3>4. CASE x \notin a.delete /\ x \notin a.add
      BY <1>2, <1>5, <3>1, <3>4
    <3> QED
      BY <3>2, <3>3, <3>4
  <2>3. IsFiniteSet(e.categories)
    <3>1. e.categories \subseteq d.categories \cup {row}
      BY <2>2
    <3> QED
      BY <2>1, <3>1, FS_Subset
  <2> QED
    BY <1>1, <1>6, <2>2, <2>3 DEF NamedRows, IdRows
<1>8. IsFiniteSet(e.appCategories)
  <2>1. e.appCategories \subseteq d.appCategories
    BY <1>2
  <2> QED
    BY <1>1, <2>1, FS_Subset
<1> QED
  BY <1>3, <1>4, <1>7, <1>8 DEF SyncTables, e
LEMMA CategoryLoop ==
  ASSUME NEW y, NEW a, NEW S, S \subseteq IdNumbers
  PROVE  /\ Proceeds("SyncCategory", y, a, S, {"categories", "workbooks", "appCategories"})
         /\ Rewrites("SyncCategory", y, a, S, "categories", "id", TRUE)
<1>1. ASSUME NEW d, NEW x \in S, Ready("SyncCategory", y, a, S, d)
      PROVE  LET e == Statement("SyncCategory", y, a, d, x)
             IN  /\ Ready("SyncCategory", y, a, S, e)
                 /\ Same(d, e, {"categories", "workbooks", "appCategories"})
                 /\ Effect(y, a, d, e, "categories", "id", TRUE, x)
  <2> DEFINE e == SyncCategory(y, a, d, x)
             row == CategoryRow(y, x)
  <2>1. /\ AllTables(d) /\ BookRows(d.workbooks)
        /\ NamedRows(d.categories) /\ IsFiniteSet(d.appCategories)
        /\ \A z \in S : z \in a.delete \/ z \in a.add \/ \E c \in d.categories : c.id = z
        /\ \A c \in d.categories : c.id \in a.add => c = CategoryRow(y, c.id)
    BY <1>1 DEF Ready
  <2>2. /\ Same(d, e, {"categories", "workbooks", "appCategories"})
        /\ \A r : r \in e.workbooks <=> \E s \in d.workbooks : r = Moved(y, a, x, s)
        /\ x \in a.delete => \A r : r \in e.categories <=> r \in d.categories /\ r.id # x
        /\ x \notin a.delete /\ x \in a.add =>
             \A r : r \in e.categories <=> r \in d.categories \/ r = row
        /\ x \notin a.delete /\ x \notin a.add =>
             \A r : r \in e.categories <=> \E s \in d.categories : r = Titled(y, x, s)
        /\ e.appCategories \subseteq d.appCategories
    BY <2>1, CategoryEffects
  <2>3. Statement("SyncCategory", y, a, d, x) = e
    BY DEF Statement
  <2> HIDE DEF e
  <2>5. SyncTables(e)
    <3>1. SyncTables(d) /\ x \in IdNumbers
      BY <2>1 DEF SyncTables
    <3> QED
      BY <3>1, CategorySynced DEF e
  <2>6. \A c \in d.categories : Titled(y, x, c) = IF c.id = x THEN row ELSE c
    BY <2>1 DEF NamedRows, Titled, CategoryRow
  <2>7. row.id = x /\ DOMAIN row = {"id", "title"}
    BY DEF CategoryRow
  <2> HIDE DEF row
  <2>8. \A r : r \in e.categories <=> \/ r \in d.categories /\ r.id # x
                                      \/ x \notin a.delete /\ r = row
    <3>1. CASE x \in a.delete
      BY <2>2, <3>1
    <3>2. CASE x \notin a.delete /\ x \in a.add
      <4>1. \A c \in d.categories : c.id = x => c = row
        BY <2>1, <3>2 DEF row
      <4> QED
        BY <2>2, <3>2, <4>1
    <3>3. CASE x \notin a.delete /\ x \notin a.add
      <4>1. \E c \in d.categories : c.id = x
        BY <2>1, <3>3
      <4> QED
        BY <2>2, <2>6, <3>3, <4>1
    <3> QED
      BY <3>1, <3>2, <3>3
  <2>9. Effect(y, a, d, e, "categories", "id", TRUE, x)
    BY <2>8 DEF Effect, Fresh, Key, row
  <2>11. /\ \A z \in S : z \in a.delete \/ z \in a.add \/ \E c \in e.categories : c.id = z
         /\ \A c \in e.categories : c.id \in a.add => c = CategoryRow(y, c.id)
    <3>1. row = CategoryRow(y, x)
      BY DEF row
    <3> QED
      BY <2>1, <2>7, <2>8, <3>1
  <2> QED
    BY <2>2, <2>3, <2>5, <2>9, <2>11 DEF Ready, SyncTables
<1> QED
  BY <1>1 DEF Proceeds, Rewrites

WorkbookTables == {"workbooks", "workbookQuestions"}
LEMMA WorkbookLoops ==
  ASSUME NEW y, NEW a, NEW S
  PROVE  /\ Proceeds("DeleteWorkbook", y, a, S, WorkbookTables)
         /\ Rewrites("DeleteWorkbook", y, a, S, "workbooks", "id", FALSE)
         /\ Rewrites("DeleteWorkbook", y, a, S, "workbookQuestions", "workbook", FALSE)
         /\ Proceeds("AddWorkbook", y, a, S, WorkbookTables)
         /\ \A t \in WorkbookTables : Rewrites("AddWorkbook", y, a, S, t, "none", TRUE)
<1>1. ASSUME NEW d, NEW x \in S, Ready("DeleteWorkbook", y, a, S, d)
      PROVE  LET e == Statement("DeleteWorkbook", y, a, d, x)
             IN  /\ Ready("DeleteWorkbook", y, a, S, e) /\ Same(d, e, WorkbookTables)
                 /\ Effect(y, a, d, e, "workbooks", "id", FALSE, x)
                 /\ Effect(y, a, d, e, "workbookQuestions", "workbook", FALSE, x)
  <2> DEFINE e == DeleteWorkbook(d, x)
  <2>1. AllTables(d)
    BY <1>1 DEF Ready
  <2>2. /\ Same(d, e, {"workbooks", "workbookQuestions"})
        /\ \A r : r \in e.workbooks <=> r \in d.workbooks /\ r.id # x
        /\ \A r : r \in e.workbookQuestions <=> r \in d.workbookQuestions /\ r.workbook # x
    BY <2>1, DeleteWorkbookEffects
  <2>3. Statement("DeleteWorkbook", y, a, d, x) = e
    BY DEF Statement
  <2> HIDE DEF e
  <2>4. AllTables(e)
    BY <2>1, <2>2, SameKeepsTables
  <2>5. /\ Effect(y, a, d, e, "workbooks", "id", FALSE, x)
        /\ Effect(y, a, d, e, "workbookQuestions", "workbook", FALSE, x)
    BY <2>2 DEF Effect, Key
  <2> QED
    BY <2>2, <2>3, <2>4, <2>5 DEF Ready, WorkbookTables
<1>2. ASSUME NEW d, NEW x \in S, Ready("AddWorkbook", y, a, S, d)
      PROVE  LET e == Statement("AddWorkbook", y, a, d, x)
             IN  /\ Ready("AddWorkbook", y, a, S, e) /\ Same(d, e, WorkbookTables)
                 /\ \A t \in WorkbookTables : Effect(y, a, d, e, t, "none", TRUE, x)
  <2> DEFINE e == AddWorkbook(y, a, d, x)
  <2>1. AllTables(d)
    BY <1>2 DEF Ready
  <2>2. /\ Same(d, e, {"workbooks", "workbookQuestions"})
        /\ e.workbooks = d.workbooks \cup {WorkbookLine(y, x, a[x])}
        /\ e.workbookQuestions = d.workbookQuestions \cup PlacesFor(y, x)
    BY <2>1, AddWorkbookEffects
  <2>3. Statement("AddWorkbook", y, a, d, x) = e
    BY DEF Statement
  <2> HIDE DEF e
  <2>4. AllTables(e)
    BY <2>1, <2>2, SameKeepsTables
  <2>5. \A t \in WorkbookTables : Effect(y, a, d, e, t, "none", TRUE, x)
    BY <2>2 DEF Effect, Fresh, WorkbookTables
  <2> QED
    BY <2>2, <2>3, <2>4, <2>5 DEF Ready, WorkbookTables
<1> QED
  BY <1>1, <1>2 DEF Proceeds, Rewrites

LEMMA RetitledByField ==
  ASSUME NEW x, NEW w, DOMAIN w = {"id", "title", "category", "published"}, NEW y, NEW c
  PROVE  /\ DOMAIN Retitled(y, x, c, w) = DOMAIN w /\ Retitled(y, x, c, w).id = w.id
         /\ w.id = x => /\ Retitled(y, x, c, w).title = y.workbooks[x].title
                        /\ Retitled(y, x, c, w).category = c
         /\ w.id # x => Retitled(y, x, c, w) = w
BY DEF Retitled

LEMMA WorkbookLoop ==
  ASSUME NEW y, NEW a, NEW S
  PROVE  /\ Proceeds("ChangeWorkbook", y, a, S, WorkbookTables)
         /\ Rewrites("ChangeWorkbook", y, a, S, "workbookQuestions", "workbook", TRUE)
<1>1. ASSUME NEW d, NEW x \in S, Ready("ChangeWorkbook", y, a, S, d)
      PROVE  LET e == Statement("ChangeWorkbook", y, a, d, x)
             IN  /\ Ready("ChangeWorkbook", y, a, S, e) /\ Same(d, e, WorkbookTables)
                 /\ Effect(y, a, d, e, "workbookQuestions", "workbook", TRUE, x)
  <2> DEFINE e == ChangeWorkbook(y, a, d, x)
             f == [w \in d.workbooks |-> Retitled(y, x, a[x], w)]
  <2>1. AllTables(d) /\ BookRows(d.workbooks)
    BY <1>1 DEF Ready
  <2>2. /\ Same(d, e, {"workbooks", "workbookQuestions"})
        /\ \A r : r \in e.workbooks <=> \E s \in d.workbooks : r = Retitled(y, x, a[x], s)
        /\ \A r : r \in e.workbookQuestions <=> \/ r \in d.workbookQuestions /\ r.workbook # x
                                                \/ r \in PlacesFor(y, x)
    BY <2>1, ChangeWorkbookEffects
  <2>3. Statement("ChangeWorkbook", y, a, d, x) = e
    BY DEF Statement
  <2> HIDE DEF e
  <2>4. AllTables(e)
    BY <2>1, <2>2, SameKeepsTables
  <2>5. Effect(y, a, d, e, "workbookQuestions", "workbook", TRUE, x)
    BY <2>2 DEF Effect, Fresh, Key
  <2>6. BookRows(e.workbooks)
    <3>1. IsFiniteSet({f[w] : w \in d.workbooks})
      <4>1. IsFiniteSet(d.workbooks)
        BY <2>1 DEF BookRows, IdRows
      <4> HIDE DEF f
      <4> QED
        BY <4>1, RewrittenRows
    <3>2. {f[w] : w \in d.workbooks} = e.workbooks
      <4>1. \A w \in d.workbooks : f[w] = Retitled(y, x, a[x], w)
        OBVIOUS
      <4> HIDE DEF f
      <4> QED
        BY <2>2, <4>1
    <3>3. \A w \in d.workbooks : /\ w.id \in IdNumbers
                                 /\ DOMAIN w = {"id", "title", "category", "published"}
      BY <2>1 DEF BookRows, IdRows
    <3>4. \A w \in d.workbooks : /\ Retitled(y, x, a[x], w).id = w.id
                                 /\ DOMAIN Retitled(y, x, a[x], w) = DOMAIN w
      BY <3>3, RetitledByField
    <3> QED
      BY <2>2, <3>1, <3>2, <3>3, <3>4 DEF BookRows, IdRows
  <2> QED
    BY <2>2, <2>3, <2>4, <2>5, <2>6 DEF Ready, WorkbookTables
<1> QED
  BY <1>1 DEF Proceeds, Rewrites

(* The workbooks after the loop that changes them: those of X have the      *)
(* title and the category they should, the others are as they were.         *)
Recast(y, a, X, W, V) ==
  /\ \A v \in V : \E w \in W :
       /\ v.id = w.id
       /\ v.id \in X => v.title = y.workbooks[v.id].title /\ v.category = a[v.id]
       /\ v.id \notin X => v = w
  /\ \A w \in W : \E v \in V : v.id = w.id
LEMMA WorkbooksRecast ==
  ASSUME NEW y, NEW a, NEW S, Numbers(S), NEW b, NEW r, ForAll("ChangeWorkbook", y, a, S, b, r),
         Ready("ChangeWorkbook", y, a, S, b)
  PROVE  Recast(y, a, S, b.workbooks, r.workbooks)
<1> DEFINE op == "ChangeWorkbook"
<1>1. PICK n, ids, f : Unrolled(op, y, a, S, b, r, n, ids, f)
  BY LoopUnrolled
<1>2. \A i \in 0 .. n : Ready(op, y, a, S, f[i])
  BY <1>1, LoopReady, WorkbookLoop
<1>3. n \in Nat /\ f[0] = b /\ f[n] = r
  BY <1>1 DEF Unrolled
<1> DEFINE Done(i) == {ids[j] : j \in 1 .. i}
           G == {i \in 0 .. n : Recast(y, a, Done(i), b.workbooks, f[i].workbooks)}
<1>4. Done(0) = {} /\ Done(n) = S
  BY <1>1 DEF Unrolled
<1>5. 0 \in G
  <2> HIDE DEF Done
  <2> QED
    BY <1>3, <1>4 DEF Recast
<1>6. ASSUME NEW i \in 1 .. n, i - 1 \in G PROVE i \in G
  <2> DEFINE d == f[i - 1]
             e == f[i]
             x == ids[i]
  <2>1. e = ChangeWorkbook(y, a, d, x) /\ AllTables(d) /\ BookRows(d.workbooks)
    <3>1. i - 1 \in 0 .. n
      BY <1>3
    <3> QED
      BY <1>1, <1>2, <3>1 DEF Unrolled, Ready, Statement
  <2>2. Done(i) = Done(i - 1) \cup {x}
    BY <1>3
  <2>3. Recast(y, a, Done(i - 1), b.workbooks, d.workbooks)
    BY <1>6
  <2> HIDE DEF Done, d, e, x
  <2>4. \A v : v \in e.workbooks <=> \E s \in d.workbooks : v = Retitled(y, x, a[x], s)
    BY <2>1, ChangeWorkbookEffects
  <2>5. \A w \in d.workbooks : LET v == Retitled(y, x, a[x], w)
                               IN  /\ v.id = w.id /\ (w.id # x => v = w)
                                   /\ w.id = x => /\ v.title = y.workbooks[x].title
                                                  /\ v.category = a[x]
    BY <2>1, RetitledByField DEF BookRows
  <2>6. \A v \in e.workbooks : \E w \in d.workbooks :
          /\ v.id = w.id /\ (v.id # x => v = w)
          /\ v.id = x => v.title = y.workbooks[x].title /\ v.category = a[x]
    BY <2>4, <2>5
  <2>7. \A w \in d.workbooks : \E v \in e.workbooks : v.id = w.id
    BY <2>4, <2>5
  <2>8. Recast(y, a, Done(i), b.workbooks, e.workbooks)
    <3>1. ASSUME NEW v \in e.workbooks
          PROVE  \E w \in b.workbooks :
                   /\ v.id = w.id
                   /\ v.id \in Done(i) => v.title = y.workbooks[v.id].title /\ v.category = a[v.id]
                   /\ v.id \notin Done(i) => v = w
      <4>1. PICK u \in d.workbooks :
              /\ v.id = u.id /\ (v.id # x => v = u)
              /\ v.id = x => v.title = y.workbooks[x].title /\ v.category = a[x]
        BY <2>6
      <4>2. PICK w \in b.workbooks :
              /\ u.id = w.id
              /\ u.id \in Done(i - 1) => u.title = y.workbooks[u.id].title /\ u.category = a[u.id]
              /\ u.id \notin Done(i - 1) => u = w
        BY <2>3 DEF Recast
      <4> QED
        BY <2>2, <4>1, <4>2
    <3>2. \A w \in b.workbooks : \E v \in e.workbooks : v.id = w.id
      BY <2>3, <2>7 DEF Recast
    <3> QED
      BY <3>1, <3>2 DEF Recast
  <2> QED
    BY <2>8 DEF e
<1>7. n \in G
  <2> HIDE DEF G
  <2> QED
    BY <1>3, <1>5, <1>6, Climb
<1> HIDE DEF Done
<1> QED
  BY <1>3, <1>4, <1>7

(* The category of a workbook after the categories of X have been synced,   *)
(* when no two of them list it: the one that lists it, none if its own has  *)
(* gone or no longer lists it, else its own.                                *)
Lists(y, x, id) == id \in Elems(y.categories[x].workbooks)
Settled(y, a, X, id, before, now) ==
  /\ \A x \in X : (x \notin a.delete /\ Lists(y, x, id)) => now = x
  /\ (\A x \in X : x \in a.delete \/ ~Lists(y, x, id)) =>
       now = IF before \in X /\ (before \in a.delete \/ before \notin a.add) THEN NoCategory ELSE before
OneLister(y, a, S) ==
  \A b, c \in S : \A id : (/\ b \notin a.delete /\ c \notin a.delete
                       /\ Lists(y, b, id) /\ Lists(y, c, id)) => b = c
LEMMA OneMoveSettles ==
  ASSUME NEW y, NEW a, NEW S, OneLister(y, a, S), NoCategory \notin S, NEW x \in S, NEW X, X \subseteq S,
         NEW id, NEW before, NEW now, Settled(y, a, X, id, before, now),
         NEW next, next = IF x \notin a.delete /\ Lists(y, x, id) THEN x
                          ELSE IF (x \in a.delete \/ x \notin a.add) /\ now = x THEN NoCategory
                          ELSE now
  PROVE  Settled(y, a, X \cup {x}, id, before, next)
<1>1. CASE x \notin a.delete /\ Lists(y, x, id)
  BY <1>1 DEF Settled, OneLister
<1>2. CASE ~(x \notin a.delete /\ Lists(y, x, id)) /\ \E z \in X : z \notin a.delete /\ Lists(y, z, id)
  <2>1. PICK z \in X : z \notin a.delete /\ Lists(y, z, id)
    BY <1>2
  <2>2. now = z /\ x # z /\ next = now
    BY <1>2, <2>1 DEF Settled
  <2>3. \A u \in X \cup {x} : (u \notin a.delete /\ Lists(y, u, id)) => u = z
    BY <1>2, <2>1 DEF OneLister
  <2> QED
    BY <2>1, <2>2, <2>3 DEF Settled
<1>3. CASE ~(x \notin a.delete /\ Lists(y, x, id)) /\ \A z \in X : z \in a.delete \/ ~Lists(y, z, id)
  <2>1. now = IF before \in X /\ (before \in a.delete \/ before \notin a.add) THEN NoCategory ELSE before
    BY <1>3 DEF Settled
  <2>2. next = IF (x \in a.delete \/ x \notin a.add) /\ now = x THEN NoCategory ELSE now
    BY <1>3
  <2>3. next = IF before \in X \cup {x} /\ (before \in a.delete \/ before \notin a.add) THEN NoCategory
               ELSE before
    BY <2>1, <2>2
  <2> QED
    BY <1>3, <2>3 DEF Settled
<1> QED
  BY <1>1, <1>2, <1>3

Regrouped(y, a, X, W, V) ==
  /\ \A v \in V : \E w \in W : /\ v.id = w.id /\ v.title = w.title
                               /\ Settled(y, a, X, v.id, w.category, v.category)
  /\ \A w \in W : \E v \in V : v.id = w.id
LEMMA WorkbooksRegrouped ==
  ASSUME NEW y, NEW a, NEW S, Numbers(S), S \subseteq IdNumbers, OneLister(y, a, S),
         NEW b, NEW r, ForAll("SyncCategory", y, a, S, b, r), Ready("SyncCategory", y, a, S, b)
  PROVE  Regrouped(y, a, S, b.workbooks, r.workbooks)
<1> DEFINE op == "SyncCategory"
<1>1. PICK n, ids, f : Unrolled(op, y, a, S, b, r, n, ids, f)
  BY LoopUnrolled
<1>2. \A i \in 0 .. n : Ready(op, y, a, S, f[i])
  BY <1>1, LoopReady, CategoryLoop
<1>3. n \in Nat /\ f[0] = b /\ f[n] = r
  BY <1>1 DEF Unrolled
<1> DEFINE Done(i) == {ids[j] : j \in 1 .. i}
           G == {i \in 0 .. n : Regrouped(y, a, Done(i), b.workbooks, f[i].workbooks)}
<1>4. Done(0) = {} /\ Done(n) = S
  BY <1>1 DEF Unrolled
<1>5. 0 \in G
  <2>1. \A id, c : Settled(y, a, {}, id, c, c)
    BY DEF Settled
  <2> HIDE DEF Done
  <2> QED
    BY <1>3, <1>4, <2>1 DEF Regrouped
<1>6. ASSUME NEW i \in 1 .. n, i - 1 \in G PROVE i \in G
  <2> DEFINE d == f[i - 1]
             e == f[i]
             x == ids[i]
  <2>1. e = SyncCategory(y, a, d, x) /\ AllTables(d) /\ BookRows(d.workbooks) /\ x \in S
    <3>1. i - 1 \in 0 .. n
      BY <1>3
    <3> QED
      BY <1>1, <1>2, <3>1 DEF Unrolled, Ready, Statement
  <2>2. Done(i) = Done(i - 1) \cup {x} /\ Done(i - 1) \subseteq S
    BY <1>1, <1>3 DEF Unrolled
  <2>3. Regrouped(y, a, Done(i - 1), b.workbooks, d.workbooks)
    BY <1>6
  <2> HIDE DEF Done, d, e, x
  <2>4. \A v : v \in e.workbooks <=> \E s \in d.workbooks : v = Moved(y, a, x, s)
    BY <2>1, CategoryEffects
  <2>5. \A w \in d.workbooks :
          LET v == Moved(y, a, x, w)
          IN  /\ v.id = w.id /\ v.title = w.title
              /\ v.category = IF x \notin a.delete /\ Lists(y, x, w.id) THEN x
                              ELSE IF (x \in a.delete \/ x \notin a.add) /\ w.category = x THEN NoCategory
                              ELSE w.category
    BY <2>1, TypedByField DEF BookRows, Lists
  <2>6. NoCategory \notin S
    BY DEF NoCategory, IdNumbers
  <2>7. Regrouped(y, a, Done(i), b.workbooks, e.workbooks)
    <3>1. ASSUME NEW v \in e.workbooks
          PROVE  \E w \in b.workbooks : /\ v.id = w.id /\ v.title = w.title
                                        /\ Settled(y, a, Done(i), v.id, w.category, v.category)
      <4>1. PICK u \in d.workbooks :
              /\ v.id = u.id /\ v.title = u.title
              /\ v.category = IF x \notin a.delete /\ Lists(y, x, u.id) THEN x
                              ELSE IF (x \in a.delete \/ x \notin a.add) /\ u.category = x THEN NoCategory
                              ELSE u.category
        BY <2>4, <2>5
      <4>2. PICK w \in b.workbooks : /\ u.id = w.id /\ u.title = w.title
                                     /\ Settled(y, a, Done(i - 1), u.id, w.category, u.category)
        BY <2>3 DEF Regrouped
      <4>3. Settled(y, a, Done(i), v.id, w.category, v.category)
        BY <2>1, <2>2, <2>6, <4>1, <4>2, OneMoveSettles
      <4> QED
        BY <4>1, <4>2, <4>3
    <3>2. \A w \in b.workbooks : \E v \in e.workbooks : v.id = w.id
      BY <2>3, <2>4, <2>5 DEF Regrouped
    <3> QED
      BY <3>1, <3>2 DEF Regrouped
  <2> QED
    BY <2>7 DEF e
<1>7. n \in G
  <2> HIDE DEF G
  <2> QED
    BY <1>3, <1>5, <1>6, Climb
<1> HIDE DEF Done
<1> QED
  BY <1>3, <1>4, <1>7

-----------------------------------------------------------------------------
(* What a run of `datasync apply` writes, for any plan that compares y with *)
(* some answers, also with answers that no longer hold.                     *)
Fits(y, t, p) ==
  /\ Numbers(p.add) /\ Numbers(p.change) /\ Numbers(p.delete)
  /\ p.add \cup p.change \subseteq DOMAIN y[t] /\ p.delete \cap DOMAIN y[t] = {}
  /\ p.add \cap p.change = {}
PlanFits(y, plan) == \A t \in Tables : Fits(y, t, plan[t])

PutIds(p, d) == p.add \cup (p.change \cap DOMAIN loadImagesDB(d))
ImagesDone(y, p, d, b) ==
  /\ Same(d, b, {"images", "questionImages"})
  /\ \A r : r \in b.images <=> /\ r.id \notin p.delete
                               /\ (r \in d.images /\ r.id \notin PutIds(p, d)) \/ r \in ImagesFor(y, PutIds(p, d))
  /\ \A r : r \in b.questionImages <=> r \in d.questionImages /\ r.image \notin p.delete
LEMMA ImagesWritten ==
  ASSUME NEW y, NEW p, Fits(y, "images", p), NEW d, AllTables(d)
  PROVE  ImagesDone(y, p, d, applyImages(y, p, d))
<1> DEFINE S == PutIds(p, d)
           b == applyImages(y, p, d)
<1>1. Numbers(S) /\ Numbers(p.delete)
  BY FewerNumbers, MoreNumbers DEF Fits, PutIds
<1>2. PICK c : ForAll("PutImage", y, 0, S, d, c) /\ ForAll("DropImage", y, 0, p.delete, c, b)
  BY <1>1, ImagesApplied DEF PutIds
<1> HIDE DEF S, b
<1>3. /\ Proceeds("PutImage", y, 0, S, {"images"}) /\ Rewrites("PutImage", y, 0, S, "images", "id", TRUE)
      /\ OwnColumn(y, 0, S, "images", "id")
  BY ImageLoops, OwnColumns
<1>4. /\ Proceeds("DropImage", y, 0, p.delete, {"images", "questionImages"})
      /\ Rewrites("DropImage", y, 0, p.delete, "images", "id", FALSE)
      /\ Rewrites("DropImage", y, 0, p.delete, "questionImages", "image", FALSE)
  BY ImageLoops
<1>5. Ready("PutImage", y, 0, S, d)
  BY DEF Ready
<1>6. Ready("PutImage", y, 0, S, c) /\ Same(d, c, {"images"})
  BY <1>1, <1>2, <1>3, <1>5, LoopSame
<1>7. RowsAfter(y, 0, S, "images", "id", TRUE, d, c)
  BY <1>1, <1>2, <1>3, <1>5, LoopRewrites
<1>8. Ready("DropImage", y, 0, p.delete, c)
  BY <1>6 DEF Ready
<1>9. Same(c, b, {"images", "questionImages"})
  BY <1>1, <1>2, <1>4, <1>8, LoopSame
<1>10. RowsAfter(y, 0, p.delete, "images", "id", FALSE, c, b)
  BY <1>1, <1>2, <1>4, <1>8, LoopRewrites
<1>11. RowsAfter(y, 0, p.delete, "questionImages", "image", FALSE, c, b)
  BY <1>1, <1>2, <1>4, <1>8, LoopRewrites
<1>12. \A r : r \in ImagesFor(y, S) <=> \E x \in S : r \in Fresh(y, 0, "images", x)
  BY DEF ImagesFor, Fresh
<1>13. c.questionImages = d.questionImages
  BY <1>6 DEF Same, TableNames, Serial
<1>14. Same(d, b, {"images", "questionImages"})
  BY <1>6, <1>9 DEF Same
<1>15. \A r : r \in b.images <=>
                /\ r.id \notin p.delete
                /\ (r \in d.images /\ r.id \notin S) \/ r \in ImagesFor(y, S)
  BY <1>7, <1>10, <1>12 DEF Key, RowsAfter
<1>16. \A r : r \in b.questionImages <=> r \in d.questionImages /\ r.image \notin p.delete
  BY <1>11, <1>13 DEF Key, RowsAfter
<1> QED
  BY <1>14, <1>15, <1>16 DEF ImagesDone, S, b

(* The questions: Gone are those whose rows go first, Made those written.   *)
Gone(p) == p.delete \cup p.change
Made(p) == p.add \cup p.change
QuestionsDone(y, p, d, b) ==
  /\ Same(d, b, QuestionTables \cup {"workbookQuestions"})
  /\ b.questions = (d.questions \ p.delete) \cup p.add
  /\ \A r : r \in b.singleChoices <=> (r \in d.singleChoices /\ r.question \notin Gone(p)) \/ r \in TextsFor(y, Made(p))
  /\ \A r : r \in b.choices <=> (r \in d.choices /\ r.question \notin Gone(p)) \/ r \in AllChoices(y, Made(p))
  /\ \A r : r \in b.questionImages <=>
              (r \in d.questionImages /\ r.question \notin Gone(p)) \/ r \in AllShown(y, Made(p))
  /\ \A r : r \in b.workbookQuestions <=> r \in d.workbookQuestions /\ r.question \notin p.delete
LEMMA MadeRows ==
  ASSUME NEW y, NEW a, NEW S
  PROVE  /\ \A r : r \in TextsFor(y, S) <=> \E x \in S : r \in Fresh(y, a, "singleChoices", x)
         /\ \A r : r \in AllChoices(y, S) <=> \E x \in S : r \in Fresh(y, a, "choices", x)
         /\ \A r : r \in AllShown(y, S) <=> \E x \in S : r \in Fresh(y, a, "questionImages", x)
         /\ \A r : r \in AllPlaces(y, S) <=> \E x \in S : r \in Fresh(y, a, "workbookQuestions", x)
<1>1. \A r : r \in TextsFor(y, S) <=> \E x \in S : r \in Fresh(y, a, "singleChoices", x)
  BY DEF TextsFor, Fresh
<1>2. \A r : r \in AllChoices(y, S) <=> \E x \in S : r \in Fresh(y, a, "choices", x)
  BY DEF AllChoices, Fresh
<1>3. \A r : r \in AllShown(y, S) <=> \E x \in S : r \in Fresh(y, a, "questionImages", x)
  BY DEF AllShown, Fresh
<1>4. \A r : r \in AllPlaces(y, S) <=> \E x \in S : r \in Fresh(y, a, "workbookQuestions", x)
  BY DEF AllPlaces, Fresh
<1> QED
  BY <1>1, <1>2, <1>3, <1>4
LEMMA QuestionRows ==
  ASSUME NEW y, NEW p, p.add \cap p.change = {}, NEW t \in Rest, NEW d, NEW b, NEW c, NEW e,
         RowsAfter(y, 0, p.delete, t, "question", FALSE, d, b), RowsAfter(y, 0, p.add, t, "none", TRUE, b, c),
         RowsAfter(y, 0, p.change, t, "question", TRUE, c, e)
  PROVE  \A r : r \in e[t] <=> \/ r \in d[t] /\ r.question \notin Gone(p)
                               \/ \E x \in Made(p) : r \in Fresh(y, 0, t, x)
<1>1. OwnColumn(y, 0, p.add, t, "question")
  BY OwnColumns DEF Rest
<1>2. \A x \in p.add : \A r \in Fresh(y, 0, t, x) : r.question = x
  BY <1>1 DEF OwnColumn, Key
<1>3. \A r : r \in b[t] <=> r \in d[t] /\ r.question \notin p.delete
  BY DEF Key, RowsAfter
<1>4. \A r : r \in c[t] <=> r \in b[t] \/ \E x \in p.add : r \in Fresh(y, 0, t, x)
  BY DEF RowsAfter
<1>5. \A r : r \in e[t] <=> \/ r \in c[t] /\ r.question \notin p.change
                            \/ \E x \in p.change : r \in Fresh(y, 0, t, x)
  BY DEF Key, RowsAfter
<1> QED
  BY ONLY <1>2, <1>3, <1>4, <1>5, p.add \cap p.change = {} DEF Gone, Made
LEMMA QuestionsWritten ==
  ASSUME NEW y, NEW p, Fits(y, "questions", p), NEW d, AllTables(d), TextRows(d.singleChoices),
         DirectoryOK(y), \A q \in p.change : \E s \in d.singleChoices : s.question = q
  PROVE  QuestionsDone(y, p, d, applyQuestions(y, p, d))
<1> DEFINE e == applyQuestions(y, p, d)
           F == QuestionTables \cup {"workbookQuestions"}
<1>1. /\ Numbers(p.add) /\ Numbers(p.change) /\ Numbers(p.delete) /\ p.add \cap p.change = {}
      /\ p.change \cap p.delete = {} /\ p.add \subseteq DOMAIN y.questions
  BY DEF Fits
<1>2. PICK b, c : /\ ForAll("DeleteQuestion", y, 0, p.delete, d, b)
                  /\ ForAll("AddQuestion", y, 0, p.add, b, c)
                  /\ ForAll("ChangeQuestion", y, 0, p.change, c, e)
  BY <1>1, QuestionsApplied
<1> HIDE DEF e
<1>3. /\ Proceeds("DeleteQuestion", y, 0, p.delete, F)
      /\ Rewrites("DeleteQuestion", y, 0, p.delete, "questions", "itself", FALSE)
      /\ \A t \in Rest \cup {"workbookQuestions"} :
           Rewrites("DeleteQuestion", y, 0, p.delete, t, "question", FALSE)
  BY QuestionLoops
<1>4. /\ Proceeds("AddQuestion", y, 0, p.add, QuestionTables)
      /\ \A t \in QuestionTables : Rewrites("AddQuestion", y, 0, p.add, t, "none", TRUE)
  BY QuestionLoops
<1>5. /\ Proceeds("ChangeQuestion", y, 0, p.change, Rest)
      /\ \A t \in Rest : Rewrites("ChangeQuestion", y, 0, p.change, t, "question", TRUE)
      /\ \A t \in Rest : OwnColumn(y, 0, p.change, t, "question")
  BY QuestionLoop, OwnColumns DEF Rest
<1>6. Ready("DeleteQuestion", y, 0, p.delete, d)
  BY DEF Ready
<1>7. Ready("DeleteQuestion", y, 0, p.delete, b) /\ Same(d, b, F)
  BY <1>1, <1>2, <1>3, <1>6, LoopSame
<1>8. RowsAfter(y, 0, p.delete, "questions", "itself", FALSE, d, b)
  BY <1>1, <1>2, <1>3, <1>6, LoopRewrites
<1>9. ASSUME NEW t \in Rest \cup {"workbookQuestions"}
      PROVE  RowsAfter(y, 0, p.delete, t, "question", FALSE, d, b)
  <2>1. Rewrites("DeleteQuestion", y, 0, p.delete, t, "question", FALSE)
    BY <1>3
  <2> QED
    BY <1>1, <1>2, <1>3, <1>6, <2>1, LoopRewrites
<1>10. Ready("AddQuestion", y, 0, p.add, b)
  BY <1>7 DEF Ready
<1>11. Ready("AddQuestion", y, 0, p.add, c) /\ Same(b, c, QuestionTables)
  BY <1>1, <1>2, <1>4, <1>10, LoopSame
<1>12. ASSUME NEW t \in QuestionTables
       PROVE  RowsAfter(y, 0, p.add, t, "none", TRUE, b, c)
  <2>1. Rewrites("AddQuestion", y, 0, p.add, t, "none", TRUE)
    BY <1>4
  <2> QED
    BY <1>1, <1>2, <1>4, <1>10, <2>1, LoopRewrites
<1>13. \A r : r \in c.singleChoices <=>
                (r \in d.singleChoices /\ r.question \notin p.delete) \/ r \in TextsFor(y, p.add)
  BY <1>9, <1>12, MadeRows DEF Rest, QuestionTables, Key, RowsAfter
<1>14. TextRows(c.singleChoices)
  <2>1. TextRows(TextsFor(y, p.add))
    BY <1>1, FilledTyped
  <2>2. IsFiniteSet(d.singleChoices \cup TextsFor(y, p.add))
    BY <2>1, FS_Union DEF TextRows
  <2>3. c.singleChoices \subseteq d.singleChoices \cup TextsFor(y, p.add)
    BY <1>13
  <2> QED
    BY <2>1, <2>2, <2>3, FS_Subset DEF TextRows
<1>15. Ready("ChangeQuestion", y, 0, p.change, c)
  <2>1. \A q \in p.change : \E s \in c.singleChoices : s.question = q
    BY <1>1, <1>13
  <2> QED
    BY <1>11, <1>14, <2>1 DEF Ready
<1>16. Same(c, e, Rest)
  BY <1>1, <1>2, <1>5, <1>15, LoopSame
<1>17. ASSUME NEW t \in Rest
       PROVE  \A r : r \in e[t] <=> \/ r \in d[t] /\ r.question \notin Gone(p)
                                    \/ \E x \in Made(p) : r \in Fresh(y, 0, t, x)
  <2>1. Rewrites("ChangeQuestion", y, 0, p.change, t, "question", TRUE) /\ OwnColumn(y, 0, p.change, t, "question")
    BY <1>5
  <2>2. RowsAfter(y, 0, p.change, t, "question", TRUE, c, e)
    BY <1>1, <1>2, <1>5, <1>15, <2>1, LoopRewrites
  <2>3. RowsAfter(y, 0, p.delete, t, "question", FALSE, d, b)
    BY <1>9
  <2>4. RowsAfter(y, 0, p.add, t, "none", TRUE, b, c)
    BY <1>12 DEF Rest, QuestionTables
  <2> QED
    BY <1>1, <2>2, <2>3, <2>4, QuestionRows
<1>18. Same(d, e, F)
  BY <1>7, <1>11, <1>16 DEF Same, QuestionTables, Rest
<1>19. e.questions = (d.questions \ p.delete) \cup p.add
  <2>1. e.questions = c.questions
    BY <1>16 DEF Same, TableNames, Rest
  <2>2. \A r : r \in c["questions"] <=> r \in b["questions"] \/ r \in p.add
    BY <1>12 DEF QuestionTables, Fresh, RowsAfter
  <2>3. \A r : r \in b["questions"] <=> r \in d["questions"] /\ r \notin p.delete
    BY <1>8 DEF Key, RowsAfter
  <2> QED
    BY <2>1, <2>2, <2>3
<1>20. \A r : r \in e.workbookQuestions <=> r \in d.workbookQuestions /\ r.question \notin p.delete
  <2>1. e.workbookQuestions = b.workbookQuestions
    BY <1>11, <1>16 DEF Same, TableNames, Rest, QuestionTables
  <2> QED
    BY <1>9, <2>1 DEF Key, RowsAfter
<1>21. \A r : r \in e.singleChoices <=>
                (r \in d.singleChoices /\ r.question \notin Gone(p)) \/ r \in TextsFor(y, Made(p))
  BY <1>17, MadeRows DEF Rest
<1>22. \A r : r \in e.choices <=> (r \in d.choices /\ r.question \notin Gone(p)) \/ r \in AllChoices(y, Made(p))
  BY <1>17, MadeRows DEF Rest
<1>23. \A r : r \in e.questionImages <=>
                (r \in d.questionImages /\ r.question \notin Gone(p)) \/ r \in AllShown(y, Made(p))
  BY <1>17, MadeRows DEF Rest
<1> QED
  BY <1>18, <1>19, <1>20, <1>21, <1>22, <1>23 DEF QuestionsDone, e

(* The categories: whatever there is, only their own tables change, and     *)
(* keep their columns; when the plan is made of what there is, every        *)
(* category has its title and every workbook its category.                  *)
Synced(p) == p.add \cup p.change \cup p.delete
CategoryTables == {"categories", "workbooks", "appCategories"}
LEMMA CategoriesTyped ==
  ASSUME NEW y, DirectoryOK(y), NEW p, Fits(y, "categories", p), NEW d, SyncTables(d)
  PROVE  LET e == applyCategories(y, p, d) IN SyncTables(e) /\ Same(d, e, CategoryTables)
<1> DEFINE e == applyCategories(y, p, d)
           S == Synced(p)
           op == "SyncCategory"
<1>1. Numbers(S)
  BY MoreNumbers DEF Fits, Synced
<1>2. ForAll(op, y, p, S, d, e)
  BY <1>1, CategoriesApplied DEF Synced
<1> HIDE DEF S, e
<1>3. PICK n, ids, f : Unrolled(op, y, p, S, d, e, n, ids, f)
  BY <1>1, <1>2, LoopUnrolled
<1> DEFINE G == {i \in 0 .. n : SyncTables(f[i]) /\ Same(d, f[i], CategoryTables)}
<1>4. n \in Nat /\ f[0] = d /\ f[n] = e
  BY <1>3 DEF Unrolled
<1>5. 0 \in G
  BY <1>4 DEF Same
<1>6. ASSUME NEW i \in 1 .. n, i - 1 \in G PROVE i \in G
  <2>1. f[i] = SyncCategory(y, p, f[i - 1], ids[i])
    BY <1>3 DEF Unrolled, Statement
  <2>2. SyncTables(f[i - 1]) /\ Same(d, f[i - 1], CategoryTables)
    BY <1>6
  <2>3. ids[i] \in p.add => ids[i] \in IdNumbers
    BY EntriesOf DEF Fits
  <2>4. SyncTables(f[i])
    BY <2>1, <2>2, <2>3, CategorySynced
  <2>5. Same(f[i - 1], f[i], CategoryTables)
    BY <2>1, <2>2, CategoryEffects DEF SyncTables, CategoryTables
  <2>6. Same(d, f[i], CategoryTables)
    BY <2>2, <2>5 DEF Same
  <2> QED
    BY <1>4, <2>4, <2>6
<1>7. n \in G
  <2> HIDE DEF G
  <2> QED
    BY <1>4, <1>5, <1>6, Climb
<1> QED
  BY <1>4, <1>7 DEF e
CategoriesDone(y, p, d, b) ==
  /\ \A r : r \in b.categories <=> \/ r \in d.categories /\ r.id \notin Synced(p)
                                   \/ r \in TitlesFor(y, Made(p))
  /\ Regrouped(y, p, Synced(p), d.workbooks, b.workbooks)
LEMMA CategoriesWritten ==
  ASSUME NEW y, DirectoryOK(y), NEW p, Fits(y, "categories", p), Synced(p) \subseteq IdNumbers,
         OneLister(y, p, Synced(p)), NEW d, SyncTables(d),
         p.add \cap {c.id : c \in d.categories} = {}, p.change \subseteq {c.id : c \in d.categories}
  PROVE  CategoriesDone(y, p, d, applyCategories(y, p, d))
<1> DEFINE b == applyCategories(y, p, d)
           S == Synced(p)
           op == "SyncCategory"
<1>1. Numbers(S)
  BY MoreNumbers DEF Fits, Synced
<1>2. ForAll(op, y, p, S, d, b)
  BY <1>1, CategoriesApplied DEF Synced
<1>3. Ready(op, y, p, S, d)
  <2>1. \A x \in S : x \in p.delete \/ x \in p.add \/ \E c \in d.categories : c.id = x
    BY DEF Synced
  <2>2. \A c \in d.categories : c.id \in p.add => c = CategoryRow(y, c.id)
    OBVIOUS
  <2> QED
    BY <2>1, <2>2 DEF Ready, SyncTables
<1> HIDE DEF b
<1>4. /\ Proceeds(op, y, p, S, CategoryTables) /\ Rewrites(op, y, p, S, "categories", "id", TRUE)
      /\ OwnColumn(y, p, S, "categories", "id")
  BY CategoryLoop, OwnColumns DEF CategoryTables
<1>5. RowsAfter(y, p, S, "categories", "id", TRUE, d, b)
  <2> HIDE DEF S
  <2> QED
    BY <1>1, <1>2, <1>3, <1>4, LoopRewrites
<1>6. \A r : r \in TitlesFor(y, Made(p)) <=> \E x \in S : r \in Fresh(y, p, "categories", x)
  <2>1. \A x \in S : x \notin p.delete <=> x \in Made(p)
    BY DEF Made, Synced, Fits
  <2>2. Made(p) \subseteq S
    BY DEF Made, Synced
  <2>3. \A x : Fresh(y, p, "categories", x) = IF x \in p.delete THEN {} ELSE {CategoryRow(y, x)}
    BY DEF Fresh
  <2> HIDE DEF S
  <2> QED
    BY <2>1, <2>2, <2>3 DEF TitlesFor
<1>7. Regrouped(y, p, S, d.workbooks, b.workbooks)
  BY <1>1, <1>2, <1>3, WorkbooksRegrouped
<1> QED
  BY <1>5, <1>6, <1>7 DEF CategoriesDone, RowsAfter, Key, b

(* The workbooks.                                                           *)
BooksDone(y, p, f, d, b) ==
  /\ Same(d, b, WorkbookTables) /\ BookRows(b.workbooks)
  /\ \A r : r \in b.workbookQuestions <=>
              (r \in d.workbookQuestions /\ r.workbook \notin Gone(p)) \/ r \in AllPlaces(y, Made(p))
  /\ \A v \in b.workbooks :
       /\ v.id \notin p.delete
       /\ \/ v.id \in p.add /\ v = WorkbookLine(y, v.id, f[v.id])
          \/ \E w \in d.workbooks :
               /\ v.id = w.id
               /\ v.id \in p.change => v.title = y.workbooks[v.id].title /\ v.category = f[v.id]
               /\ v.id \notin p.change => v = w
  /\ \A w \in d.workbooks : w.id \notin p.delete => \E v \in b.workbooks : v.id = w.id
  /\ \A x \in p.add : \E v \in b.workbooks : v.id = x
LEMMA LinesTyped ==
  ASSUME NEW y, DirectoryOK(y), NEW f, NEW S, S \subseteq DOMAIN y.workbooks
  PROVE  BookRows({WorkbookLine(y, x, f[x]) : x \in S})
<1> DEFINE g == [x \in S |-> WorkbookLine(y, x, f[x])]
<1>1. IsFiniteSet(S) /\ S \subseteq IdNumbers
  BY EntriesOf
<1>2. IsFiniteSet({g[x] : x \in S})
  BY <1>1, RewrittenRows
<1>3. {g[x] : x \in S} = {WorkbookLine(y, x, f[x]) : x \in S}
  OBVIOUS
<1>4. \A x \in S : LET w == WorkbookLine(y, x, f[x])
                   IN  w.id \in IdNumbers /\ DOMAIN w = {"id", "title", "category", "published"}
  BY <1>1 DEF WorkbookLine
<1> QED
  BY <1>2, <1>3, <1>4 DEF BookRows, IdRows
LEMMA MoreBooks ==
  ASSUME NEW S, NEW T, BookRows(S), BookRows(T), NEW U, U \subseteq S \cup T
  PROVE  BookRows(U)
BY FS_Union, FS_Subset DEF BookRows, IdRows
LEMMA WorkbooksWritten ==
  ASSUME NEW y, DirectoryOK(y), NEW p, Fits(y, "workbooks", p), NEW f,
         NEW d, AllTables(d), BookRows(d.workbooks)
  PROVE  BooksDone(y, p, f, d, applyWorkbooks(y, f, p, d))
<1> DEFINE e == applyWorkbooks(y, f, p, d)
<1>1. /\ Numbers(p.add) /\ Numbers(p.change) /\ Numbers(p.delete) /\ p.add \cap p.change = {}
      /\ p.change \cap p.delete = {} /\ p.add \cap p.delete = {} /\ p.add \subseteq DOMAIN y.workbooks
  BY DEF Fits
<1>2. PICK b, c : /\ ForAll("DeleteWorkbook", y, f, p.delete, d, b)
                  /\ ForAll("AddWorkbook", y, f, p.add, b, c)
                  /\ ForAll("ChangeWorkbook", y, f, p.change, c, e)
  BY <1>1, WorkbooksApplied
<1> HIDE DEF e
<1>3. /\ Proceeds("DeleteWorkbook", y, f, p.delete, WorkbookTables)
      /\ Rewrites("DeleteWorkbook", y, f, p.delete, "workbooks", "id", FALSE)
      /\ Rewrites("DeleteWorkbook", y, f, p.delete, "workbookQuestions", "workbook", FALSE)
      /\ Proceeds("AddWorkbook", y, f, p.add, WorkbookTables)
      /\ Rewrites("AddWorkbook", y, f, p.add, "workbooks", "none", TRUE)
      /\ Rewrites("AddWorkbook", y, f, p.add, "workbookQuestions", "none", TRUE)
  BY WorkbookLoops DEF WorkbookTables
<1>4. /\ Proceeds("ChangeWorkbook", y, f, p.change, WorkbookTables)
      /\ Rewrites("ChangeWorkbook", y, f, p.change, "workbookQuestions", "workbook", TRUE)
      /\ OwnColumn(y, f, p.change, "workbookQuestions", "workbook")
      /\ OwnColumn(y, f, p.add, "workbookQuestions", "workbook")
  BY WorkbookLoop, OwnColumns
<1>5. Ready("DeleteWorkbook", y, f, p.delete, d)
  BY DEF Ready
<1>6. Ready("DeleteWorkbook", y, f, p.delete, b) /\ Same(d, b, WorkbookTables)
  BY <1>1, <1>2, <1>3, <1>5, LoopSame
<1>7. RowsAfter(y, f, p.delete, "workbooks", "id", FALSE, d, b)
  BY <1>1, <1>2, <1>3, <1>5, LoopRewrites
<1>8. RowsAfter(y, f, p.delete, "workbookQuestions", "workbook", FALSE, d, b)
  BY <1>1, <1>2, <1>3, <1>5, LoopRewrites
<1>9. Ready("AddWorkbook", y, f, p.add, b)
  BY <1>6 DEF Ready
<1>10. Ready("AddWorkbook", y, f, p.add, c) /\ Same(b, c, WorkbookTables)
  BY <1>1, <1>2, <1>3, <1>9, LoopSame
<1>11. RowsAfter(y, f, p.add, "workbooks", "none", TRUE, b, c)
  BY <1>1, <1>2, <1>3, <1>9, LoopRewrites
<1>12. RowsAfter(y, f, p.add, "workbookQuestions", "none", TRUE, b, c)
  BY <1>1, <1>2, <1>3, <1>9, LoopRewrites
<1>13. \A w : w \in c.workbooks <=> \/ w \in d.workbooks /\ w.id \notin p.delete
                                    \/ \E x \in p.add : w = WorkbookLine(y, x, f[x])
  BY <1>7, <1>11 DEF RowsAfter, Key, Fresh
<1>14. BookRows(c.workbooks)
  <2>1. BookRows({WorkbookLine(y, x, f[x]) : x \in p.add})
    BY <1>1, LinesTyped
  <2>2. c.workbooks \subseteq d.workbooks \cup {WorkbookLine(y, x, f[x]) : x \in p.add}
    BY <1>13
  <2> QED
    BY <2>1, <2>2, MoreBooks
<1>15. Ready("ChangeWorkbook", y, f, p.change, c)
  BY <1>10, <1>14 DEF Ready
<1>16. Ready("ChangeWorkbook", y, f, p.change, e) /\ Same(c, e, WorkbookTables)
  BY <1>1, <1>2, <1>4, <1>15, LoopSame
<1>17. RowsAfter(y, f, p.change, "workbookQuestions", "workbook", TRUE, c, e)
  BY <1>1, <1>2, <1>4, <1>15, LoopRewrites
<1>18. Recast(y, f, p.change, c.workbooks, e.workbooks)
  BY <1>1, <1>2, <1>15, WorkbooksRecast
<1>19. Same(d, e, WorkbookTables) /\ BookRows(e.workbooks)
  BY <1>6, <1>10, <1>16 DEF Same, Ready
<1>20. \A r : r \in e.workbookQuestions <=>
                (r \in d.workbookQuestions /\ r.workbook \notin Gone(p)) \/ r \in AllPlaces(y, Made(p))
  <2>1. \A r : r \in e.workbookQuestions <=>
                 \/ r \in d.workbookQuestions /\ r.workbook \notin Gone(p)
                 \/ \E x \in Made(p) : r \in Fresh(y, f, "workbookQuestions", x)
    <3>1. \A x \in p.add : \A r \in Fresh(y, f, "workbookQuestions", x) : r.workbook = x
      BY <1>4 DEF OwnColumn, Key
    <3>2. \A r : r \in b["workbookQuestions"] <=> r \in d["workbookQuestions"] /\ r.workbook \notin p.delete
      BY <1>8 DEF RowsAfter, Key
    <3>3. \A r : r \in c["workbookQuestions"] <=>
                   r \in b["workbookQuestions"] \/ \E x \in p.add : r \in Fresh(y, f, "workbookQuestions", x)
      BY <1>12 DEF RowsAfter
    <3>4. \A r : r \in e["workbookQuestions"] <=>
                   \/ r \in c["workbookQuestions"] /\ r.workbook \notin p.change
                   \/ \E x \in p.change : r \in Fresh(y, f, "workbookQuestions", x)
      BY <1>17 DEF RowsAfter, Key
    <3> QED
      BY ONLY <1>1, <3>1, <3>2, <3>3, <3>4 DEF Gone, Made
  <2> QED
    BY <2>1, MadeRows
<1>21. \A v \in e.workbooks :
         /\ v.id \notin p.delete
         /\ \/ v.id \in p.add /\ v = WorkbookLine(y, v.id, f[v.id])
            \/ \E w \in d.workbooks :
                 /\ v.id = w.id
                 /\ v.id \in p.change => v.title = y.workbooks[v.id].title /\ v.category = f[v.id]
                 /\ v.id \notin p.change => v = w
  <2> SUFFICES ASSUME NEW v \in e.workbooks
               PROVE  /\ v.id \notin p.delete
                      /\ \/ v.id \in p.add /\ v = WorkbookLine(y, v.id, f[v.id])
                         \/ \E w \in d.workbooks :
                              /\ v.id = w.id
                              /\ v.id \in p.change => v.title = y.workbooks[v.id].title /\ v.category = f[v.id]
                              /\ v.id \notin p.change => v = w
    OBVIOUS
  <2>1. PICK w \in c.workbooks :
          /\ v.id = w.id
          /\ v.id \in p.change => v.title = y.workbooks[v.id].title /\ v.category = f[v.id]
          /\ v.id \notin p.change => v = w
    BY <1>18 DEF Recast
  <2>2. CASE w \in d.workbooks /\ w.id \notin p.delete
    BY <2>1, <2>2
  <2>3. CASE \E x \in p.add : w = WorkbookLine(y, x, f[x])
    <3>1. PICK x \in p.add : w = WorkbookLine(y, x, f[x])
      BY <2>3
    <3>2. w.id = x
      BY <3>1 DEF WorkbookLine
    <3> QED
      BY <1>1, <2>1, <3>1, <3>2
  <2> QED
    BY <1>13, <2>2, <2>3
<1>22. \A w \in d.workbooks : w.id \notin p.delete => \E v \in e.workbooks : v.id = w.id
  BY <1>13, <1>18 DEF Recast
<1>23. \A x \in p.add : \E v \in e.workbooks : v.id = x
  <2>1. \A x \in p.add : WorkbookLine(y, x, f[x]) \in c.workbooks /\ WorkbookLine(y, x, f[x]).id = x
    BY <1>13 DEF WorkbookLine
  <2> QED
    BY <1>18, <2>1 DEF Recast
<1> QED
  BY <1>19, <1>20, <1>21, <1>22, <1>23 DEF BooksDone, e

(* A whole run, table by table.                                             *)
Parts(y, plan, d, b1, b2, b3, b4, f, e) ==
  /\ f \in buildCategoryMap(y)
  /\ ImagesDone(y, plan.images, d, b1) /\ QuestionsDone(y, plan.questions, b1, b2)
  /\ b3 = applyCategories(y, plan.categories, b2)
  /\ SyncTables(b2) /\ SyncTables(b3) /\ Same(b2, b3, CategoryTables)
  /\ BooksDone(y, plan.workbooks, f, b3, b4)
  /\ e = resetSequences(b4) /\ ConstraintsHold(e)
NothingThere(plan, d) ==
  /\ plan.images.add \cap {m.id : m \in d.images} = {} /\ plan.questions.add \cap d.questions = {}
  /\ plan.workbooks.add \cap {w.id : w \in d.workbooks} = {}
  /\ plan.categories.add \cap {c.id : c \in d.categories} = {}
LEMMA AppliedInParts ==
  ASSUME NEW y, DirectoryOK(y), NEW plan, PlanFits(y, plan), NEW d, Typed(d), ConstraintsHold(d),
         NEW e, e \in applied(y, plan, d)
  PROVE  /\ \E b1, b2, b3, b4, f : Parts(y, plan, d, b1, b2, b3, b4, f, e)
         /\ NothingThere(plan, d) /\ plan.questions.change \subseteq d.questions
<1> DEFINE b1 == applyImages(y, plan.images, d)
           b2 == applyQuestions(y, plan.questions, b1)
           b3 == applyCategories(y, plan.categories, b2)
           Present == [images |-> DOMAIN loadImagesDB(d), questions |-> d.questions,
                       workbooks |-> DOMAIN WorkbookTitles(d), categories |-> DOMAIN CategoryTitles(d)]
<1>1. /\ e \in {after \in {resetSequences(b) : b \in
                  {applyWorkbooks(y, category, plan.workbooks, b3) : category \in buildCategoryMap(y)}} :
                  ConstraintsHold(after)}
      /\ \A t \in Tables : plan[t].add \cap Present[t] = {}
      /\ plan.questions.change \subseteq d.questions
  BY DEF applied
<1>2. PICK f \in buildCategoryMap(y) :
        e = resetSequences(applyWorkbooks(y, f, plan.workbooks, b3)) /\ ConstraintsHold(e)
  <2> HIDE DEF b3
  <2> QED
    BY <1>1
<1> DEFINE b4 == applyWorkbooks(y, f, plan.workbooks, b3)
<1>3. NothingThere(plan, d)
  <2>1. /\ plan.images.add \cap DOMAIN loadImagesDB(d) = {} /\ plan.questions.add \cap d.questions = {}
        /\ plan.workbooks.add \cap DOMAIN WorkbookTitles(d) = {}
        /\ plan.categories.add \cap DOMAIN CategoryTitles(d) = {}
    BY <1>1 DEF Tables
  <2> QED
    BY <2>1 DEF NothingThere, loadImagesDB, WorkbookTitles, CategoryTitles, Rows
<1>4. /\ Fits(y, "images", plan.images) /\ Fits(y, "questions", plan.questions)
      /\ Fits(y, "categories", plan.categories) /\ Fits(y, "workbooks", plan.workbooks)
  BY DEF PlanFits, Tables
<1>5. AllTables(d) /\ TextRows(d.singleChoices) /\ SyncTables(d)
  BY DEF Typed, SyncTables
<1>6. ImagesDone(y, plan.images, d, b1)
  BY <1>4, <1>5, ImagesWritten
<1> HIDE DEF b1
<1>7. /\ AllTables(b1) /\ b1.singleChoices = d.singleChoices /\ b1.questions = d.questions
      /\ b1.workbooks = d.workbooks /\ b1.categories = d.categories
      /\ b1.appCategories = d.appCategories
  <2>1. Same(d, b1, {"images", "questionImages"})
    BY <1>6 DEF ImagesDone
  <2>2. AllTables(b1)
    BY <1>5, <2>1, SameKeepsTables
  <2> QED
    BY <2>1, <2>2 DEF Same, TableNames, Serial
<1>8. QuestionsDone(y, plan.questions, b1, b2)
  <2>1. \A q \in plan.questions.change : \E s \in b1.singleChoices : s.question = q
    BY <1>1, <1>7 DEF ConstraintsHold, GetQuestionByID
  <2> QED
    BY <1>4, <1>5, <1>7, <2>1, QuestionsWritten
<1> HIDE DEF b2
<1>9. SyncTables(b2)
  <2>1. Same(b1, b2, QuestionTables \cup {"workbookQuestions"})
    BY <1>8 DEF QuestionsDone
  <2>2. AllTables(b2)
    BY <1>7, <2>1, SameKeepsTables
  <2>3. /\ b2.workbooks = b1.workbooks /\ b2.categories = b1.categories
        /\ b2.appCategories = b1.appCategories
    BY <2>1 DEF Same, TableNames, Serial, QuestionTables
  <2> QED
    BY <1>5, <1>7, <2>2, <2>3 DEF SyncTables
<1>10. SyncTables(b3) /\ Same(b2, b3, CategoryTables)
  BY <1>4, <1>9, CategoriesTyped
<1>11. BooksDone(y, plan.workbooks, f, b3, b4)
  <2> HIDE DEF b3
  <2> QED
    BY <1>4, <1>10, WorkbooksWritten DEF SyncTables
<1>12. Parts(y, plan, d, b1, b2, b3, b4, f, e)
  BY <1>2, <1>6, <1>8, <1>9, <1>10, <1>11 DEF Parts
<1> HIDE DEF b3, b4
<1> QED
  BY <1>1, <1>3, <1>12

(* The columns.                                                             *)
LEMMA FewerRowsTyped ==
  ASSUME NEW T, NEW U, NEW V, V \subseteq T \cup U
  PROVE  /\ IdRows(T) /\ IdRows(U) => IdRows(V)
         /\ TextRows(T) /\ TextRows(U) => TextRows(V)
         /\ ChoiceRows(T) /\ ChoiceRows(U) => ChoiceRows(V)
         /\ OrderRows(T) /\ OrderRows(U) => OrderRows(V)
         /\ NamedRows(T) /\ NamedRows(U) => NamedRows(V)
<1>1. IsFiniteSet(T) /\ IsFiniteSet(U) => IsFiniteSet(V)
  BY FS_Union, FS_Subset
<1> QED
  BY <1>1 DEF IdRows, TextRows, ChoiceRows, OrderRows, NamedRows
LEMMA ResetNumbers ==
  ASSUME NEW d, AllTables(d), Numbering(d.seq), Numbers(d.questions),
         IdRows(d.images), IdRows(d.workbooks), IdRows(d.categories)
  PROVE  LET e == resetSequences(d) IN Same(d, e, {"seq"}) /\ AllTables(e) /\ Numbering(e.seq)
<1> DEFINE e == resetSequences(d)
           images == {m.id : m \in d.images}
           workbooks == {w.id : w \in d.workbooks}
           categories == {c.id : c \in d.categories}
<1>1. /\ Same(d, e, {"seq"}) /\ DOMAIN e.seq = DOMAIN d.seq
      /\ e.seq.questions = Max(d.questions) + 1 /\ e.seq.images = Max(images) + 1
      /\ e.seq.workbooks = Max(workbooks) + 1 /\ e.seq.categories = Max(categories) + 1
      /\ e.seq.apps = d.seq.apps /\ e.seq.announcements = d.seq.announcements
  BY DEF resetSequences, Same, AllTables, Numbering, TableNames, Serial
<1> HIDE DEF e
<1>2. Numbers(images) /\ Numbers(workbooks) /\ Numbers(categories)
  BY IdsAreNumbers DEF IdRows, NumberedRows, IdNumbers
<1> HIDE DEF images, workbooks, categories
<1>3. Max(d.questions) \in Nat /\ Max(images) \in Nat /\ Max(workbooks) \in Nat /\ Max(categories) \in Nat
  BY <1>2, LargestOf
<1>4. Numbering(e.seq)
  BY <1>1, <1>3 DEF Numbering, Serial, IdNumbers
<1>5. AllTables(e)
  BY <1>1, SameKeepsTables
<1> QED
  BY <1>1, <1>4, <1>5 DEF e
LEMMA AppliedTyped ==
  ASSUME NEW y, DirectoryOK(y), NEW plan, PlanFits(y, plan), NEW d, Typed(d), ConstraintsHold(d),
         NEW e, e \in applied(y, plan, d)
  PROVE  Typed(e) /\ ConstraintsHold(e)
<1>1. PICK b1, b2, b3, b4, f : Parts(y, plan, d, b1, b2, b3, b4, f, e)
  BY AppliedInParts
<1>2. /\ Fits(y, "images", plan.images) /\ Fits(y, "questions", plan.questions)
      /\ Fits(y, "categories", plan.categories) /\ Fits(y, "workbooks", plan.workbooks)
  BY DEF PlanFits, Tables
<1>3. /\ Same(d, b1, {"images", "questionImages"}) /\ Same(b1, b2, QuestionTables \cup {"workbookQuestions"})
      /\ Same(b2, b3, CategoryTables) /\ Same(b3, b4, WorkbookTables)
      /\ SyncTables(b3) /\ BookRows(b4.workbooks)
  BY <1>1 DEF Parts, ImagesDone, QuestionsDone, BooksDone
<1>4. AllTables(d) /\ AllTables(b1) /\ AllTables(b2) /\ AllTables(b3) /\ AllTables(b4)
  BY <1>3, SameKeepsTables DEF Typed
<1>5. /\ b4.seq = d.seq /\ b4.apps = d.apps /\ b4.announcements = d.announcements
      /\ b4.images = b1.images /\ b4.questions = b2.questions /\ b4.singleChoices = b2.singleChoices
      /\ b4.choices = b2.choices /\ b4.questionImages = b2.questionImages
      /\ b4.categories = b3.categories /\ b4.appCategories = b3.appCategories
      /\ b3.workbookQuestions = b2.workbookQuestions /\ b1.questions = d.questions
      /\ b1.singleChoices = d.singleChoices /\ b1.choices = d.choices
      /\ b1.workbookQuestions = d.workbookQuestions
  BY <1>3 DEF Same, TableNames, Serial, QuestionTables, CategoryTables, WorkbookTables
<1>6. IdRows(b4.images)
  <2>1. PutIds(plan.images, d) \subseteq DOMAIN y.images
    BY <1>2 DEF Fits, PutIds
  <2>2. IdRows(ImagesFor(y, PutIds(plan.images, d)))
    BY <2>1, FilledTyped
  <2>3. b1.images \subseteq d.images \cup ImagesFor(y, PutIds(plan.images, d))
    BY <1>1 DEF Parts, ImagesDone
  <2> QED
    BY <1>5, <2>2, <2>3, FewerRowsTyped DEF Typed
<1>7. Made(plan.questions) \subseteq DOMAIN y.questions /\ Made(plan.workbooks) \subseteq DOMAIN y.workbooks
  BY <1>2 DEF Fits, Made
<1>8. IsFiniteSet(b4.questions) /\ b4.questions \subseteq IdNumbers
  <2>1. plan.questions.add \subseteq IdNumbers /\ IsFiniteSet(plan.questions.add)
    BY <1>2, EntriesOf DEF Fits
  <2>2. b4.questions \subseteq d.questions \cup plan.questions.add
    BY <1>1, <1>5 DEF Parts, QuestionsDone
  <2> QED
    BY <2>1, <2>2, FS_Union, FS_Subset DEF Typed
<1>9. TextRows(b4.singleChoices) /\ ChoiceRows(b4.choices) /\ OrderRows(b4.questionImages)
  <2>1. /\ TextRows(TextsFor(y, Made(plan.questions))) /\ ChoiceRows(AllChoices(y, Made(plan.questions)))
        /\ OrderRows(AllShown(y, Made(plan.questions)))
    BY <1>7, FilledTyped
  <2>2. /\ b4.singleChoices \subseteq d.singleChoices \cup TextsFor(y, Made(plan.questions))
        /\ b4.choices \subseteq d.choices \cup AllChoices(y, Made(plan.questions))
        /\ b4.questionImages \subseteq b1.questionImages \cup AllShown(y, Made(plan.questions))
    BY <1>1, <1>5 DEF Parts, QuestionsDone
  <2>3. b1.questionImages \subseteq d.questionImages
    BY <1>1 DEF Parts, ImagesDone
  <2>4. b4.questionImages \subseteq d.questionImages \cup AllShown(y, Made(plan.questions))
    BY <2>2, <2>3
  <2> QED
    BY <2>1, <2>2, <2>4, FewerRowsTyped DEF Typed
<1>10. OrderRows(b4.workbookQuestions)
  <2>1. OrderRows(AllPlaces(y, Made(plan.workbooks)))
    BY <1>7, FilledTyped
  <2>2. b4.workbookQuestions \subseteq b3.workbookQuestions \cup AllPlaces(y, Made(plan.workbooks))
    BY <1>1 DEF Parts, BooksDone
  <2>3. b2.workbookQuestions \subseteq b1.workbookQuestions
    BY <1>1 DEF Parts, QuestionsDone
  <2>4. b4.workbookQuestions \subseteq d.workbookQuestions \cup AllPlaces(y, Made(plan.workbooks))
    BY <1>5, <2>2, <2>3
  <2> QED
    BY <2>1, <2>4, FewerRowsTyped DEF Typed
<1>11. /\ NamedRows(b4.categories) /\ BookRows(b4.workbooks) /\ IsFiniteSet(b4.appCategories)
       /\ SlugRows(b4.apps) /\ IdRows(b4.announcements) /\ Numbering(b4.seq)
  BY <1>3, <1>5 DEF SyncTables, Typed
<1>12. e = resetSequences(b4) /\ ConstraintsHold(e)
  BY <1>1 DEF Parts
<1>13. Same(b4, e, {"seq"}) /\ AllTables(e) /\ Numbering(e.seq)
  <2>1. Numbers(b4.questions) /\ IdRows(b4.workbooks) /\ IdRows(b4.categories)
    BY <1>8, <1>11 DEF Numbers, BookRows, NamedRows, IdNumbers
  <2> QED
    BY <1>4, <1>6, <1>11, <1>12, <2>1, ResetNumbers
<1>14. \A t \in TableNames : e[t] = b4[t]
  BY <1>13 DEF Same, TableNames, Serial
<1>15. /\ e.questions = b4.questions /\ e.singleChoices = b4.singleChoices /\ e.choices = b4.choices
       /\ e.questionImages = b4.questionImages /\ e.workbookQuestions = b4.workbookQuestions
       /\ e.images = b4.images /\ e.categories = b4.categories /\ e.workbooks = b4.workbooks
       /\ e.apps = b4.apps /\ e.announcements = b4.announcements /\ e.appCategories = b4.appCategories
  BY <1>14 DEF TableNames, Serial
<1> QED
  BY <1>6, <1>8, <1>9, <1>10, <1>11, <1>12, <1>13, <1>15 DEF Typed

-----------------------------------------------------------------------------
(* What the importer's loops add: a row, unless one is there with its key.  *)
Imports == {"ImportImage", "ImportNthChoice", "ImportNthImage", "ImportNthQuestion"}
Filling(op) ==
  CASE op = "ImportImage" -> "images" [] op = "ImportNthChoice" -> "choices"
    [] op = "ImportNthImage" -> "questionImages" [] op = "ImportNthQuestion" -> "workbookQuestions"
NewRow(op, y, a, x) ==
  CASE op = "ImportImage" -> ImageRow(y, x) [] op = "ImportNthChoice" -> ChoiceRow(y, a, x)
    [] op = "ImportNthImage" -> ShownRow(y, a, x) [] op = "ImportNthQuestion" -> PlaceRow(y, a, x)
Clash(op, r, new) ==
  CASE op = "ImportImage"       -> r.id = new.id \/ r.path = new.path
    [] op = "ImportNthChoice"   -> r.question = new.question /\ r.index = new.index
    [] op = "ImportNthImage"    -> r.question = new.question /\ (r.image = new.image \/ r.order = new.order)
    [] op = "ImportNthQuestion" -> r.workbook = new.workbook /\ r.question = new.question
Adds(op, d, e, t, new) ==
  /\ Same(d, e, {t}) /\ Clash(op, new, new)
  /\ e[t] = IF \E r \in d[t] : Clash(op, r, new) THEN d[t] ELSE d[t] \cup {new}
LEMMA RowImported ==
  ASSUME NEW op \in Imports, NEW y, NEW a, NEW d, AllTables(d), NEW x
  PROVE  Adds(op, d, Statement(op, y, a, d, x), Filling(op), NewRow(op, y, a, x))
<1> DEFINE e == Statement(op, y, a, d, x)
           t == Filling(op)
           new == NewRow(op, y, a, x)
<1>1. CASE op = "ImportImage"
  <2>1. e = ImportImage(d, x, y.images[x]) /\ t = "images" /\ new = ImageRow(y, x)
    BY <1>1 DEF Statement, Filling, NewRow
  <2>2. new.id = x /\ new.path = y.images[x]
    BY <2>1 DEF ImageRow
  <2> HIDE DEF e, t, new
  <2>3. /\ Same(d, e, {"images"})
        /\ e.images = IF \E m \in d.images : m.id = x \/ m.path = y.images[x] THEN d.images
                      ELSE d.images \cup {ImageRow(y, x)}
    <3>1. LET c == ImportImage(d, x, y.images[x])
          IN  /\ Same(d, c, {"images"})
              /\ c.images = IF \E m \in d.images : m.id = x \/ m.path = y.images[x] THEN d.images
                            ELSE d.images \cup {ImageRow(y, x)}
      BY DEF ImportImage, CreateImage, ImageRow, AllTables, Same, TableNames, Serial
    <3> QED
      BY <2>1, <3>1
  <2>4. \A r : Clash(op, r, new) <=> (r.id = x \/ r.path = y.images[x])
    BY <1>1, <2>2 DEF Clash
  <2> QED
    BY <2>1, <2>2, <2>3, <2>4 DEF Adds, e, t, new
<1>2. CASE op = "ImportNthChoice"
  <2>1. e = ImportNthChoice(y, a, d, x) /\ t = "choices" /\ new = ChoiceRow(y, a, x)
    BY <1>2 DEF Statement, Filling, NewRow
  <2>2. new.question = a /\ new.index = x - 1
    BY <2>1 DEF ChoiceRow
  <2> HIDE DEF e, t, new
  <2>3. /\ Same(d, e, {"choices"})
        /\ e.choices = IF \E c \in d.choices : c.question = a /\ c.index = x - 1 THEN d.choices
                       ELSE d.choices \cup {ChoiceRow(y, a, x)}
    BY <2>1, NthChoiceEffects
  <2>4. \A r : Clash(op, r, new) <=> (r.question = a /\ r.index = x - 1)
    BY <1>2, <2>2 DEF Clash
  <2> QED
    BY <2>1, <2>2, <2>3, <2>4 DEF Adds, e, t, new
<1>3. CASE op = "ImportNthImage"
  <2>1. e = ImportNthImage(y, a, d, x) /\ t = "questionImages" /\ new = ShownRow(y, a, x)
    BY <1>3 DEF Statement, Filling, NewRow
  <2>2. new.question = a
    BY <2>1 DEF ShownRow
  <2> HIDE DEF e, t, new
  <2>3. /\ Same(d, e, {"questionImages"})
        /\ e.questionImages = IF \E r \in d.questionImages :
                                   r.question = a /\ (r.image = new.image \/ r.order = new.order)
                              THEN d.questionImages ELSE d.questionImages \cup {new}
    BY <2>1, NthImageEffects
  <2>4. \A r : Clash(op, r, new) <=> (r.question = a /\ (r.image = new.image \/ r.order = new.order))
    BY <1>3, <2>2 DEF Clash
  <2> QED
    BY <2>1, <2>2, <2>3, <2>4 DEF Adds, e, t, new
<1>4. CASE op = "ImportNthQuestion"
  <2>1. e = ImportNthQuestion(y, a, d, x) /\ t = "workbookQuestions" /\ new = PlaceRow(y, a, x)
    BY <1>4 DEF Statement, Filling, NewRow
  <2>2. new.workbook = a
    BY <2>1 DEF PlaceRow
  <2> HIDE DEF e, t, new
  <2>3. /\ Same(d, e, {"workbookQuestions"})
        /\ e.workbookQuestions = IF \E r \in d.workbookQuestions :
                                      r.workbook = a /\ r.question = new.question
                                 THEN d.workbookQuestions ELSE d.workbookQuestions \cup {new}
    BY <2>1, NthQuestionEffects
  <2>4. \A r : Clash(op, r, new) <=> (r.workbook = a /\ r.question = new.question)
    BY <1>4, <2>2 DEF Clash
  <2> QED
    BY <2>1, <2>2, <2>3, <2>4 DEF Adds, e, t, new
<1> QED
  BY <1>1, <1>2, <1>3, <1>4 DEF Imports
RowsAdded(op, y, a, xs, n, t, b, r) ==
  /\ Same(b, r, {t}) /\ AllTables(r) /\ b[t] \subseteq r[t]
  /\ \A row \in r[t] : row \in b[t] \/ \E i \in 1 .. n : row = NewRow(op, y, a, xs[i])
  /\ \A i \in 1 .. n : \E row \in r[t] : Clash(op, row, NewRow(op, y, a, xs[i]))
LEMMA RowsImported ==
  ASSUME NEW op \in Imports, NEW y, NEW a, NEW xs, NEW n \in Nat, NEW b, AllTables(b),
         NEW r, Loop(op, y, a, xs, n, b, r), NEW t, t = Filling(op)
  PROVE  RowsAdded(op, y, a, xs, n, t, b, r)
<1> DEFINE New(i) == NewRow(op, y, a, xs[i])
<1>1. PICK f : f[0] = b /\ f[n] = r /\ \A i \in 1 .. n : f[i] = Statement(op, y, a, f[i - 1], xs[i])
  BY DEF Loop
<1> DEFINE G == {i \in 0 .. n :
                   /\ Same(b, f[i], {t}) /\ AllTables(f[i]) /\ b[t] \subseteq f[i][t]
                   /\ \A row \in f[i][t] : row \in b[t] \/ \E j \in 1 .. i : row = New(j)
                   /\ \A j \in 1 .. i : \E row \in f[i][t] : Clash(op, row, New(j))}
<1>2. 0 \in G
  BY <1>1 DEF Same
<1>3. ASSUME NEW i \in 1 .. n, i - 1 \in G PROVE i \in G
  <2> DEFINE d == f[i - 1]
             e == f[i]
             new == New(i)
  <2>1. /\ Same(b, d, {t}) /\ AllTables(d) /\ b[t] \subseteq d[t]
        /\ \A row \in d[t] : row \in b[t] \/ \E j \in 1 .. i - 1 : row = New(j)
        /\ \A j \in 1 .. i - 1 : \E row \in d[t] : Clash(op, row, New(j))
    BY <1>3
  <2>2. e = Statement(op, y, a, d, xs[i])
    BY <1>1
  <2>3. /\ Same(d, e, {t})
        /\ e[t] = IF \E row \in d[t] : Clash(op, row, new) THEN d[t] ELSE d[t] \cup {new}
        /\ Clash(op, new, new)
    <3>1. Adds(op, d, Statement(op, y, a, d, xs[i]), Filling(op), NewRow(op, y, a, xs[i]))
      BY <2>1, RowImported
    <3> QED
      BY <2>2, <3>1 DEF Adds
  <2>4. i \in 0 .. n /\ \A j \in 1 .. i : j \in 1 .. i - 1 \/ j = i
    OBVIOUS
  <2>5. \A j \in 1 .. i - 1 : j \in 1 .. i
    OBVIOUS
  <2>6. i \in 1 .. i
    OBVIOUS
  <2> HIDE DEF d, e, New
  <2>7. AllTables(e) /\ Same(b, e, {t}) /\ b[t] \subseteq e[t] /\ d[t] \subseteq e[t]
    BY <2>1, <2>3, SameKeepsTables DEF Same
  <2>8. \A row \in e[t] : row \in b[t] \/ \E j \in 1 .. i : row = New(j)
    BY <2>1, <2>3, <2>5, <2>6
  <2>9. \A j \in 1 .. i : \E row \in e[t] : Clash(op, row, New(j))
    <3>1. \E row \in e[t] : Clash(op, row, New(i))
      BY <2>3
    <3> QED
      BY <2>1, <2>4, <2>7, <3>1
  <2> QED
    BY <2>4, <2>7, <2>8, <2>9 DEF e, New
<1>4. n \in G
  <2>1. \A i \in 0 .. n : i \in G
    <3> HIDE DEF G
    <3> QED
      BY <1>2, <1>3, Climb
  <2> QED
    BY <2>1
<1> QED
  BY <1>1, <1>4 DEF RowsAdded

(* The transactions of the importer, table by table.                        *)
Emptied == TableNames \ {"apps", "announcements"}
LEMMA ClearedTables ==
  ASSUME NEW d, AllTables(d)
  PROVE  /\ Same(d, clearData(d), Emptied) /\ AllTables(clearData(d))
         /\ \A t \in Emptied : clearData(d)[t] = {}
<1> DEFINE e1 == DeleteAllWorkbookQuestions(d)
           e2 == DeleteAllWorkbooks(e1)
           e3 == DeleteAllCategories(e2)
           e4 == DeleteAllQuestionImages(e3)
           e5 == DeleteAllChoices(e4)
           e6 == DeleteAllSingleChoices(e5)
           e7 == DeleteAllQuestions(e6)
           e8 == DeleteAllImages(e7)
           Kin(e) == AllTables(e) /\ e.seq = d.seq /\ e.apps = d.apps /\ e.announcements = d.announcements
<1> USE DEF AllTables, TableNames, Serial
<1>1. Kin(e1) /\ e1.workbookQuestions = {}
  BY DEF DeleteAllWorkbookQuestions
<1> HIDE DEF e1
<1>2. Kin(e2) /\ e2.workbookQuestions = {} /\ e2.workbooks = {}
  BY <1>1 DEF DeleteAllWorkbooks
<1> HIDE DEF e2
<1>3. /\ Kin(e3) /\ e3.workbookQuestions = {} /\ e3.workbooks = {} /\ e3.categories = {}
      /\ e3.appCategories = {}
  BY <1>2 DEF DeleteAllCategories
<1> HIDE DEF e3
<1>4. /\ Kin(e4) /\ e4.workbookQuestions = {} /\ e4.workbooks = {} /\ e4.categories = {}
      /\ e4.appCategories = {} /\ e4.questionImages = {}
  BY <1>3 DEF DeleteAllQuestionImages
<1> HIDE DEF e4
<1>5. /\ Kin(e5) /\ e5.workbookQuestions = {} /\ e5.workbooks = {} /\ e5.categories = {}
      /\ e5.appCategories = {} /\ e5.questionImages = {} /\ e5.choices = {}
  BY <1>4 DEF DeleteAllChoices
<1> HIDE DEF e5
<1>6. /\ Kin(e6) /\ e6.workbookQuestions = {} /\ e6.workbooks = {} /\ e6.categories = {}
      /\ e6.appCategories = {} /\ e6.questionImages = {} /\ e6.choices = {} /\ e6.singleChoices = {}
  BY <1>5 DEF DeleteAllSingleChoices
<1> HIDE DEF e6
<1>7. /\ Kin(e7) /\ e7.workbookQuestions = {} /\ e7.workbooks = {} /\ e7.categories = {}
      /\ e7.appCategories = {} /\ e7.questionImages = {} /\ e7.choices = {} /\ e7.singleChoices = {}
      /\ e7.questions = {}
  BY <1>6 DEF DeleteAllQuestions
<1> HIDE DEF e7
<1>8. /\ Kin(e8) /\ e8.workbookQuestions = {} /\ e8.workbooks = {} /\ e8.categories = {}
      /\ e8.appCategories = {} /\ e8.questionImages = {} /\ e8.choices = {} /\ e8.singleChoices = {}
      /\ e8.questions = {} /\ e8.images = {}
  BY <1>7 DEF DeleteAllImages
<1>9. clearData(d) = e8
  BY DEF clearData, e1, e2, e3, e4, e5, e6, e7
<1> HIDE DEF e8
<1>10. Same(d, e8, Emptied) /\ AllTables(e8) /\ \A t \in Emptied : e8[t] = {}
  BY <1>8 DEF Same, Emptied
<1> HIDE DEF AllTables, TableNames, Serial
<1> QED
  BY <1>9, <1>10
LEMMA ImagesGrow ==
  ASSUME NEW y, DirectoryOK(y), NEW d, AllTables(d), NEW e, e \in importImages(y, d)
  PROVE  /\ Same(d, e, {"images"}) /\ AllTables(e) /\ d.images \subseteq e.images
         /\ \A m \in e.images : m \in d.images \/ m \in ImagesFor(y, DOMAIN y.images)
         /\ \A x \in DOMAIN y.images : \E m \in e.images : m.id = x \/ m.path = y.images[x]
<1> DEFINE S == DOMAIN y.images
           op == "ImportImage"
           ids == Ascending(S)
           n == Cardinality(S)
<1>1. Numbers(S)
  BY NumbersOf
<1>2. Loop(op, y, 0, ids, n, d, e)
  BY <1>1, ImagesImported DEF ForAll
<1>3. /\ n \in Nat /\ \A i \in 1 .. n : ids[i] \in S
      /\ \A s \in S : \E i \in 1 .. n : ids[i] = s
  BY <1>1, NumbersInOrder DEF Numbers
<1> HIDE DEF S, ids, n
<1>4. op \in Imports /\ Filling(op) = "images" /\ \A x : NewRow(op, y, 0, x) = ImageRow(y, x)
  BY DEF Imports, Filling, NewRow
<1>5. /\ Same(d, e, {"images"}) /\ AllTables(e) /\ d["images"] \subseteq e["images"]
      /\ \A m \in e["images"] : m \in d["images"] \/ \E i \in 1 .. n : m = NewRow(op, y, 0, ids[i])
      /\ \A i \in 1 .. n : \E m \in e["images"] : Clash(op, m, NewRow(op, y, 0, ids[i]))
  <2>1. RowsAdded(op, y, 0, ids, n, "images", d, e)
    BY <1>2, <1>3, <1>4, RowsImported
  <2> QED
    BY <2>1 DEF RowsAdded
<1>6. \A m, x : Clash(op, m, ImageRow(y, x)) => (m.id = x \/ m.path = y.images[x])
  BY DEF Clash, ImageRow
<1> QED
  BY <1>3, <1>4, <1>5, <1>6 DEF ImagesFor, S
QuestionGrown(y, q, d, e) ==
  /\ Same(d, e, QuestionTables) /\ AllTables(e) /\ e.questions = d.questions \cup {q}
  /\ e.singleChoices = IF \E s \in d.singleChoices : s.question = q
                       THEN {Retexted(y, q, s) : s \in d.singleChoices}
                       ELSE d.singleChoices \cup {TextRow(y, q)}
  /\ d.choices \subseteq e.choices /\ d.questionImages \subseteq e.questionImages
  /\ \A r \in e.choices : r \in d.choices \/ r \in ChoicesFor(y, q)
  /\ \A r \in e.questionImages : r \in d.questionImages \/ r \in ShownFor(y, q)
  /\ \A new \in ChoicesFor(y, q) : \E r \in e.choices : Clash("ImportNthChoice", r, new)
  /\ \A new \in ShownFor(y, q) : \E r \in e.questionImages : Clash("ImportNthImage", r, new)
LEMMA QuestionGrows ==
  ASSUME NEW y, DirectoryOK(y), NEW q \in DOMAIN y.questions, NEW d, AllTables(d),
         NEW e, e \in importQuestion(y, q, d)
  PROVE  QuestionGrown(y, q, d, e)
<1> DEFINE cs == y.questions[q].choices
           images == y.questions[q].images
           b == ImportSingleChoice(ImportQuestion(d, q), q, y.questions[q].text)
<1>1. cs \in Seq(STRING) /\ images \in Seq(Nat)
  BY EntriesOf
<1>2. PICK p : /\ Loop("ImportNthChoice", y, q, Indices(cs), Len(cs), b, p)
               /\ Loop("ImportNthImage", y, q, Indices(images), Len(images), p, e)
  BY <1>1, QuestionImported
<1>3. /\ Len(cs) \in Nat /\ DOMAIN cs = 1 .. Len(cs) /\ \A i \in 1 .. Len(cs) : Indices(cs)[i] = i
      /\ Len(images) \in Nat /\ DOMAIN images = 1 .. Len(images)
      /\ \A i \in 1 .. Len(images) : Indices(images)[i] = i
  BY <1>1 DEF Indices
<1>4. /\ Same(d, b, {"questions", "singleChoices"})
      /\ b.questions = d.questions \cup {q}
      /\ b.singleChoices = IF \E s \in d.singleChoices : s.question = q
                           THEN {Retexted(y, q, s) : s \in d.singleChoices}
                           ELSE d.singleChoices \cup {TextRow(y, q)}
  <2>1. QuestionBegun(y, q, d, ImportSingleChoice(ImportQuestion(d, q), q, y.questions[q].text))
    BY QuestionStarts
  <2>2. QuestionBegun(y, q, d, b)
    BY <2>1
  <2> HIDE DEF b
  <2> QED
    BY <2>2 DEF QuestionBegun
<1> HIDE DEF b
<1>5. AllTables(b)
  BY <1>4, SameKeepsTables
<1>6. /\ \A r : r \in ChoicesFor(y, q) <=> \E i \in 1 .. Len(cs) : r = ChoiceRow(y, q, i)
      /\ \A r : r \in ShownFor(y, q) <=> \E i \in 1 .. Len(images) : r = ShownRow(y, q, i)
  BY <1>3 DEF ChoicesFor, ShownFor
<1> HIDE DEF cs, images
<1>7. /\ Same(b, p, {"choices"}) /\ AllTables(p) /\ b.choices \subseteq p.choices
      /\ \A r \in p.choices : r \in b.choices \/ r \in ChoicesFor(y, q)
      /\ \A new \in ChoicesFor(y, q) : \E r \in p.choices : Clash("ImportNthChoice", r, new)
  <2> DEFINE op == "ImportNthChoice"
             xs == Indices(cs)
  <2>1. op \in Imports /\ Filling(op) = "choices" /\ \A x : NewRow(op, y, q, x) = ChoiceRow(y, q, x)
    BY DEF Imports, Filling, NewRow
  <2> HIDE DEF xs
  <2>2. /\ Same(b, p, {"choices"}) /\ AllTables(p) /\ b["choices"] \subseteq p["choices"]
        /\ \A r \in p["choices"] : r \in b["choices"] \/ \E i \in 1 .. Len(cs) : r = NewRow(op, y, q, xs[i])
        /\ \A i \in 1 .. Len(cs) : \E r \in p["choices"] : Clash(op, r, NewRow(op, y, q, xs[i]))
    <3>1. RowsAdded(op, y, q, xs, Len(cs), "choices", b, p)
      BY <1>2, <1>3, <1>5, <2>1, RowsImported DEF xs
    <3> QED
      BY <3>1 DEF RowsAdded
  <2> QED
    BY <1>3, <1>6, <2>1, <2>2 DEF xs
<1>8. /\ Same(p, e, {"questionImages"}) /\ AllTables(e) /\ p.questionImages \subseteq e.questionImages
      /\ \A r \in e.questionImages : r \in p.questionImages \/ r \in ShownFor(y, q)
      /\ \A new \in ShownFor(y, q) : \E r \in e.questionImages : Clash("ImportNthImage", r, new)
  <2> DEFINE op == "ImportNthImage"
             xs == Indices(images)
  <2>1. op \in Imports /\ Filling(op) = "questionImages" /\ \A x : NewRow(op, y, q, x) = ShownRow(y, q, x)
    BY DEF Imports, Filling, NewRow
  <2> HIDE DEF xs
  <2>2. /\ Same(p, e, {"questionImages"}) /\ AllTables(e) /\ p["questionImages"] \subseteq e["questionImages"]
        /\ \A r \in e["questionImages"] :
             r \in p["questionImages"] \/ \E i \in 1 .. Len(images) : r = NewRow(op, y, q, xs[i])
        /\ \A i \in 1 .. Len(images) : \E r \in e["questionImages"] : Clash(op, r, NewRow(op, y, q, xs[i]))
    <3>1. RowsAdded(op, y, q, xs, Len(images), "questionImages", p, e)
      BY <1>2, <1>3, <1>7, <2>1, RowsImported DEF xs
    <3> QED
      BY <3>1 DEF RowsAdded
  <2> QED
    BY <1>3, <1>6, <2>1, <2>2 DEF xs
<1>9. /\ p.questions = b.questions /\ p.singleChoices = b.singleChoices
      /\ p.questionImages = b.questionImages /\ e.questions = p.questions
      /\ e.singleChoices = p.singleChoices /\ e.choices = p.choices
      /\ b.choices = d.choices /\ b.questionImages = d.questionImages
  BY <1>4, <1>7, <1>8 DEF Same, TableNames, Serial
<1>10. Same(d, e, QuestionTables)
  BY <1>4, <1>7, <1>8 DEF Same, QuestionTables
<1> QED
  BY <1>4, <1>7, <1>8, <1>9, <1>10 DEF QuestionGrown
WorkbookGrown(y, w, d, e) ==
  /\ Same(d, e, WorkbookTables) /\ AllTables(e)
  /\ e.workbooks = IF \E v \in d.workbooks : v.id = w THEN d.workbooks
                   ELSE d.workbooks \cup {WorkbookLine(y, w, NoCategory)}
  /\ d.workbookQuestions \subseteq e.workbookQuestions
  /\ \A r \in e.workbookQuestions : r \in d.workbookQuestions \/ r \in PlacesFor(y, w)
  /\ \A new \in PlacesFor(y, w) : \E r \in e.workbookQuestions : Clash("ImportNthQuestion", r, new)
LEMMA WorkbookGrows ==
  ASSUME NEW y, DirectoryOK(y), NEW w \in DOMAIN y.workbooks, NEW d, AllTables(d),
         NEW e, e \in importWorkbook(y, w, d)
  PROVE  WorkbookGrown(y, w, d, e)
<1> DEFINE qs == y.workbooks[w].questions
           op == "ImportNthQuestion"
           xs == Indices(qs)
           b == ImportWorkbook(d, w, y.workbooks[w].title)
<1>1. qs \in Seq(Nat)
  BY EntriesOf
<1>2. Loop(op, y, w, xs, Len(qs), b, e)
  BY <1>1, WorkbookImported
<1>3. Len(qs) \in Nat /\ DOMAIN qs = 1 .. Len(qs) /\ \A i \in 1 .. Len(qs) : xs[i] = i
  BY <1>1 DEF Indices
<1>4. /\ Same(d, b, {"workbooks"})
      /\ b.workbooks = IF \E v \in d.workbooks : v.id = w THEN d.workbooks
                       ELSE d.workbooks \cup {WorkbookLine(y, w, NoCategory)}
  BY WorkbookStarts DEF WorkbookBegun
<1> HIDE DEF b
<1>5. AllTables(b)
  BY <1>4, SameKeepsTables
<1>6. \A r : r \in PlacesFor(y, w) <=> \E i \in 1 .. Len(qs) : r = PlaceRow(y, w, i)
  BY <1>3 DEF PlacesFor
<1> HIDE DEF qs, xs
<1>7. op \in Imports /\ Filling(op) = "workbookQuestions" /\ \A x : NewRow(op, y, w, x) = PlaceRow(y, w, x)
  BY DEF Imports, Filling, NewRow
<1>8. /\ Same(b, e, {"workbookQuestions"}) /\ AllTables(e) /\ b["workbookQuestions"] \subseteq e["workbookQuestions"]
      /\ \A r \in e["workbookQuestions"] :
           r \in b["workbookQuestions"] \/ \E i \in 1 .. Len(qs) : r = NewRow(op, y, w, xs[i])
      /\ \A i \in 1 .. Len(qs) : \E r \in e["workbookQuestions"] : Clash(op, r, NewRow(op, y, w, xs[i]))
  <2>1. RowsAdded(op, y, w, xs, Len(qs), "workbookQuestions", b, e)
    BY <1>2, <1>3, <1>5, <1>7, RowsImported
  <2> QED
    BY <2>1 DEF RowsAdded
<1>9. e.workbooks = b.workbooks /\ b.workbookQuestions = d.workbookQuestions
  BY <1>4, <1>8 DEF Same, TableNames, Serial
<1>10. Same(d, e, WorkbookTables)
  BY <1>4, <1>8 DEF Same, WorkbookTables
<1> QED
  BY <1>3, <1>4, <1>6, <1>7, <1>8, <1>9, <1>10 DEF WorkbookGrown
(* The workbooks of X are put into the category c.                          *)
Assigned(c, X, W, V) ==
  /\ \A v \in V : \E w \in W :
       /\ v.id = w.id /\ v.title = w.title /\ v.published = w.published
       /\ v.category = IF v.id \in X THEN c ELSE w.category
  /\ \A w \in W : \E v \in V : v.id = w.id
LEMMA OneAssigned ==
  ASSUME NEW c, NEW W, BookRows(W), NEW x, NEW V,
         V = {IF w.id = x THEN [w EXCEPT !.category = c] ELSE w : w \in W}
  PROVE  BookRows(V) /\ Assigned(c, {x}, W, V)
<1> DEFINE f == [w \in W |-> IF w.id = x THEN [w EXCEPT !.category = c] ELSE w]
<1>1. IsFiniteSet(W)
  BY DEF BookRows, IdRows
<1>2. V = {f[w] : w \in W}
  OBVIOUS
<1>3. \A w \in W : /\ DOMAIN f[w] = {"id", "title", "category", "published"}
                   /\ f[w].id = w.id /\ f[w].title = w.title /\ f[w].published = w.published
                   /\ f[w].category = IF w.id = x THEN c ELSE w.category
  BY DEF BookRows
<1> HIDE DEF f
<1>4. IsFiniteSet(V)
  BY <1>1, <1>2, RewrittenRows
<1>5. \A w \in W : w.id \in IdNumbers
  BY DEF BookRows, IdRows
<1>6. \A v \in V : \E w \in W : v = f[w]
  BY <1>2
<1>7. \A w \in W : f[w] \in V
  BY <1>2
<1>8. BookRows(V)
  BY <1>3, <1>4, <1>5, <1>6 DEF BookRows, IdRows
<1>9. Assigned(c, {x}, W, V)
  BY <1>3, <1>6, <1>7 DEF Assigned
<1> QED
  BY <1>8, <1>9
LEMMA AssignedTwice ==
  ASSUME NEW c, NEW X, NEW x, NEW U, NEW V, NEW W, Assigned(c, X, U, V), Assigned(c, {x}, V, W)
  PROVE  Assigned(c, X \cup {x}, U, W)
BY DEF Assigned
CategoryGrown(y, c, d, e) ==
  /\ Same(d, e, {"categories", "workbooks"}) /\ AllTables(e) /\ BookRows(e.workbooks)
  /\ e.categories = IF \E k \in d.categories : k.id = c THEN d.categories
                    ELSE d.categories \cup {CategoryRow(y, c)}
  /\ Assigned(c, Elems(y.categories[c].workbooks), d.workbooks, e.workbooks)
LEMMA CategoryGrows ==
  ASSUME NEW y, DirectoryOK(y), NEW c \in DOMAIN y.categories, NEW d, AllTables(d),
         BookRows(d.workbooks), NEW e, e \in importCategory(y, c, d)
  PROVE  CategoryGrown(y, c, d, e)
<1> DEFINE ws == y.categories[c].workbooks
           op == "ImportNthWorkbook"
           b == ImportCategory(d, c, y.categories[c].title)
           n == Len(ws)
<1>1. ws \in Seq(Nat)
  BY EntriesOf
<1>2. Loop(op, y, c, Indices(ws), n, b, e)
  BY <1>1, CategoryImported
<1>3. n \in Nat /\ DOMAIN ws = 1 .. n /\ \A i \in 1 .. n : Indices(ws)[i] = i
  BY <1>1 DEF Indices
<1>4. PICK f : f[0] = b /\ f[n] = e /\ \A i \in 1 .. n : f[i] = Statement(op, y, c, f[i - 1], Indices(ws)[i])
  BY <1>2 DEF Loop
<1>5. \A i \in 1 .. n : f[i] = ImportNthWorkbook(y, c, f[i - 1], i)
  BY <1>3, <1>4 DEF Statement
<1>6. CategoryBegun(y, c, d, b)
  BY CategoryStarts
<1> HIDE DEF b, n
<1>7. Same(d, b, {"categories"})
  BY <1>6 DEF CategoryBegun
<1>8. AllTables(b) /\ b.workbooks = d.workbooks /\ BookRows(b.workbooks)
  BY <1>7, SameKeepsTables DEF Same, TableNames, Serial
<1> DEFINE X(i) == {ws[j] : j \in 1 .. i}
           G == {i \in 0 .. n : /\ Same(b, f[i], {"workbooks"}) /\ AllTables(f[i])
                                /\ BookRows(f[i].workbooks)
                                /\ Assigned(c, X(i), b.workbooks, f[i].workbooks)}
<1>9. 0 \in G
  <2>1. X(0) = {}
    OBVIOUS
  <2>2. Assigned(c, {}, b.workbooks, b.workbooks)
    BY DEF Assigned
  <2>3. Same(b, b, {"workbooks"})
    BY DEF Same
  <2>4. Assigned(c, X(0), b.workbooks, b.workbooks)
    BY <2>1, <2>2
  <2> HIDE DEF X
  <2>5. f[0] = b /\ 0 \in 0 .. n
    BY <1>3, <1>4
  <2> QED
    BY <1>8, <2>3, <2>4, <2>5
<1>10. ASSUME NEW i \in 1 .. n, i - 1 \in G PROVE i \in G
  <2> DEFINE p == f[i - 1]
             q == f[i]
  <2>1. /\ Same(b, p, {"workbooks"}) /\ AllTables(p) /\ BookRows(p.workbooks)
        /\ Assigned(c, X(i - 1), b.workbooks, p.workbooks)
    BY <1>10
  <2>2. q = ImportNthWorkbook(y, c, p, i)
    BY <1>5
  <2> HIDE DEF p, q
  <2>3. NthMoved(y, c, i, p, q)
    BY <2>1, <2>2, NthWorkbookEffects
  <2>4. /\ Same(p, q, {"workbooks"})
        /\ q.workbooks = {IF w.id = ws[i] THEN [w EXCEPT !.category = c] ELSE w : w \in p.workbooks}
    BY <2>3 DEF NthMoved
  <2>5. BookRows(q.workbooks) /\ Assigned(c, {ws[i]}, p.workbooks, q.workbooks)
    BY <2>1, <2>4, OneAssigned
  <2>6. Assigned(c, X(i - 1) \cup {ws[i]}, b.workbooks, q.workbooks)
    BY <2>1, <2>5, AssignedTwice
  <2>7. X(i) = X(i - 1) \cup {ws[i]} /\ i \in 0 .. n
    <3>1. \A j \in 1 .. i : j \in 1 .. i - 1 \/ j = i
      BY <1>3
    <3>2. \A j \in 1 .. i - 1 : j \in 1 .. i
      BY <1>3
    <3>3. i \in 1 .. i /\ i \in 0 .. n
      BY <1>3
    <3> QED
      BY <3>1, <3>2, <3>3
  <2>8. Same(b, q, {"workbooks"}) /\ AllTables(q)
    BY <2>1, <2>4, SameKeepsTables DEF Same
  <2> QED
    BY <2>5, <2>6, <2>7, <2>8 DEF q
<1>11. n \in G
  <2>1. \A i \in 0 .. n : i \in G
    <3> HIDE DEF G
    <3> QED
      BY <1>3, <1>9, <1>10, Climb
  <2>2. n \in 0 .. n
    BY <1>3
  <2> HIDE DEF G
  <2> QED
    BY <2>1, <2>2
<1>12. /\ Same(b, e, {"workbooks"}) /\ AllTables(e) /\ BookRows(e.workbooks)
       /\ Assigned(c, Elems(ws), b.workbooks, e.workbooks)
  <2>1. X(n) = Elems(ws)
    BY <1>3 DEF Elems
  <2> QED
    BY <1>4, <1>11, <2>1
<1>13. e.categories = b.categories
  BY <1>8, <1>12 DEF Same, AllTables, TableNames, Serial
<1>14. Same(d, e, {"categories", "workbooks"})
  BY <1>7, <1>12 DEF Same
<1>15. b.categories = IF \E k \in d.categories : k.id = c THEN d.categories
                      ELSE d.categories \cup {CategoryRow(y, c)}
  BY <1>6 DEF CategoryBegun
<1> QED
  BY <1>8, <1>12, <1>13, <1>14, <1>15 DEF CategoryGrown
(* Every transaction of the importer keeps the columns and the constraints. *)
LEMMA OnlyNumbers ==
  ASSUME NEW d, Typed(d), ConstraintsHold(d), NEW e, Same(d, e, {"seq"}), Numbering(e.seq)
  PROVE  Typed(e) /\ ConstraintsHold(e)
<1>1. \A t \in TableNames : e[t] = d[t]
  BY DEF Same, TableNames, Serial
<1>2. /\ e.categories = d.categories /\ e.workbooks = d.workbooks /\ e.announcements = d.announcements
      /\ e.apps = d.apps /\ e.images = d.images /\ e.questions = d.questions
      /\ e.singleChoices = d.singleChoices /\ e.choices = d.choices
      /\ e.questionImages = d.questionImages /\ e.workbookQuestions = d.workbookQuestions
      /\ e.appCategories = d.appCategories
  BY <1>1 DEF TableNames, Serial
<1>3. AllTables(e)
  BY SameKeepsTables DEF Typed
<1>4. Typed(e)
  BY <1>2, <1>3 DEF Typed
<1>5. ConstraintsHold(e)
  BY <1>2 DEF ConstraintsHold, WorkbookExists, QuestionExists, CategoryExists, GetAppByID, GetQuestionByID
<1> QED
  BY <1>4, <1>5
LEMMA ClearedTyped ==
  ASSUME NEW d, Typed(d), ConstraintsHold(d)
  PROVE  Typed(clearData(d)) /\ ConstraintsHold(clearData(d))
<1> DEFINE e == clearData(d)
<1>1. AllTables(d)
  BY DEF Typed
<1>2. Same(d, e, Emptied) /\ AllTables(e) /\ \A t \in Emptied : e[t] = {}
  BY <1>1, ClearedTables
<1> HIDE DEF e
<1>3. e.seq = d.seq /\ e.apps = d.apps /\ e.announcements = d.announcements
  BY <1>2 DEF Same, Emptied, TableNames, Serial
<1>4. /\ e.categories = {} /\ e.workbooks = {} /\ e.images = {} /\ e.questions = {}
      /\ e.singleChoices = {} /\ e.choices = {} /\ e.questionImages = {}
      /\ e.workbookQuestions = {} /\ e.appCategories = {}
  BY <1>2 DEF Emptied, TableNames, Serial
<1>5. IsFiniteSet({})
  BY FS_EmptySet
<1>6. Typed(e)
  BY <1>2, <1>3, <1>4, <1>5 DEF Typed, TextRows, ChoiceRows, OrderRows, IdRows, NamedRows, BookRows
<1>7. /\ Keyed({}) /\ Keyed(d.announcements) /\ Keyed(d.apps)
      /\ \A a, b \in d.apps : a.slug = b.slug => a = b
  BY DEF ConstraintsHold, Keyed
<1>8. ConstraintsHold(e)
  BY <1>3, <1>4, <1>7 DEF ConstraintsHold
<1> QED
  BY <1>6, <1>8 DEF e
LEMMA ImagesTyped ==
  ASSUME NEW y, DirectoryOK(y), NEW d, Typed(d), NEW e, e \in importImages(y, d)
  PROVE  Typed(e) /\ ConstraintsHold(e)
<1>1. /\ Same(d, e, {"images"}) /\ AllTables(e)
      /\ \A m \in e.images : m \in d.images \/ m \in ImagesFor(y, DOMAIN y.images)
  BY ImagesGrow DEF Typed
<1>2. IdRows(ImagesFor(y, DOMAIN y.images))
  BY FilledTyped
<1>3. IdRows(e.images)
  <2>1. e.images \subseteq d.images \cup ImagesFor(y, DOMAIN y.images)
    BY <1>1
  <2> QED
    BY <1>2, <2>1, FewerRowsTyped DEF Typed
<1>4. \A t \in (TableNames \cup {"seq"}) \ {"images"} : e[t] = d[t]
  BY <1>1 DEF Same
<1>5. Typed(e)
  BY <1>1, <1>3, <1>4 DEF Typed, TableNames, Serial
<1>6. ConstraintsHold(e)
  BY DEF importImages, Committed
<1> QED
  BY <1>5, <1>6
LEMMA QuestionTyped ==
  ASSUME NEW y, DirectoryOK(y), NEW q \in DOMAIN y.questions, NEW d, Typed(d),
         NEW e, e \in importQuestion(y, q, d)
  PROVE  Typed(e) /\ ConstraintsHold(e)
<1>1. /\ Same(d, e, QuestionTables) /\ AllTables(e) /\ e.questions = d.questions \cup {q}
      /\ e.singleChoices = IF \E s \in d.singleChoices : s.question = q
                           THEN {Retexted(y, q, s) : s \in d.singleChoices}
                           ELSE d.singleChoices \cup {TextRow(y, q)}
      /\ \A r \in e.choices : r \in d.choices \/ r \in ChoicesFor(y, q)
      /\ \A r \in e.questionImages : r \in d.questionImages \/ r \in ShownFor(y, q)
  <2>1. QuestionGrown(y, q, d, e)
    BY QuestionGrows DEF Typed
  <2> QED
    BY <2>1 DEF QuestionGrown
<1>2. ChoiceRows(e.choices) /\ OrderRows(e.questionImages)
  <2>1. ChoiceRows(ChoicesFor(y, q)) /\ OrderRows(ShownFor(y, q))
    BY DetailsTyped
  <2>2. e.choices \subseteq d.choices \cup ChoicesFor(y, q)
    BY <1>1
  <2>3. e.questionImages \subseteq d.questionImages \cup ShownFor(y, q)
    BY <1>1
  <2>4. ChoiceRows(e.choices)
    BY <2>1, <2>2, FewerRowsTyped DEF Typed
  <2>5. OrderRows(e.questionImages)
    BY <2>1, <2>3, FewerRowsTyped DEF Typed
  <2> QED
    BY <2>4, <2>5
<1>3. TextRows(e.singleChoices)
  <2>1. TextRows(d.singleChoices)
    BY DEF Typed
  <2>2. CASE \E s \in d.singleChoices : s.question = q
    <3> DEFINE f == [s \in d.singleChoices |-> Retexted(y, q, s)]
    <3>1. e.singleChoices = {f[s] : s \in d.singleChoices}
      BY <1>1, <2>2
    <3>2. \A s \in d.singleChoices : DOMAIN f[s] = {"question", "text"}
      BY <2>1 DEF TextRows, Retexted
    <3>3. IsFiniteSet(d.singleChoices)
      BY <2>1 DEF TextRows
    <3> HIDE DEF f
    <3>4. IsFiniteSet(e.singleChoices)
      BY <3>1, <3>3, RewrittenRows
    <3> QED
      BY <3>1, <3>2, <3>4 DEF TextRows
  <2>3. CASE ~\E s \in d.singleChoices : s.question = q
    <3>1. TextRows({TextRow(y, q)})
      <4>1. IsFiniteSet({TextRow(y, q)})
        BY FS_Singleton
      <4> QED
        BY <4>1 DEF TextRows, TextRow
    <3> QED
      BY <1>1, <2>1, <2>3, <3>1, FewerRowsTyped
  <2> QED
    BY <2>2, <2>3
<1>4. IsFiniteSet(e.questions) /\ e.questions \subseteq IdNumbers
  <2>1. q \in IdNumbers
    BY EntriesOf
  <2> QED
    BY <1>1, <2>1, FS_AddElement DEF Typed
<1>5. \A t \in (TableNames \cup {"seq"}) \ QuestionTables : e[t] = d[t]
  BY <1>1 DEF Same
<1>6. /\ e.seq = d.seq /\ e.workbookQuestions = d.workbookQuestions /\ e.images = d.images
      /\ e.categories = d.categories /\ e.workbooks = d.workbooks /\ e.apps = d.apps
      /\ e.announcements = d.announcements /\ e.appCategories = d.appCategories
  BY <1>5 DEF QuestionTables, TableNames, Serial
<1>7. Typed(e)
  BY <1>1, <1>2, <1>3, <1>4, <1>6 DEF Typed
<1>8. ConstraintsHold(e)
  BY DEF importQuestion, Committed
<1> QED
  BY <1>7, <1>8
LEMMA WorkbookTyped ==
  ASSUME NEW y, DirectoryOK(y), NEW w \in DOMAIN y.workbooks, NEW d, Typed(d),
         NEW e, e \in importWorkbook(y, w, d)
  PROVE  Typed(e) /\ ConstraintsHold(e)
<1>1. /\ Same(d, e, WorkbookTables) /\ AllTables(e)
      /\ e.workbooks = IF \E v \in d.workbooks : v.id = w THEN d.workbooks
                       ELSE d.workbooks \cup {WorkbookLine(y, w, NoCategory)}
      /\ \A r \in e.workbookQuestions : r \in d.workbookQuestions \/ r \in PlacesFor(y, w)
  <2>1. WorkbookGrown(y, w, d, e)
    BY WorkbookGrows DEF Typed
  <2> QED
    BY <2>1 DEF WorkbookGrown
<1>2. OrderRows(e.workbookQuestions)
  <2>1. OrderRows(PlacesFor(y, w))
    BY DetailsTyped
  <2>2. e.workbookQuestions \subseteq d.workbookQuestions \cup PlacesFor(y, w)
    BY <1>1
  <2> QED
    BY <2>1, <2>2, FewerRowsTyped DEF Typed
<1>3. BookRows(e.workbooks)
  <2>1. BookRows({WorkbookLine(y, w, NoCategory)})
    <3>1. IsFiniteSet({WorkbookLine(y, w, NoCategory)})
      BY FS_Singleton
    <3>2. w \in IdNumbers
      BY EntriesOf
    <3> QED
      BY <3>1, <3>2 DEF BookRows, IdRows, WorkbookLine
  <2>2. e.workbooks \subseteq d.workbooks \cup {WorkbookLine(y, w, NoCategory)}
    BY <1>1
  <2> QED
    BY <2>1, <2>2, MoreBooks DEF Typed
<1>4. \A t \in (TableNames \cup {"seq"}) \ WorkbookTables : e[t] = d[t]
  BY <1>1 DEF Same
<1>5. Typed(e)
  BY <1>1, <1>2, <1>3, <1>4 DEF Typed, WorkbookTables, TableNames, Serial
<1>6. ConstraintsHold(e)
  BY DEF importWorkbook, Committed
<1> QED
  BY <1>5, <1>6
LEMMA CategoryTyped ==
  ASSUME NEW y, DirectoryOK(y), NEW c \in DOMAIN y.categories, NEW d, Typed(d),
         NEW e, e \in importCategory(y, c, d)
  PROVE  Typed(e) /\ ConstraintsHold(e)
<1>1. CategoryGrown(y, c, d, e)
  BY CategoryGrows DEF Typed
<1>2. /\ Same(d, e, {"categories", "workbooks"}) /\ AllTables(e) /\ BookRows(e.workbooks)
      /\ e.categories \subseteq d.categories \cup {CategoryRow(y, c)}
  BY <1>1 DEF CategoryGrown
<1>3. NamedRows(e.categories)
  <2>1. NamedRows({CategoryRow(y, c)})
    <3>1. IsFiniteSet({CategoryRow(y, c)})
      BY FS_Singleton
    <3>2. c \in IdNumbers
      BY EntriesOf
    <3> QED
      BY <3>1, <3>2 DEF NamedRows, IdRows, CategoryRow
  <2> QED
    BY <1>2, <2>1, FewerRowsTyped DEF Typed
<1>4. \A t \in (TableNames \cup {"seq"}) \ {"categories", "workbooks"} : e[t] = d[t]
  BY <1>2 DEF Same
<1>5. Typed(e)
  BY <1>2, <1>3, <1>4 DEF Typed, TableNames, Serial
<1>6. ConstraintsHold(e)
  BY DEF importCategory, Committed
<1> QED
  BY <1>5, <1>6
-----------------------------------------------------------------------------
(* Whatever the tools and the administration do beside each other, the      *)
(* database keeps its columns and constraints; only the sequences may be    *)
(* behind the rows.                                                         *)
LEMMA DiffFits ==
  ASSUME NEW y, DirectoryOK(y), NEW have, Numbers(DOMAIN have)
  PROVE  /\ Fits(y, "images", planImages(y, have)) /\ Fits(y, "questions", planQuestions(y, have))
         /\ Fits(y, "workbooks", planWorkbooks(y, have)) /\ Fits(y, "categories", planCategories(y, have))
<1> DEFINE Part(t, p) == /\ p.add = DOMAIN y[t] \ DOMAIN have
                         /\ p.change \subseteq DOMAIN y[t] \cap DOMAIN have
                         /\ p.delete = DOMAIN have \ DOMAIN y[t]
<1>1. ASSUME NEW t \in Tables, NEW p, Part(t, p) PROVE Fits(y, t, p)
  <2>1. Numbers(DOMAIN y[t])
    BY DEF DirectoryOK, Numbers, IdNumbers
  <2>2. Numbers(p.add) /\ Numbers(p.change) /\ Numbers(p.delete)
    <3>1. p.add \subseteq DOMAIN y[t] /\ p.change \subseteq DOMAIN y[t] /\ p.delete \subseteq DOMAIN have
      BY <1>1
    <3> QED
      BY <2>1, <3>1, FewerNumbers
  <2> QED
    BY <1>1, <2>2 DEF Fits
<1>2. Part("images", planImages(y, have))
  BY DEF planImages, Diff
<1>3. Part("questions", planQuestions(y, have))
  BY DEF planQuestions, Diff
<1>4. Part("workbooks", planWorkbooks(y, have))
  BY DEF planWorkbooks, Diff
<1>5. Part("categories", planCategories(y, have))
  BY DEF planCategories, Diff
<1> HIDE DEF Part
<1> QED
  BY <1>1, <1>2, <1>3, <1>4, <1>5 DEF Tables
ReadPlan == [t \in Tables |-> PlanOf(t)]
LEMMA ReadPlanFits ==
  ASSUME Queried(tool.read), Len(tool.read) = Queries, DirectoryOK(tool.data)
  PROVE  PlanFits(tool.data, ReadPlan)
<1> DEFINE r == tool.read
           y == tool.data
<1>1. \A i \in {1, 2, 5, 7} : Numbers(DOMAIN r[i])
  BY DEF Queried, IsSequence, Queries
<1>2. /\ PlanOf("images") = planImages(y, r[1])
      /\ PlanOf("questions") = planQuestions(y, loadQuestionsDB(r[2], r[3], r[4]))
      /\ PlanOf("workbooks") = planWorkbooks(y, loadWorkbooksDB(r[5], r[6]))
      /\ PlanOf("categories") = planCategories(y, loadCategoriesDB(r[7], r[8]))
  BY DEF PlanOf
<1>3. /\ DOMAIN loadQuestionsDB(r[2], r[3], r[4]) = DOMAIN r[2]
      /\ DOMAIN loadWorkbooksDB(r[5], r[6]) = DOMAIN r[5]
      /\ DOMAIN loadCategoriesDB(r[7], r[8]) = DOMAIN r[7]
  BY DEF loadQuestionsDB, loadWorkbooksDB, loadCategoriesDB
<1> HIDE DEF r, y
<1>4. DirectoryOK(y)
  BY DEF y
<1>5. Fits(y, "images", PlanOf("images"))
  BY <1>1, <1>2, <1>4, DiffFits
<1>6. Fits(y, "questions", PlanOf("questions"))
  BY <1>1, <1>2, <1>3, <1>4, DiffFits
<1>7. Fits(y, "workbooks", PlanOf("workbooks"))
  BY <1>1, <1>2, <1>3, <1>4, DiffFits
<1>8. Fits(y, "categories", PlanOf("categories"))
  BY <1>1, <1>2, <1>3, <1>4, DiffFits
<1>9. \A t \in Tables : ReadPlan[t] = PlanOf(t)
  BY DEF ReadPlan
<1> QED
  BY <1>5, <1>6, <1>7, <1>8, <1>9 DEF PlanFits, Tables, y

SchemaInvariant == SeedingInvariant /\ Intact(FALSE, db)
LEMMA OutcomesIntact ==
  ASSUME SchemaInvariant, Planned, NEW after \in Outcomes
  PROVE  Intact(FALSE, after)
<1>1. DirectoryOK(tool.data) /\ Queried(tool.read) /\ Len(tool.read) = Queries
  BY SeedingAssumption DEF SchemaInvariant, SeedingInvariant, ToolOK, Planned
<1>2. PlanFits(tool.data, ReadPlan)
  BY <1>1, ReadPlanFits
<1>3. after \in applied(tool.data, ReadPlan, db)
  BY DEF Outcomes, ReadPlan
<1>4. Typed(db) /\ ConstraintsHold(db)
  BY IntactIsTyped DEF SchemaInvariant
<1>5. Typed(after) /\ ConstraintsHold(after)
  BY <1>1, <1>2, <1>3, <1>4, AppliedTyped
<1> QED
  BY <1>5, IntactIsTyped
LEMMA TransactionsIntact ==
  ASSUME SchemaInvariant, tool.stage \in Phases, tool.todo # {}, NEW after \in Transaction
  PROVE  Intact(FALSE, after)
<1> DEFINE y == tool.data
<1>1. DirectoryOK(y) /\ tool.todo \subseteq Files(tool.stage, y)
  BY SeedingAssumption DEF SchemaInvariant, SeedingInvariant, ToolOK
<1>2. File \in Files(tool.stage, y)
  BY <1>1 DEF File
<1>3. Typed(db) /\ ConstraintsHold(db)
  BY IntactIsTyped DEF SchemaInvariant
<1> HIDE DEF y
<1> SUFFICES Typed(after) /\ ConstraintsHold(after)
  BY IntactIsTyped
<1>4. CASE tool.stage = "clear"
  BY <1>3, <1>4, ClearedTyped DEF Transaction
<1>5. CASE tool.stage = "sequences"
  <2>1. after = resetSequences(db)
    BY <1>5 DEF Transaction
  <2>2. /\ AllTables(db) /\ Numbering(db.seq) /\ Numbers(db.questions)
        /\ IdRows(db.images) /\ IdRows(db.workbooks) /\ IdRows(db.categories)
    BY <1>3 DEF Typed, NamedRows, BookRows, Numbers, IdNumbers
  <2>3. Same(db, after, {"seq"}) /\ Numbering(after.seq)
    BY <2>1, <2>2, ResetNumbers
  <2> QED
    BY <1>3, <2>3, OnlyNumbers
<1>6. CASE tool.stage = "images"
  <2>1. after \in importImages(y, db)
    BY <1>6 DEF Transaction, y
  <2> QED
    BY <1>1, <1>3, <2>1, ImagesTyped
<1>7. CASE tool.stage = "questions"
  <2>1. after \in importQuestion(y, File, db) /\ File \in DOMAIN y.questions
    BY <1>2, <1>7 DEF Transaction, Files, y
  <2> QED
    BY <1>1, <1>3, <2>1, QuestionTyped
<1>8. CASE tool.stage = "workbooks"
  <2>1. after \in importWorkbook(y, File, db) /\ File \in DOMAIN y.workbooks
    BY <1>2, <1>8 DEF Transaction, Files, y
  <2> QED
    BY <1>1, <1>3, <2>1, WorkbookTyped
<1>9. CASE tool.stage = "categories"
  <2>1. after \in importCategory(y, File, db) /\ File \in DOMAIN y.categories
    BY <1>2, <1>9 DEF Transaction, Files, y
  <2> QED
    BY <1>1, <1>3, <2>1, CategoryTyped
<1> QED
  BY <1>4, <1>5, <1>6, <1>7, <1>8, <1>9 DEF Phases
LEMMA EditsIntact ==
  ASSUME Intact(FALSE, db), EditContent
  PROVE  Intact(FALSE, db')
<1>1. ASSUME NEW b, QuestionBody(b), NEW q
      PROVE  Intact(FALSE, AdminCreateQuestion(db, b)) /\ Intact(FALSE, AdminUpdateQuestion(db, q, b))
  <2>1. Intact(FALSE, AdminCreateQuestion(db, b))
    BY <1>1, CreatedQuestion, Zenon
  <2>2. Intact(FALSE, AdminUpdateQuestion(db, q, b))
    BY <1>1, UpdatedQuestion, Zenon
  <2> QED
    BY <2>1, <2>2
<1>2. ASSUME NEW b, WorkbookBody(b), NEW id
      PROVE  Intact(FALSE, AdminCreateWorkbook(db, b)) /\ Intact(FALSE, AdminUpdateWorkbook(db, id, b))
  <2>1. Intact(FALSE, AdminCreateWorkbook(db, b))
    BY <1>2, CreatedWorkbook, Zenon
  <2>2. Intact(FALSE, AdminUpdateWorkbook(db, id, b))
    BY <1>2, UpdatedWorkbook, Zenon
  <2> QED
    BY <2>1, <2>2
<1>3. ASSUME NEW id
      PROVE  /\ Intact(FALSE, AdminDeleteQuestion(db, id)) /\ Intact(FALSE, AdminDeleteWorkbook(db, id))
             /\ Intact(FALSE, AdminDeleteCategory(db, id))
  <2>1. Intact(FALSE, AdminDeleteQuestion(db, id))
    BY DeletedQuestion, Zenon
  <2>2. Intact(FALSE, AdminDeleteWorkbook(db, id))
    BY DeletedWorkbook, Zenon
  <2>3. Intact(FALSE, AdminDeleteCategory(db, id))
    BY DeletedCategory, Zenon
  <2> QED
    BY <2>1, <2>2, <2>3
<1>4. \A t : Intact(FALSE, AdminCreateCategory(db, t))
  BY CreatedCategory, Zenon
<1>5. ASSUME /\ NewPaths(db, Uploads) # {}
             /\ Edit(CreatePresignedUrl(db, CHOOSE path \in NewPaths(db, Uploads) : TRUE))
      PROVE  Intact(FALSE, db')
  <2>1. PICK path \in NewPaths(db, Uploads) : db' = CreatePresignedUrl(db, path)
    BY <1>5 DEF Edit
  <2> QED
    BY <2>1, CreatedImage, Zenon
<1>6. /\ \A b \in QuestionBodies : QuestionBody(b)
      /\ \A b \in WorkbookBodies : WorkbookBody(b)
  BY ContentAssumption
<1> QED
  BY <1>1, <1>2, <1>3, <1>4, <1>5, <1>6 DEF EditContent, Edit
LEMMA SchemaInit == Init => SchemaInvariant
<1> SUFFICES ASSUME Init PROVE SchemaInvariant
  OBVIOUS
<1>1. Sound(InitDB)
  BY ContentAssumption, SoundIsSchema
<1>2. Intact(FALSE, InitDB)
  BY <1>1 DEF Sound, Intact, SerialsOK, SerialOK, QuestionsOK
<1> QED
  BY <1>2, SeedingInit DEF Init, SchemaInvariant
LEMMA SchemaStep == SchemaInvariant /\ [Next]_vars => SchemaInvariant'
<1> SUFFICES ASSUME SchemaInvariant, [Next]_vars PROVE SchemaInvariant'
  OBVIOUS
<1>1. SeedingInvariant' /\ Intact(FALSE, db)
  BY SeedingStep DEF SchemaInvariant
<1> SUFFICES Intact(FALSE, db')
  BY <1>1 DEF SchemaInvariant
<1>2. CASE db' = db
  BY <1>1, <1>2
<1>3. CASE Apply /\ db' # db
  BY <1>3, OutcomesIntact DEF Apply
<1>4. CASE CommitFails
  <2>1. PICK after \in Outcomes : db' \in {[db EXCEPT !.seq = after.seq], after}
    BY <1>4 DEF CommitFails
  <2>2. Intact(FALSE, after)
    BY <1>4, OutcomesIntact DEF CommitFails
  <2>3. Numbering(after.seq)
    BY <2>2, IntactIsTyped DEF Typed
  <2>4. Typed(db) /\ ConstraintsHold(db)
    BY <1>1, IntactIsTyped
  <2>5. CASE db' = [db EXCEPT !.seq = after.seq]
    <3>1. Same(db, db', {"seq"}) /\ db'.seq = after.seq
      BY <2>4, <2>5 DEF Typed, AllTables, Same, TableNames, Serial
    <3>2. Typed(db') /\ ConstraintsHold(db')
      BY <2>3, <2>4, <3>1, OnlyNumbers
    <3> QED
      BY <3>2, IntactIsTyped
  <2> QED
    BY <2>1, <2>2, <2>5
<1>5. CASE RunInTx /\ db' # db
  BY <1>5, TransactionsIntact DEF RunInTx
<1>6. CASE ConnectionLost
  BY <1>1, <1>6, TransactionsIntact DEF ConnectionLost
<1>7. CASE EditContent
  BY <1>1, <1>7, EditsIntact
<1>8. CASE \/ \E y \in Data : StartSync(y) \/ StartImport(y, "clear") \/ StartImport(y, "workbooks")
           \/ PlanQuery \/ NoFiles \/ Killed \/ UNCHANGED vars
  BY <1>1, <1>8 DEF StartSync, StartImport, Start, PlanQuery, NoFiles, Killed, vars
<1> QED
  BY <1>2, <1>3, <1>4, <1>5, <1>6, <1>7, <1>8 DEF Next

(* Constraints and columns hold at all times.                               *)
THEOREM SchemaIsKept == Spec => []ConstraintsHold(db)
<1>1. SchemaInvariant => ConstraintsHold(db)
  BY IntactIsTyped DEF SchemaInvariant
<1> QED
  BY <1>1, SchemaInit, SchemaStep, PTL DEF Spec
-----------------------------------------------------------------------------
(* Rows numbered from 0 in a column are listed by it in that order.         *)
LEMMA CountedEntries ==
  ASSUME NEW m \in Nat, NEW f, \A i, j \in 1 .. m : f[i] = f[j] => i = j,
         NEW T, T = {f[i] : i \in 1 .. m}
  PROVE  IsFiniteSet(T) /\ Cardinality(T) = m
<1> DEFINE g == [i \in 1 .. m |-> f[i]]
<1>1. g \in Bijection(1 .. m, T)
  BY DEF Bijection, Injection, Surjection, IsInjective
<1>2. IsFiniteSet(1 .. m) /\ Cardinality(1 .. m) = m
  BY FS_Interval
<1> HIDE DEF g
<1>3. ExistsBijection(1 .. m, T)
  BY <1>1 DEF ExistsBijection
<1> QED
  BY <1>2, <1>3, FS_Bijection
LEMMA NumberedListing ==
  ASSUME NEW n \in Nat, NEW f, f = [i \in 1 .. n |-> f[i]], NEW k, \A i \in 1 .. n : f[i][k] = i - 1,
         NEW S, S = {f[i] : i \in 1 .. n}
  PROVE  SortedBy(S, k) = f
<1>1. \A i, j \in 1 .. n : f[i] = f[j] => i = j
  <2> SUFFICES ASSUME NEW i \in 1 .. n, NEW j \in 1 .. n, f[i] = f[j] PROVE i = j
    OBVIOUS
  <2>1. i - 1 = j - 1
    BY ONLY \A m \in 1 .. n : f[m][k] = m - 1, f[i] = f[j], i \in 1 .. n, j \in 1 .. n
  <2> QED
    BY <2>1
<1>2. Cardinality(S) = n
  BY <1>1, CountedEntries
<1> DEFINE Below(r) == {s \in S : s[k] < r[k]}
<1>3. ASSUME NEW j \in 1 .. n PROVE Cardinality(Below(f[j])) = j - 1
  <2> DEFINE m == j - 1
  <2>1. m \in Nat /\ \A i \in 1 .. m : i \in 1 .. n
    OBVIOUS
  <2>2. Below(f[j]) = {f[i] : i \in 1 .. m}
    <3>1. ASSUME NEW s \in Below(f[j]) PROVE s \in {f[i] : i \in 1 .. m}
      <4>1. PICK i \in 1 .. n : s = f[i]
        BY <3>1
      <4>2. f[i][k] < f[j][k] /\ f[i][k] = i - 1 /\ f[j][k] = j - 1
        BY <3>1, <4>1
      <4>3. i \in 1 .. m
        BY <4>2
      <4> HIDE DEF m
      <4> QED
        BY <4>1, <4>3
    <3>2. ASSUME NEW i \in 1 .. m PROVE f[i] \in Below(f[j])
      <4>1. i \in 1 .. n
        BY <2>1
      <4>2. f[i][k] = i - 1 /\ f[j][k] = j - 1
        BY <4>1
      <4>3. f[i][k] < f[j][k]
        BY <4>2
      <4> QED
        BY <4>1, <4>3
    <3> HIDE DEF m, Below
    <3> QED
      BY <3>1, <3>2
  <2> HIDE DEF m
  <2>3. \A a, b \in 1 .. m : f[a] = f[b] => a = b
    BY <1>1, <2>1
  <2> DEFINE T == Below(f[j])
  <2> HIDE DEF Below, T
  <2>4. T = {f[i] : i \in 1 .. m}
    BY <2>2 DEF T
  <2>5. Cardinality(T) = m
    BY ONLY <2>1, <2>3, <2>4, CountedEntries
  <2> QED
    BY <2>5 DEF m, T
<1>4. ASSUME NEW i \in 1 .. n
      PROVE  (CHOOSE r \in S : Cardinality(Below(r)) = i - 1) = f[i]
  <2>1. f[i] \in S /\ Cardinality(Below(f[i])) = i - 1
    BY <1>3
  <2>2. ASSUME NEW r \in S, Cardinality(Below(r)) = i - 1 PROVE r = f[i]
    <3>1. PICK j \in 1 .. n : r = f[j]
      OBVIOUS
    <3>2. Cardinality(Below(f[j])) = j - 1
      BY <1>3
    <3>3. j - 1 = i - 1
      BY <2>2, <3>1, <3>2
    <3>4. i = j
      BY <3>3
    <3> QED
      BY <3>1, <3>4
  <2> HIDE DEF Below
  <2> QED
    BY <2>1, <2>2
<1>5. SortedBy(S, k) = [i \in 1 .. n |-> CHOOSE r \in S : Cardinality(Below(r)) = i - 1]
  BY <1>2 DEF SortedBy
<1> HIDE DEF Below
<1> QED
  BY <1>4, <1>5
LEMMA DistinctCounted ==
  ASSUME NEW T, NEW s \in Seq(T), Distinct(s)
  PROVE  IsFiniteSet(Elems(s)) /\ Cardinality(Elems(s)) = Len(s)
<1> DEFINE n == Len(s)
<1>1. n \in Nat /\ DOMAIN s = 1 .. n
  OBVIOUS
<1> HIDE DEF n
<1>2. \A i, j \in 1 .. n : s[i] = s[j] => i = j
  BY <1>1 DEF Distinct
<1>3. Elems(s) = {s[i] : i \in 1 .. n}
  BY <1>1 DEF Elems
<1>4. IsFiniteSet(Elems(s)) /\ Cardinality(Elems(s)) = n
  BY <1>1, <1>2, <1>3, CountedEntries
<1> QED
  BY <1>4 DEF n
-----------------------------------------------------------------------------
(* What is stored under a key of a table agrees with the data directory, as *)
(* far as the plan compares them.                                           *)
Loaded(d) ==
  [images |-> loadImagesDB(d),
   questions |-> loadQuestionsDB(QuestionTexts(d), QuestionChoices(d), QuestionImageIds(d)),
   workbooks |-> loadWorkbooksDB(WorkbookTitles(d), WorkbookQuestionIds(d)),
   categories |-> loadCategoriesDB(CategoryTitles(d), CategoryWorkbookIds(d))]
Alike(t, a, b) ==
  CASE t = "images" -> a = b
    [] t = "questions" -> diffQuestion(a, b)
    [] t = "workbooks" -> a.title = b.title /\ a.questions = b.questions
    [] t = "categories" -> /\ a.title = b.title /\ Elems(a.workbooks) = b.workbooks
                           /\ Len(a.workbooks) = Cardinality(b.workbooks)
Agrees(y, d, t, id) ==
  /\ id \in DOMAIN y[t] <=> id \in DOMAIN Loaded(d)[t]
  /\ id \in DOMAIN y[t] => Alike(t, y[t][id], Loaded(d)[t][id])
(* A plan names exactly the keys that do not agree.                         *)
LEMMA PlanNames ==
  ASSUME NEW y, NEW d, NEW t \in Tables, NEW id
  PROVE  id \in Synced(Plan(y, d)[t]) <=> ~Agrees(y, d, t, id)
<1> DEFINE goal == y[t]
           have == Loaded(d)[t]
           p == Plan(y, d)[t]
<1>1. /\ p.add = DOMAIN goal \ DOMAIN have /\ p.delete = DOMAIN have \ DOMAIN goal
      /\ p.change = {x \in DOMAIN goal \cap DOMAIN have : ~Alike(t, goal[x], have[x])}
  <2>1. CASE t = "images"
    <3>1. p = planImages(y, have)
      BY <2>1 DEF Plan, Loaded
    <3> HIDE DEF p, have
    <3> QED
      BY <2>1, <3>1 DEF planImages, Diff, Alike
  <2>2. CASE t = "questions"
    <3>1. p = planQuestions(y, have)
      BY <2>2 DEF Plan, Loaded
    <3> HIDE DEF p, have
    <3> QED
      BY <2>2, <3>1 DEF planQuestions, Diff, Alike
  <2>3. CASE t = "workbooks"
    <3>1. p = planWorkbooks(y, have)
      BY <2>3 DEF Plan, Loaded
    <3> HIDE DEF p, have
    <3> QED
      BY <2>3, <3>1 DEF planWorkbooks, Diff, Alike
  <2>4. CASE t = "categories"
    <3>1. p = planCategories(y, have)
      BY <2>4 DEF Plan, Loaded
    <3> HIDE DEF p, have
    <3> QED
      BY <2>4, <3>1 DEF planCategories, Diff, Alike
  <2> QED
    BY <2>1, <2>2, <2>3, <2>4 DEF Tables
<1>2. Agrees(y, d, t, id) <=> /\ id \in DOMAIN goal <=> id \in DOMAIN have
                              /\ id \in DOMAIN goal => Alike(t, goal[id], have[id])
  BY DEF Agrees
<1> HIDE DEF goal, have, p
<1>3. id \in Synced(p) <=> id \in p.add \/ id \in p.change \/ id \in p.delete
  BY DEF Synced
<1>4. id \in Synced(p) <=> ~Agrees(y, d, t, id)
  BY <1>1, <1>2, <1>3
<1> QED
  BY <1>4 DEF p
Converged(y, d) == \A t \in Tables : \A id : Agrees(y, d, t, id)
LEMMA InSyncMeans ==
  ASSUME NEW y, NEW d
  PROVE  InSync(y, d) <=> Converged(y, d)
<1>1. \A t \in Tables : ~HasChanges(Plan(y, d)[t]) <=> \A id : id \notin Synced(Plan(y, d)[t])
  BY DEF HasChanges, Synced
<1>2. \A t \in Tables : \A id : id \in Synced(Plan(y, d)[t]) <=> ~Agrees(y, d, t, id)
  BY PlanNames
<1> QED
  BY <1>1, <1>2 DEF InSync, Converged
(* The same in the terms of Reconciler: what is stored is what is wanted.   *)
LEMMA AgreesMeans ==
  ASSUME NEW y, DirectoryOK(y), Tidy(y), NEW d, NEW t \in Tables, NEW id
  PROVE  Agrees(y, d, t, id) <=> Under(StoredRows(d)[t], id) = Wanted(y, t, id)
<1> DEFINE have == Loaded(d)[t]
           rows == StoredRows(d)[t]
<1>1. Agrees(y, d, t, id) <=> /\ id \in DOMAIN y[t] <=> id \in DOMAIN have
                              /\ id \in DOMAIN y[t] => Alike(t, y[t][id], have[id])
  BY DEF Agrees
<1> SUFFICES Under(rows, id) = Wanted(y, t, id)
               <=> /\ id \in DOMAIN y[t] <=> id \in DOMAIN have
                   /\ id \in DOMAIN y[t] => Alike(t, y[t][id], have[id])
  BY <1>1
<1>2. CASE t \in {"images", "workbooks"}
  <2>1. rows = have
    BY <1>2 DEF StoredRows, Loaded
  <2>2. id \in DOMAIN y[t] /\ id \in DOMAIN have => (Alike(t, y[t][id], have[id]) <=> y[t][id] = have[id])
    <3>1. CASE t = "images"
      BY <3>1 DEF Alike
    <3>2. CASE t = "workbooks"
      <4> SUFFICES ASSUME id \in DOMAIN y[t], id \in DOMAIN have
                   PROVE  Alike(t, y[t][id], have[id]) <=> y[t][id] = have[id]
        OBVIOUS
      <4>1. y[t][id] \in [title : STRING, questions : Seq(Nat)]
        BY <3>2 DEF DirectoryOK
      <4>2. have = loadWorkbooksDB(WorkbookTitles(d), WorkbookQuestionIds(d))
        BY <3>2 DEF Loaded
      <4>3. have[id] = [title |-> have[id].title, questions |-> have[id].questions]
        BY <4>2 DEF loadWorkbooksDB
      <4> HIDE DEF have
      <4> QED
        BY <3>2, <4>1, <4>3 DEF Alike
    <3> QED
      BY <1>2, <3>1, <3>2
  <2>3. Wanted(y, t, id) = Under(y[t], id)
    BY <1>2 DEF Wanted
  <2> HIDE DEF have, rows
  <2> QED
    BY <2>1, <2>2, <2>3 DEF Under
<1>3. CASE t = "questions"
  <2>1. have = loadQuestionsDB(QuestionTexts(d), QuestionChoices(d), QuestionImageIds(d))
    BY <1>3 DEF Loaded
  <2>2. DOMAIN have = d.questions
    BY <2>1 DEF loadQuestionsDB, QuestionTexts
  <2>3. DOMAIN rows = d.questions
    BY <1>3 DEF StoredRows
  <2>4. ASSUME id \in DOMAIN y[t], id \in d.questions
        PROVE  Alike(t, y[t][id], have[id]) <=> y[t][id] = rows[id]
    <3> DEFINE cs == GetChoicesByQuestionID(d, id)
               texts == [i \in DOMAIN cs |-> cs[i].text]
               correct == FirstCorrect(cs)
               images == QuestionImageIds(d)[id]
               text == RowsOf(d, id).text
    <3>1. have[id].text = text /\ have[id].choices = cs /\ have[id].images = images
      BY <2>1, <2>4 DEF loadQuestionsDB, QuestionTexts, QuestionChoices, QuestionImageIds, Of
    <3>2. rows[id] = [text |-> text, choices |-> texts, correct |-> correct, images |-> images]
      BY <1>3, <2>4 DEF StoredRows
    <3>3. y[t][id] \in [text : STRING, choices : Seq(STRING), correct : Int, images : Seq(Nat)]
      BY <1>3, <2>4 DEF DirectoryOK
    <3>4. Alike(t, y[t][id], have[id]) <=> /\ y[t][id].text = text /\ y[t][id].choices = texts
                                           /\ y[t][id].correct = correct /\ y[t][id].images = images
      BY <1>3, <3>1 DEF Alike, diffQuestion
    <3> HIDE DEF texts, correct, images, text, have, rows
    <3> QED
      BY <3>2, <3>3, <3>4
  <2>5. Wanted(y, t, id) = Under(y[t], id)
    BY <1>3 DEF Wanted
  <2> HIDE DEF have, rows
  <2> QED
    BY <2>2, <2>3, <2>4, <2>5 DEF Under
<1>4. CASE t = "categories"
  <2>1. /\ have = loadCategoriesDB(CategoryTitles(d), CategoryWorkbookIds(d))
        /\ rows = have
    BY <1>4 DEF Loaded, StoredRows
  <2>2. ASSUME id \in DOMAIN y[t], id \in DOMAIN have
        PROVE  Alike(t, y[t][id], have[id]) <=> have[id] = [title |-> y.categories[id].title,
                                                            workbooks |-> Elems(y.categories[id].workbooks)]
    <3>1. have[id] = [title |-> have[id].title, workbooks |-> have[id].workbooks]
      BY <2>1, <2>2 DEF loadCategoriesDB
    <3> DEFINE ws == y.categories[id].workbooks
    <3>2. ws \in Seq(Nat) /\ Distinct(ws)
      BY <1>4, <2>2 DEF DirectoryOK, Tidy
    <3>3. Cardinality(Elems(ws)) = Len(ws)
      BY <3>2, DistinctCounted
    <3>4. Alike(t, y[t][id], have[id]) <=> /\ y.categories[id].title = have[id].title
                                           /\ Elems(ws) = have[id].workbooks
                                           /\ Len(ws) = Cardinality(have[id].workbooks)
      BY <1>4 DEF Alike
    <3> HIDE DEF ws, have
    <3> QED
      BY <3>1, <3>3, <3>4 DEF ws
  <2>3. Wanted(y, t, id) = IF id \notin DOMAIN y[t] THEN {}
                           ELSE {[title |-> y.categories[id].title,
                                  workbooks |-> Elems(y.categories[id].workbooks)]}
    BY <1>4 DEF Wanted, Under
  <2> HIDE DEF have, rows
  <2> QED
    BY <2>1, <2>2, <2>3 DEF Under
<1> QED
  BY <1>2, <1>3, <1>4 DEF Tables
-----------------------------------------------------------------------------
(* The same, row by row.                                                    *)
ShownOf(d, q) == {r \in d.questionImages : r.question = q}
PlacesOf(d, w) == {r \in d.workbookQuestions : r.workbook = w}
Column(rows, k) == [i \in DOMAIN rows |-> rows[i][k]]
ImageAgrees(y, d, id) ==
  /\ id \in DOMAIN y.images <=> \E m \in d.images : m.id = id
  /\ \A m \in d.images : (m.id = id /\ id \in DOMAIN y.images) => m.path = y.images[id]
QuestionReads(q, text, cs, rows) ==
  /\ q.text = text /\ q.choices = Column(cs, "text") /\ q.correct = FirstCorrect(cs)
  /\ q.images = Column(rows, "image")
QuestionAgrees(y, d, q) ==
  /\ q \in DOMAIN y.questions <=> q \in d.questions
  /\ q \in DOMAIN y.questions =>
       \A s \in d.singleChoices : s.question = q =>
         QuestionReads(y.questions[q], s.text, SortedBy(ChoicesOf(d, q), "index"), SortedBy(ShownOf(d, q), "order"))
WorkbookAgrees(y, d, id) ==
  /\ id \in DOMAIN y.workbooks <=> \E w \in d.workbooks : w.id = id
  /\ \A w \in d.workbooks : (w.id = id /\ id \in DOMAIN y.workbooks) =>
       /\ w.title = y.workbooks[id].title
       /\ y.workbooks[id].questions = Column(SortedBy(PlacesOf(d, id), "order"), "question")
Holds(d, id) == {w.id : w \in {v \in d.workbooks : v.category = id}}
CategoryAgrees(y, d, id) ==
  /\ id \in DOMAIN y.categories <=> \E c \in d.categories : c.id = id
  /\ \A c \in d.categories : (c.id = id /\ id \in DOMAIN y.categories) =>
       c.title = y.categories[id].title /\ Holds(d, id) = Elems(y.categories[id].workbooks)
LEMMA RowRead ==
  ASSUME NEW T, Keyed(T), NEW r \in T
  PROVE  (CHOOSE s \in T : s.id = r.id) = r
<1>1. \A s \in T : s.id = r.id => s = r
  BY DEF Keyed
<1> QED
  BY <1>1
LEMMA ImageAgreement ==
  ASSUME NEW y, NEW d, ConstraintsHold(d), NEW id
  PROVE  Agrees(y, d, "images", id) <=> ImageAgrees(y, d, id)
<1> DEFINE have == Loaded(d).images
<1>1. have = [x \in {r.id : r \in d.images} |-> (CHOOSE r \in d.images : r.id = x).path]
  BY DEF Loaded, loadImagesDB, Rows
<1>2. Keyed(d.images)
  BY DEF ConstraintsHold
<1>3. DOMAIN have = {r.id : r \in d.images}
  BY <1>1
<1>4. \A r \in d.images : have[r.id] = r.path
  <2> TAKE r \in d.images
  <2>1. (CHOOSE s \in d.images : s.id = r.id) = r
    BY <1>2, RowRead
  <2> QED
    BY <1>1, <2>1
<1>5. Agrees(y, d, "images", id) <=> /\ id \in DOMAIN y.images <=> id \in DOMAIN have
                                     /\ id \in DOMAIN y.images => y.images[id] = have[id]
  BY DEF Agrees, Alike
<1> HIDE DEF have
<1> QED
  BY <1>3, <1>4, <1>5 DEF ImageAgrees
LEMMA QuestionAgreement ==
  ASSUME NEW y, NEW d, ConstraintsHold(d), NEW id
  PROVE  Agrees(y, d, "questions", id) <=> QuestionAgrees(y, d, id)
<1> DEFINE have == Loaded(d).questions
           cs == SortedBy(ChoicesOf(d, id), "index")
           rows == SortedBy(ShownOf(d, id), "order")
<1>1. have = loadQuestionsDB(QuestionTexts(d), QuestionChoices(d), QuestionImageIds(d))
  BY DEF Loaded
<1>2. DOMAIN have = d.questions
  BY <1>1 DEF loadQuestionsDB, QuestionTexts
<1>3. GetChoicesByQuestionID(d, id) = cs
  BY DEF GetChoicesByQuestionID, OrderBy, SortedBy, ChoicesOf
<1>4. ASSUME id \in d.questions
      PROVE  have[id].text = RowsOf(d, id).text /\ have[id].choices = cs /\ have[id].images = Column(rows, "image")
  <2>1. /\ have[id].text = RowsOf(d, id).text /\ have[id].choices = GetChoicesByQuestionID(d, id)
        /\ have[id].images = QuestionImageIds(d)[id]
    BY <1>1, <1>4 DEF loadQuestionsDB, QuestionTexts, QuestionChoices, QuestionImageIds, Of
  <2>2. OrderBy({r \in d.questionImages : r.question = id}, LAMBDA r, s : r.order < s.order) = rows
    BY DEF OrderBy, SortedBy, ShownOf
  <2> HIDE DEF rows
  <2>3. QuestionImageIds(d)[id] = Column(rows, "image")
    BY <1>4, <2>2 DEF QuestionImageIds, Column
  <2> QED
    BY <1>3, <2>1, <2>3
<1>5. ASSUME id \in d.questions
      PROVE  \E s \in d.singleChoices : s.question = id /\ RowsOf(d, id).text = s.text
  <2>1. PICK s \in d.singleChoices : s.question = id
    BY <1>5 DEF ConstraintsHold, GetQuestionByID
  <2>2. \A t \in d.singleChoices : t.question = id => t = s
    BY <2>1 DEF ConstraintsHold
  <2>3. GetQuestionByID(d, id) = {s}
    BY <2>1, <2>2 DEF GetQuestionByID
  <2>4. RowsOf(d, id).text = s.text
    BY <2>3 DEF RowsOf
  <2> QED
    BY <2>1, <2>4
<1>6. \A s, t \in d.singleChoices : s.question = t.question => s = t
  BY DEF ConstraintsHold
<1>7. Agrees(y, d, "questions", id) <=> /\ id \in DOMAIN y.questions <=> id \in DOMAIN have
                                        /\ id \in DOMAIN y.questions => diffQuestion(y.questions[id], have[id])
  BY DEF Agrees, Alike
<1>8. ASSUME id \in d.questions
      PROVE  diffQuestion(y.questions[id], have[id])
               <=> QuestionReads(y.questions[id], RowsOf(d, id).text, cs, rows)
  <2> HIDE DEF have, rows, cs
  <2> QED
    BY <1>4, <1>8 DEF diffQuestion, QuestionReads, Column
<1> HIDE DEF have, rows, cs
<1>9. ASSUME id \in d.questions
      PROVE  QuestionReads(y.questions[id], RowsOf(d, id).text, cs, rows)
               <=> \A s \in d.singleChoices : s.question = id => QuestionReads(y.questions[id], s.text, cs, rows)
  BY <1>5, <1>6, <1>9
<1>10. QuestionAgrees(y, d, id) <=>
         /\ id \in DOMAIN y.questions <=> id \in d.questions
         /\ id \in DOMAIN y.questions =>
              \A s \in d.singleChoices : s.question = id => QuestionReads(y.questions[id], s.text, cs, rows)
  BY DEF QuestionAgrees, cs, rows
<1> QED
  BY <1>2, <1>7, <1>8, <1>9, <1>10
LEMMA WorkbookAgreement ==
  ASSUME NEW y, NEW d, ConstraintsHold(d), NEW id
  PROVE  Agrees(y, d, "workbooks", id) <=> WorkbookAgrees(y, d, id)
<1> DEFINE have == Loaded(d).workbooks
           rows == SortedBy(PlacesOf(d, id), "order")
           titles == WorkbookTitles(d)
<1>1. have = loadWorkbooksDB(titles, WorkbookQuestionIds(d))
  BY DEF Loaded
<1>2. titles = [x \in {r.id : r \in d.workbooks} |-> (CHOOSE r \in d.workbooks : r.id = x).title]
  BY DEF WorkbookTitles, Rows
<1>3. Keyed(d.workbooks)
  BY DEF ConstraintsHold
<1>4. \A r \in d.workbooks : titles[r.id] = r.title
  <2> TAKE r \in d.workbooks
  <2>1. (CHOOSE s \in d.workbooks : s.id = r.id) = r
    BY <1>3, RowRead
  <2> QED
    BY <1>2, <2>1
<1>5. ASSUME id \in {v.id : v \in d.workbooks}
      PROVE  WorkbookQuestionIds(d)[id] = Column(rows, "question")
  <2>1. OrderBy({r \in d.workbookQuestions : r.workbook = id}, LAMBDA r, s : r.order < s.order) = rows
    BY DEF OrderBy, SortedBy, PlacesOf
  <2> HIDE DEF rows
  <2> QED
    BY <1>5, <2>1 DEF WorkbookQuestionIds, Column
<1>6. DOMAIN have = {r.id : r \in d.workbooks} /\ DOMAIN WorkbookQuestionIds(d) = {r.id : r \in d.workbooks}
  BY <1>1, <1>2 DEF loadWorkbooksDB, WorkbookQuestionIds
<1>7. ASSUME id \in DOMAIN have
      PROVE  have[id].title = titles[id] /\ have[id].questions = Column(rows, "question")
  <2>1. DOMAIN titles = {r.id : r \in d.workbooks}
    BY <1>2
  <2>2. have[id] = [title |-> titles[id], questions |-> Of(WorkbookQuestionIds(d), id)]
    BY <1>1, <1>6, <1>7, <2>1 DEF loadWorkbooksDB
  <2> QED
    BY <1>5, <1>6, <1>7, <2>2 DEF Of
<1>8. Agrees(y, d, "workbooks", id) <=>
        /\ id \in DOMAIN y.workbooks <=> id \in DOMAIN have
        /\ id \in DOMAIN y.workbooks => /\ y.workbooks[id].title = have[id].title
                                        /\ y.workbooks[id].questions = have[id].questions
  BY DEF Agrees, Alike
<1>9. WorkbookAgrees(y, d, id) <=>
        /\ id \in DOMAIN y.workbooks <=> \E w \in d.workbooks : w.id = id
        /\ \A w \in d.workbooks : (w.id = id /\ id \in DOMAIN y.workbooks) =>
             w.title = y.workbooks[id].title /\ y.workbooks[id].questions = Column(rows, "question")
  BY DEF WorkbookAgrees
<1> HIDE DEF have, rows, titles
<1>10. CASE id \in DOMAIN have
  <2>1. PICK w \in d.workbooks : w.id = id
    BY <1>6, <1>10
  <2>2. \A v \in d.workbooks : v.id = id => v.title = titles[id]
    BY <1>4
  <2> QED
    BY <1>7, <1>8, <1>9, <1>10, <2>1, <2>2
<1>11. CASE id \notin DOMAIN have
  BY <1>6, <1>8, <1>9, <1>11
<1> QED
  BY <1>10, <1>11
LEMMA CategoryAgreement ==
  ASSUME NEW y, DirectoryOK(y), Tidy(y), NEW d, ConstraintsHold(d), NEW id
  PROVE  Agrees(y, d, "categories", id) <=> CategoryAgrees(y, d, id)
<1> DEFINE have == Loaded(d).categories
           titles == CategoryTitles(d)
<1>1. have = loadCategoriesDB(titles, CategoryWorkbookIds(d))
  BY DEF Loaded
<1>2. titles = [x \in {r.id : r \in d.categories} |-> (CHOOSE r \in d.categories : r.id = x).title]
  BY DEF CategoryTitles, Rows
<1>3. Keyed(d.categories)
  BY DEF ConstraintsHold
<1>4. \A r \in d.categories : titles[r.id] = r.title
  <2> TAKE r \in d.categories
  <2>1. (CHOOSE s \in d.categories : s.id = r.id) = r
    BY <1>3, RowRead
  <2> QED
    BY <1>2, <2>1
<1>5. DOMAIN have = {r.id : r \in d.categories} /\ DOMAIN CategoryWorkbookIds(d) = {r.id : r \in d.categories}
  BY <1>1, <1>2 DEF loadCategoriesDB, CategoryWorkbookIds
<1>6. ASSUME id \in DOMAIN have
      PROVE  have[id].title = titles[id] /\ have[id].workbooks = Holds(d, id)
  <2>1. CategoryWorkbookIds(d)[id] = Holds(d, id)
    BY <1>5, <1>6 DEF CategoryWorkbookIds, Holds
  <2>2. DOMAIN titles = {r.id : r \in d.categories}
    BY <1>2
  <2> QED
    BY <1>1, <1>5, <1>6, <2>1, <2>2 DEF loadCategoriesDB
<1> DEFINE ws == y.categories[id].workbooks
<1>7. id \in DOMAIN y.categories => Cardinality(Elems(ws)) = Len(ws)
  <2> SUFFICES ASSUME id \in DOMAIN y.categories PROVE Cardinality(Elems(ws)) = Len(ws)
    OBVIOUS
  <2>1. ws \in Seq(Nat) /\ Distinct(ws)
    BY DEF DirectoryOK, Tidy
  <2> HIDE DEF ws
  <2> QED
    BY <2>1, DistinctCounted
<1>8. Agrees(y, d, "categories", id) <=>
        /\ id \in DOMAIN y.categories <=> id \in DOMAIN have
        /\ id \in DOMAIN y.categories => /\ y.categories[id].title = have[id].title
                                         /\ Elems(ws) = have[id].workbooks
                                         /\ Len(ws) = Cardinality(have[id].workbooks)
  BY DEF Agrees, Alike
<1>9. CategoryAgrees(y, d, id) <=>
        /\ id \in DOMAIN y.categories <=> \E c \in d.categories : c.id = id
        /\ \A c \in d.categories : (c.id = id /\ id \in DOMAIN y.categories) =>
             c.title = y.categories[id].title /\ Holds(d, id) = Elems(ws)
  BY DEF CategoryAgrees
<1> HIDE DEF have, titles, ws
<1>10. CASE id \in DOMAIN have
  <2>1. PICK c \in d.categories : c.id = id
    BY <1>5, <1>10
  <2>2. \A b \in d.categories : b.id = id => b.title = titles[id]
    BY <1>4
  <2> QED
    BY <1>6, <1>7, <1>8, <1>9, <1>10, <2>1, <2>2
<1>11. CASE id \notin DOMAIN have
  BY <1>5, <1>8, <1>9, <1>11
<1> QED
  BY <1>10, <1>11
-----------------------------------------------------------------------------
(* Rows that were written from an entry are read as that entry.             *)
Rowwise(s, f, S, k, c) ==
  /\ f = [i \in DOMAIN s |-> f[i]] /\ S = {f[i] : i \in DOMAIN s}
  /\ \A i \in DOMAIN s : f[i][k] = i - 1 /\ f[i][c] = s[i]
LEMMA NumberedColumn ==
  ASSUME NEW V, NEW s \in Seq(V), NEW f, NEW S, NEW k, NEW c, Rowwise(s, f, S, k, c)
  PROVE  SortedBy(S, k) = f /\ Column(f, c) = s
<1> DEFINE n == Len(s)
<1>1. n \in Nat /\ DOMAIN s = 1 .. n /\ s = [i \in 1 .. n |-> s[i]]
  OBVIOUS
<1> HIDE DEF n
<1>2. SortedBy(S, k) = f
  BY <1>1, NumberedListing DEF Rowwise
<1>3. DOMAIN f = 1 .. n
  BY <1>1 DEF Rowwise
<1>4. Column(f, c) = [i \in 1 .. n |-> s[i]]
  BY <1>1, <1>3 DEF Column, Rowwise
<1> QED
  BY <1>1, <1>2, <1>4
LEMMA ChoicesRead ==
  ASSUME NEW y, DirectoryOK(y), validateReferences(y), NEW q \in DOMAIN y.questions
  PROVE  LET cs == SortedBy(ChoicesFor(y, q), "index")
         IN  /\ y.questions[q].choices = Column(cs, "text") /\ y.questions[q].correct = FirstCorrect(cs)
             /\ \E i \in DOMAIN cs : cs[i].correct
<1> DEFINE s == y.questions[q].choices
           k == y.questions[q].correct
           f == [i \in DOMAIN s |-> ChoiceRow(y, q, i)]
           S == ChoicesFor(y, q)
<1>1. s \in Seq(STRING) /\ k \in Int
  BY DEF DirectoryOK
<1>2. k >= 0 /\ k < Len(s)
  BY DEF validateReferences, Validate
<1>3. \A i \in DOMAIN s : f[i].index = i - 1 /\ (f[i].correct <=> i - 1 = k)
  BY DEF ChoiceRow
<1>4. Rowwise(s, f, S, "index", "text")
  BY DEF Rowwise, ChoicesFor, ChoiceRow
<1>5. DOMAIN f = DOMAIN s
  OBVIOUS
<1> HIDE DEF f, S, s, k
<1>6. SortedBy(S, "index") = f /\ Column(f, "text") = s
  BY <1>1, <1>4, NumberedColumn
<1>7. k + 1 \in DOMAIN s /\ DOMAIN f = DOMAIN s
  BY <1>1, <1>2, <1>5
<1>8. {i \in DOMAIN f : f[i].correct} = {k + 1}
  <2>1. DOMAIN s \subseteq Nat
    BY <1>1
  <2>2. \A i \in DOMAIN s : f[i].correct <=> i = k + 1
    BY <1>1, <1>3, <2>1
  <2> QED
    BY <1>7, <2>2
<1>9. FirstCorrect(f) = k
  <2>1. (CHOOSE i \in {k + 1} : \A j \in {k + 1} : i <= j) = k + 1
    BY <1>1
  <2>2. f[k + 1].index = k
    BY <1>1, <1>3, <1>7
  <2> QED
    BY <1>8, <2>1, <2>2 DEF FirstCorrect
<1>10. \E i \in DOMAIN f : f[i].correct
  BY <1>8
<1> QED
  BY <1>6, <1>9, <1>10 DEF S, s, k
LEMMA ImagesRead ==
  ASSUME NEW y, DirectoryOK(y), NEW q \in DOMAIN y.questions
  PROVE  y.questions[q].images = Column(SortedBy(ShownFor(y, q), "order"), "image")
<1> DEFINE s == y.questions[q].images
           f == [i \in DOMAIN s |-> ShownRow(y, q, i)]
           S == ShownFor(y, q)
<1>1. s \in Seq(Nat)
  BY DEF DirectoryOK
<1>2. Rowwise(s, f, S, "order", "image")
  BY DEF Rowwise, ShownFor, ShownRow
<1> HIDE DEF f, S, s
<1>3. SortedBy(S, "order") = f /\ Column(f, "image") = s
  BY <1>1, <1>2, NumberedColumn
<1> QED
  BY <1>3 DEF S, s
LEMMA PlacesRead ==
  ASSUME NEW y, DirectoryOK(y), NEW w \in DOMAIN y.workbooks
  PROVE  y.workbooks[w].questions = Column(SortedBy(PlacesFor(y, w), "order"), "question")
<1> DEFINE s == y.workbooks[w].questions
           f == [i \in DOMAIN s |-> PlaceRow(y, w, i)]
           S == PlacesFor(y, w)
<1>1. s \in Seq(Nat)
  BY DEF DirectoryOK
<1>2. Rowwise(s, f, S, "order", "question")
  BY DEF Rowwise, PlacesFor, PlaceRow
<1> HIDE DEF f, S, s
<1>3. SortedBy(S, "order") = f /\ Column(f, "question") = s
  BY <1>1, <1>2, NumberedColumn
<1> QED
  BY <1>3 DEF S, s
LEMMA WrittenQuestion ==
  ASSUME NEW y, DirectoryOK(y), validateReferences(y), NEW q \in DOMAIN y.questions, NEW d, q \in d.questions,
         \A s \in d.singleChoices : s.question = q => s.text = y.questions[q].text,
         ChoicesOf(d, q) = ChoicesFor(y, q), ShownOf(d, q) = ShownFor(y, q)
  PROVE  QuestionAgrees(y, d, q)
<1> DEFINE cs == SortedBy(ChoicesFor(y, q), "index")
           rows == SortedBy(ShownFor(y, q), "order")
<1>1. y.questions[q].choices = Column(cs, "text") /\ y.questions[q].correct = FirstCorrect(cs)
  BY ChoicesRead
<1>2. y.questions[q].images = Column(rows, "image")
  BY ImagesRead
<1> HIDE DEF cs, rows
<1>3. \A s \in d.singleChoices : s.question = q => QuestionReads(y.questions[q], s.text, cs, rows)
  BY <1>1, <1>2 DEF QuestionReads
<1> QED
  BY <1>3 DEF QuestionAgrees, cs, rows
LEMMA WrittenWorkbook ==
  ASSUME NEW y, DirectoryOK(y), NEW id \in DOMAIN y.workbooks, NEW d, \E w \in d.workbooks : w.id = id,
         \A w \in d.workbooks : w.id = id => w.title = y.workbooks[id].title,
         PlacesOf(d, id) = PlacesFor(y, id)
  PROVE  WorkbookAgrees(y, d, id)
<1>1. y.workbooks[id].questions = Column(SortedBy(PlacesFor(y, id), "order"), "question")
  BY PlacesRead
<1> QED
  BY <1>1 DEF WorkbookAgrees
-----------------------------------------------------------------------------
(* A plan made of what the database holds.                                  *)
IdsOf(T) == {r.id : r \in T}
Present(d) == [images |-> IdsOf(d.images), questions |-> d.questions,
               workbooks |-> IdsOf(d.workbooks), categories |-> IdsOf(d.categories)]
Compares(y, d, t, p) ==
  /\ Fits(y, t, p)
  /\ p.add \cap Present(d)[t] = {} /\ p.change \subseteq Present(d)[t] /\ p.delete \subseteq Present(d)[t]
  /\ \A id : id \notin Synced(p) => Agrees(y, d, t, id)
LEMMA LoadedIds ==
  ASSUME NEW d, NEW t \in Tables
  PROVE  DOMAIN Loaded(d)[t] = Present(d)[t]
<1>1. DOMAIN loadImagesDB(d) = IdsOf(d.images)
  BY DEF IdsOf, loadImagesDB, Rows
<1>2. DOMAIN loadQuestionsDB(QuestionTexts(d), QuestionChoices(d), QuestionImageIds(d)) = d.questions
  BY DEF loadQuestionsDB, QuestionTexts
<1>3. DOMAIN loadWorkbooksDB(WorkbookTitles(d), WorkbookQuestionIds(d)) = IdsOf(d.workbooks)
  BY DEF IdsOf, loadWorkbooksDB, WorkbookTitles, Rows
<1>4. DOMAIN loadCategoriesDB(CategoryTitles(d), CategoryWorkbookIds(d)) = IdsOf(d.categories)
  BY DEF IdsOf, loadCategoriesDB, CategoryTitles, Rows
<1>5. CASE t = "images"
  BY <1>1, <1>5 DEF Loaded, Present
<1>6. CASE t = "questions"
  BY <1>2, <1>6 DEF Loaded, Present
<1>7. CASE t = "workbooks"
  BY <1>3, <1>7 DEF Loaded, Present
<1>8. CASE t = "categories"
  BY <1>4, <1>8 DEF Loaded, Present
<1> QED
  BY <1>5, <1>6, <1>7, <1>8 DEF Tables
LEMMA PlanCompares ==
  ASSUME NEW y, DirectoryOK(y), NEW d, Typed(d), NEW t \in Tables
  PROVE  Compares(y, d, t, Plan(y, d)[t])
<1> DEFINE have == Loaded(d)[t]
           p == Plan(y, d)[t]
<1>1. Numbers(DOMAIN have)
  <2>1. /\ IsFiniteSet(d.images) /\ IsFiniteSet(d.workbooks) /\ IsFiniteSet(d.categories)
        /\ IsFiniteSet(d.questions) /\ d.questions \subseteq Nat
    BY DEF Typed, IdRows, BookRows, NamedRows, IdNumbers
  <2>2. \A T : NumberedRows(T) => Numbers(IdsOf(T))
    BY IdsAreNumbers DEF IdsOf
  <2>3. NumberedRows(d.images) /\ NumberedRows(d.workbooks) /\ NumberedRows(d.categories)
    BY DEF Typed, IdRows, BookRows, NamedRows, IdNumbers, NumberedRows
  <2>4. Numbers(Present(d)[t])
    BY <2>1, <2>2, <2>3 DEF Present, Tables, Numbers
  <2> QED
    BY <2>4, LoadedIds
<1>2. p.add \cap DOMAIN have = {} /\ p.change \subseteq DOMAIN have /\ p.delete \subseteq DOMAIN have
  BY DEF Plan, Loaded, Tables, planImages, planQuestions, planWorkbooks, planCategories, Diff
<1>3. Fits(y, t, p)
  <2>1. p = CASE t = "images" -> planImages(y, have) [] t = "questions" -> planQuestions(y, have)
              [] t = "workbooks" -> planWorkbooks(y, have) [] t = "categories" -> planCategories(y, have)
    BY DEF Plan, Loaded, Tables
  <2> HIDE DEF have, p
  <2> QED
    BY <1>1, <2>1, DiffFits DEF Tables
<1> HIDE DEF have, p
<1>4. \A id : id \notin Synced(p) => Agrees(y, d, t, id)
  BY PlanNames DEF p
<1>5. DOMAIN have = Present(d)[t]
  BY LoadedIds DEF have
<1>6. Compares(y, d, t, p)
  BY <1>2, <1>3, <1>4, <1>5 DEF Compares
<1> QED
  BY <1>6 DEF p
(* What a column of listed rows shows.                                      *)
LEMMA RowsShown ==
  ASSUME NEW S, IsFiniteSet(S), NEW k, \A r \in S : r[k] \in Nat,
         \A r, s \in S : r[k] = s[k] => r = s, NEW c
  PROVE  \A r \in S : r[c] \in Elems(Column(SortedBy(S, k), c))
<1> DEFINE f == SortedBy(S, k)
<1>1. Listing(f, S)
  BY ByColumn
<1> HIDE DEF f
<1>2. \A r \in S : \E i \in DOMAIN f : f[i] = r
  BY <1>1 DEF Listing
<1>3. DOMAIN Column(f, c) = DOMAIN f /\ \A i \in DOMAIN f : Column(f, c)[i] = f[i][c]
  BY DEF Column
<1>4. \A r \in S : r[c] \in Elems(Column(f, c))
  <2> TAKE r \in S
  <2>1. PICK i \in DOMAIN f : f[i] = r
    BY <1>2
  <2> QED
    BY <1>3, <2>1 DEF Elems
<1> QED
  BY <1>4 DEF f
(* Images after a run.                                                      *)
LEMMA ImagesConverge ==
  ASSUME NEW y, NEW p, NEW d, ConstraintsHold(d), Compares(y, d, "images", p), NEW b,
         ImagesDone(y, p, d, b), NEW e, e.images = b.images, NEW id
  PROVE  ImageAgrees(y, e, id)
<1>1. DOMAIN loadImagesDB(d) = Present(d).images
  BY LoadedIds DEF Tables, Loaded
<1>2. PutIds(p, d) = Made(p) /\ p.add \cup p.change \subseteq DOMAIN y.images /\ p.delete \cap DOMAIN y.images = {}
  BY <1>1 DEF Compares, Fits, PutIds, Made
<1>3. \A r : r \in e.images <=> /\ r.id \notin p.delete
                                /\ (r \in d.images /\ r.id \notin Made(p)) \/ r \in ImagesFor(y, Made(p))
  BY <1>2 DEF ImagesDone
<1>4. CASE id \in Made(p)
  <2>1. id \in DOMAIN y.images /\ id \notin p.delete
    BY <1>2, <1>4 DEF Made
  <2>2. ImageRow(y, id) \in e.images /\ ImageRow(y, id).id = id
    BY <1>3, <1>4, <2>1 DEF ImagesFor, ImageRow
  <2>3. \A m \in e.images : m.id = id => m.path = y.images[id]
    BY <1>3, <1>4 DEF ImagesFor, ImageRow
  <2> QED
    BY <2>1, <2>2, <2>3 DEF ImageAgrees
<1>5. CASE id \in p.delete
  BY <1>2, <1>3, <1>5 DEF ImageAgrees
<1>6. CASE id \notin Synced(p)
  <2>1. ImageAgrees(y, d, id)
    BY <1>6, ImageAgreement DEF Compares
  <2>2. \A r : r.id = id => (r \in e.images <=> r \in d.images)
    BY <1>3, <1>6 DEF Synced, Made, ImagesFor, ImageRow
  <2> QED
    BY <2>1, <2>2 DEF ImageAgrees
<1> QED
  BY <1>4, <1>5, <1>6 DEF Synced, Made
(* The details of an entry are about that entry.                            *)
OwnRows(y, S, x) ==
  /\ \A r : (r \in AllChoices(y, S) /\ r.question = x) <=> x \in S /\ r \in ChoicesFor(y, x)
  /\ \A r : (r \in AllShown(y, S) /\ r.question = x) <=> x \in S /\ r \in ShownFor(y, x)
  /\ \A r : (r \in AllPlaces(y, S) /\ r.workbook = x) <=> x \in S /\ r \in PlacesFor(y, x)
  /\ \A r : (r \in TextsFor(y, S) /\ r.question = x) <=> x \in S /\ r = TextRow(y, x)
LEMMA OwnDetails ==
  ASSUME NEW y, NEW S, NEW x
  PROVE  OwnRows(y, S, x)
<1>1. \A q : /\ \A r \in ChoicesFor(y, q) : r.question = q
             /\ \A r \in ShownFor(y, q) : r.question = q
             /\ \A r \in PlacesFor(y, q) : r.workbook = q
             /\ TextRow(y, q).question = q
  BY DEF ChoicesFor, ShownFor, PlacesFor, ChoiceRow, ShownRow, PlaceRow, TextRow
<1>2. /\ \A r : r \in AllChoices(y, S) <=> \E q \in S : r \in ChoicesFor(y, q)
      /\ \A r : r \in AllShown(y, S) <=> \E q \in S : r \in ShownFor(y, q)
      /\ \A r : r \in AllPlaces(y, S) <=> \E q \in S : r \in PlacesFor(y, q)
      /\ \A r : r \in TextsFor(y, S) <=> \E q \in S : r = TextRow(y, q)
  BY DEF AllChoices, AllShown, AllPlaces, TextsFor
<1> QED
  BY <1>1, <1>2 DEF OwnRows
(* Questions after a run.  The images that go away are named by no question *)
(* that stays as it was.                                                    *)
LEMMA QuestionKept ==
  ASSUME NEW y, NEW d, NEW e, NEW id, QuestionAgrees(y, d, id),
         id \in e.questions <=> id \in d.questions,
         \A s \in e.singleChoices : s.question = id => s \in d.singleChoices,
         ChoicesOf(e, id) = ChoicesOf(d, id), ShownOf(e, id) = ShownOf(d, id)
  PROVE  QuestionAgrees(y, e, id)
BY DEF QuestionAgrees
LEMMA ImagesNamed ==
  ASSUME NEW y, validateReferences(y), NEW d, Typed(d), ConstraintsHold(d), NEW id \in DOMAIN y.questions,
         QuestionAgrees(y, d, id)
  PROVE  \A r \in ShownOf(d, id) : r.image \in DOMAIN y.images
<1> DEFINE S == ShownOf(d, id)
<1>1. IsFiniteSet(S)
  BY FS_Subset DEF Typed, OrderRows, ShownOf
<1>2. \A r \in S : r["order"] \in Nat
  BY DEF Typed, OrderRows, ShownOf
<1>3. \A r, s \in S : r["order"] = s["order"] => r = s
  BY DEF ConstraintsHold, ShownOf
<1>4. PICK s \in d.singleChoices : s.question = id
  BY DEF QuestionAgrees, ConstraintsHold, GetQuestionByID
<1>5. y.questions[id].images = Column(SortedBy(S, "order"), "image")
  BY <1>4 DEF QuestionAgrees, QuestionReads
<1> HIDE DEF S
<1>6. \A r \in S : r["image"] \in Elems(Column(SortedBy(S, "order"), "image"))
  BY <1>1, <1>2, <1>3, RowsShown
<1>7. Elems(y.questions[id].images) \subseteq DOMAIN y.images
  BY DEF validateReferences
<1>8. \A r \in S : r["image"] \in DOMAIN y.images
  BY <1>5, <1>6, <1>7
<1> QED
  BY <1>8 DEF S
LEMMA QuestionsConverge ==
  ASSUME NEW y, DirectoryOK(y), validateReferences(y), NEW d, Typed(d), ConstraintsHold(d),
         NEW i, Compares(y, d, "images", i), NEW p, Compares(y, d, "questions", p),
         NEW b, ImagesDone(y, i, d, b), NEW c, QuestionsDone(y, p, b, c),
         NEW e, \A t \in QuestionTables : e[t] = c[t], NEW id
  PROVE  QuestionAgrees(y, e, id)
<1>1. /\ e.questions = c.questions /\ e.singleChoices = c.singleChoices /\ e.choices = c.choices
      /\ e.questionImages = c.questionImages
  BY DEF QuestionTables
<1>2. /\ b.questions = d.questions /\ b.singleChoices = d.singleChoices /\ b.choices = d.choices
      /\ \A r : r \in b.questionImages <=> r \in d.questionImages /\ r.image \notin i.delete
  BY DEF ImagesDone, Same, TableNames, Serial
<1>3. /\ e.questions = (d.questions \ p.delete) \cup p.add
      /\ \A r : r \in e.singleChoices <=>
                  (r \in d.singleChoices /\ r.question \notin Gone(p)) \/ r \in TextsFor(y, Made(p))
      /\ \A r : r \in e.choices <=> (r \in d.choices /\ r.question \notin Gone(p)) \/ r \in AllChoices(y, Made(p))
      /\ \A r : r \in e.questionImages <=>
                  \/ r \in d.questionImages /\ r.image \notin i.delete /\ r.question \notin Gone(p)
                  \/ r \in AllShown(y, Made(p))
  BY <1>1, <1>2 DEF QuestionsDone
<1>4. /\ p.add \cup p.change \subseteq DOMAIN y.questions /\ p.delete \cap DOMAIN y.questions = {}
      /\ p.add \cap d.questions = {} /\ p.change \subseteq d.questions
      /\ i.delete \cap DOMAIN y.images = {}
  BY DEF Compares, Fits, Present
<1>5. OwnRows(y, Made(p), id)
  BY OwnDetails
<1>6. CASE id \in Made(p)
  <2>1. id \in DOMAIN y.questions /\ id \in e.questions
    BY <1>3, <1>4, <1>6 DEF Made
  <2>2. \A s \in e.singleChoices : s.question = id => s.text = y.questions[id].text
    <3>1. \A s \in e.singleChoices : s.question = id => s = TextRow(y, id)
      <4>1. id \in Gone(p) \/ id \notin d.questions
        BY <1>4, <1>6 DEF Made, Gone
      <4>2. \A s \in d.singleChoices : s.question \in d.questions
        BY DEF ConstraintsHold, QuestionExists
      <4> QED
        BY <1>3, <4>1, <4>2, <1>5 DEF OwnRows
    <3> QED
      BY <3>1 DEF TextRow
  <2>3. ChoicesOf(e, id) = ChoicesFor(y, id)
    <3>1. \A r \in d.choices : r.question = id => id \in Gone(p)
      BY <1>4, <1>6 DEF ConstraintsHold, QuestionExists, Made, Gone
    <3>2. \A r : (r \in AllChoices(y, Made(p)) /\ r.question = id) <=> r \in ChoicesFor(y, id)
      BY <1>6, <1>5 DEF OwnRows
    <3> QED
      BY <1>3, <3>1, <3>2 DEF ChoicesOf
  <2>4. ShownOf(e, id) = ShownFor(y, id)
    <3>1. \A r \in d.questionImages : r.question = id => id \in Gone(p)
      BY <1>4, <1>6 DEF ConstraintsHold, QuestionExists, Made, Gone
    <3>2. \A r : (r \in AllShown(y, Made(p)) /\ r.question = id) <=> r \in ShownFor(y, id)
      BY <1>6, <1>5 DEF OwnRows
    <3> QED
      BY <1>3, <3>1, <3>2 DEF ShownOf
  <2> QED
    BY <2>1, <2>2, <2>3, <2>4, WrittenQuestion
<1>7. CASE id \in p.delete
  <2>1. id \notin DOMAIN y.questions /\ id \notin e.questions
    BY <1>3, <1>4, <1>7
  <2> QED
    BY <2>1 DEF QuestionAgrees
<1>8. CASE id \notin Synced(p)
  <2>1. QuestionAgrees(y, d, id)
    BY <1>8, QuestionAgreement DEF Compares
  <2>2. id \notin Gone(p) /\ id \notin Made(p) /\ id \notin p.delete /\ id \notin p.add
    BY <1>8 DEF Synced, Gone, Made
  <2>3. id \in e.questions <=> id \in d.questions
    BY <1>3, <2>2
  <2>4. \A s \in e.singleChoices : s.question = id => s \in d.singleChoices
    BY <1>3, <2>2, <1>5 DEF OwnRows
  <2>5. ChoicesOf(e, id) = ChoicesOf(d, id)
    <3>1. \A r : r.question = id => r \notin AllChoices(y, Made(p))
      BY <2>2, <1>5 DEF OwnRows
    <3> QED
      BY <1>3, <2>2, <3>1 DEF ChoicesOf
  <2>6. ShownOf(e, id) = ShownOf(d, id)
    <3>1. \A r : r.question = id => r \notin AllShown(y, Made(p))
      BY <2>2, <1>5 DEF OwnRows
    <3>2. \A r \in ShownOf(d, id) : r.image \notin i.delete
      <4>1. CASE id \in DOMAIN y.questions
        BY <1>4, <2>1, <4>1, ImagesNamed
      <4>2. CASE id \notin DOMAIN y.questions
        BY <2>1, <4>2 DEF QuestionAgrees, ConstraintsHold, QuestionExists, ShownOf
      <4> QED
        BY <4>1, <4>2
    <3> QED
      BY <1>3, <2>2, <3>1, <3>2 DEF ShownOf
  <2> QED
    BY <2>1, <2>3, <2>4, <2>5, <2>6, QuestionKept
<1> QED
  BY <1>6, <1>7, <1>8 DEF Synced, Made
(* Workbooks after a run.  The questions that go away are in no workbook    *)
(* that stays as it was.                                                    *)
LEMMA QuestionsNamed ==
  ASSUME NEW y, validateReferences(y), NEW d, Typed(d), InPlace(d.workbookQuestions),
         NEW id \in DOMAIN y.workbooks, WorkbookAgrees(y, d, id)
  PROVE  \A r \in PlacesOf(d, id) : r.question \in DOMAIN y.questions
<1> DEFINE S == PlacesOf(d, id)
<1>1. IsFiniteSet(S)
  BY FS_Subset DEF Typed, OrderRows, PlacesOf
<1>2. \A r \in S : r["order"] \in Nat
  BY DEF Typed, OrderRows, PlacesOf
<1>3. \A r, s \in S : r["order"] = s["order"] => r = s
  BY DEF InPlace, PlacesOf
<1>4. y.workbooks[id].questions = Column(SortedBy(S, "order"), "question")
  BY DEF WorkbookAgrees
<1> HIDE DEF S
<1>5. \A r \in S : r["question"] \in Elems(Column(SortedBy(S, "order"), "question"))
  BY <1>1, <1>2, <1>3, RowsShown
<1>6. Elems(y.workbooks[id].questions) \subseteq DOMAIN y.questions
  BY DEF validateReferences
<1>7. \A r \in S : r["question"] \in DOMAIN y.questions
  BY <1>4, <1>5, <1>6
<1> QED
  BY <1>7 DEF S
(* The rows of the workbooks before, and after their categories have moved  *)
(* and they have been written.                                              *)
BooksMoved(y, k, q, p, f, d, b, e) ==
  /\ Regrouped(y, k, Synced(k), d.workbooks, b.workbooks)
  /\ \A r : r \in b.workbookQuestions <=> r \in d.workbookQuestions /\ r.question \notin q.delete
  /\ BooksDone(y, p, f, b, e)
BooksNow(y, k, p, f, d, e) ==
  /\ \A v \in e.workbooks :
       /\ v.id \notin p.delete
       /\ v.id \in Made(p) => v.title = y.workbooks[v.id].title /\ v.category = f[v.id]
       /\ v.id \notin Made(p) => \E w \in d.workbooks :
            w.id = v.id /\ w.title = v.title /\ Settled(y, k, Synced(k), v.id, w.category, v.category)
  /\ \A w \in d.workbooks : w.id \notin p.delete => \E v \in e.workbooks : v.id = w.id
  /\ \A x \in Made(p) : \E v \in e.workbooks : v.id = x
LEMMA BookRow ==
  ASSUME NEW y, NEW k, NEW q, NEW p, NEW f, NEW d, Compares(y, d, "workbooks", p), NEW b, NEW e,
         BooksMoved(y, k, q, p, f, d, b, e)
  PROVE  BooksNow(y, k, p, f, d, e)
<1>1. /\ \A v \in b.workbooks : \E w \in d.workbooks : /\ v.id = w.id /\ v.title = w.title
                                                       /\ Settled(y, k, Synced(k), v.id, w.category, v.category)
      /\ \A w \in d.workbooks : \E v \in b.workbooks : v.id = w.id
  BY DEF BooksMoved, Regrouped
<1>2. /\ \A v \in e.workbooks :
           /\ v.id \notin p.delete
           /\ \/ v.id \in p.add /\ v = WorkbookLine(y, v.id, f[v.id])
              \/ \E w \in b.workbooks :
                   /\ v.id = w.id
                   /\ v.id \in p.change => v.title = y.workbooks[v.id].title /\ v.category = f[v.id]
                   /\ v.id \notin p.change => v = w
      /\ \A w \in b.workbooks : w.id \notin p.delete => \E v \in e.workbooks : v.id = w.id
      /\ \A x \in p.add : \E v \in e.workbooks : v.id = x
  BY DEF BooksMoved, BooksDone
<1>3. \A w \in d.workbooks : w.id \in Present(d)["workbooks"]
  BY DEF Present, IdsOf
<1>4. p.add \cap Present(d)["workbooks"] = {} /\ p.change \subseteq Present(d)["workbooks"]
      /\ p.change \subseteq DOMAIN y.workbooks /\ p.delete \cap DOMAIN y.workbooks = {}
  BY DEF Compares, Fits
<1>5. \A x : WorkbookLine(y, x, f[x]).title = y.workbooks[x].title /\ WorkbookLine(y, x, f[x]).category = f[x]
  BY DEF WorkbookLine
<1>6. \A x \in p.change : x \notin p.delete /\ \E w \in d.workbooks : w.id = x
  BY <1>4 DEF Present, IdsOf
<1>7. ASSUME NEW v \in e.workbooks
      PROVE  /\ v.id \notin p.delete
             /\ v.id \in Made(p) => v.title = y.workbooks[v.id].title /\ v.category = f[v.id]
             /\ v.id \notin Made(p) => \E w \in d.workbooks :
                  w.id = v.id /\ w.title = v.title /\ Settled(y, k, Synced(k), v.id, w.category, v.category)
  <2>1. CASE v.id \in p.add
    <3>1. v = WorkbookLine(y, v.id, f[v.id])
      <4>1. \A w \in b.workbooks : w.id # v.id
        BY <1>1, <1>3, <1>4, <2>1
      <4> QED
        BY <1>2, <4>1
    <3> QED
      BY <1>2, <1>5, <2>1, <3>1 DEF Made
  <2>2. CASE v.id \in p.change
    <3>1. v.id \notin p.add
      BY <1>4, <2>2
    <3> QED
      BY <1>2, <2>2, <3>1 DEF Made
  <2>3. CASE v.id \notin Made(p)
    <3>1. v \in b.workbooks /\ v.id \notin p.delete
      BY <1>2, <2>3 DEF Made
    <3>2. PICK w \in d.workbooks : /\ v.id = w.id /\ v.title = w.title
                                   /\ Settled(y, k, Synced(k), v.id, w.category, v.category)
      BY <1>1, <3>1
    <3> QED
      BY <2>3, <3>1, <3>2
  <2> QED
    BY <2>1, <2>2, <2>3 DEF Made
<1>8. \A w \in d.workbooks : w.id \notin p.delete => \E v \in e.workbooks : v.id = w.id
  BY <1>1, <1>2
<1>9. \A x \in Made(p) : \E v \in e.workbooks : v.id = x
  <2> TAKE x \in Made(p)
  <2>1. CASE x \in p.add
    BY <1>2, <2>1
  <2>2. CASE x \in p.change
    BY <1>6, <1>8, <2>2
  <2> QED
    BY <2>1, <2>2 DEF Made
<1> QED
  BY <1>7, <1>8, <1>9 DEF BooksNow
LEMMA WorkbooksConverge ==
  ASSUME NEW y, DirectoryOK(y), validateReferences(y),
         NEW d, Typed(d), ConstraintsHold(d), InPlace(d.workbookQuestions),
         NEW q, Compares(y, d, "questions", q), NEW p, Compares(y, d, "workbooks", p),
         NEW k, NEW f, NEW b, NEW c, BooksMoved(y, k, q, p, f, d, b, c),
         NEW e, e.workbooks = c.workbooks, e.workbookQuestions = c.workbookQuestions, NEW id
  PROVE  WorkbookAgrees(y, e, id)
<1>1. /\ \A v \in e.workbooks :
           /\ v.id \notin p.delete
           /\ v.id \in Made(p) => v.title = y.workbooks[v.id].title
           /\ v.id \notin Made(p) => \E w \in d.workbooks : w.id = v.id /\ w.title = v.title
      /\ \A w \in d.workbooks : w.id \notin p.delete => \E v \in e.workbooks : v.id = w.id
      /\ \A x \in Made(p) : \E v \in e.workbooks : v.id = x
  <2>1. BooksNow(y, k, p, f, d, c)
    BY BookRow
  <2> QED
    BY <2>1 DEF BooksNow
<1>2. \A r : r \in e.workbookQuestions <=>
        \/ r \in d.workbookQuestions /\ r.question \notin q.delete /\ r.workbook \notin Gone(p)
        \/ r \in AllPlaces(y, Made(p))
  BY DEF BooksMoved, BooksDone
<1>3. /\ p.add \cup p.change \subseteq DOMAIN y.workbooks /\ p.delete \cap DOMAIN y.workbooks = {}
      /\ p.add \cap Present(d)["workbooks"] = {} /\ q.delete \cap DOMAIN y.questions = {}
  BY DEF Compares, Fits
<1>4. OwnRows(y, Made(p), id)
  BY OwnDetails
<1>5. \A r \in d.workbookQuestions : \E w \in d.workbooks : w.id = r.workbook
  BY DEF ConstraintsHold, WorkbookExists
<1>6. CASE id \in Made(p)
  <2>1. id \in DOMAIN y.workbooks
    BY <1>3, <1>6 DEF Made
  <2>2. \A r \in d.workbookQuestions : r.workbook = id => id \in Gone(p)
    BY <1>3, <1>5, <1>6 DEF Made, Gone, Present, IdsOf
  <2>3. PlacesOf(e, id) = PlacesFor(y, id)
    BY <1>2, <1>4, <1>6, <2>2 DEF OwnRows, PlacesOf
  <2> QED
    BY <1>1, <1>6, <2>1, <2>3, WrittenWorkbook
<1>7. CASE id \in p.delete
  BY <1>1, <1>3, <1>7 DEF WorkbookAgrees
<1>8. CASE id \notin Synced(p)
  <2>1. WorkbookAgrees(y, d, id)
    BY <1>8, WorkbookAgreement DEF Compares
  <2>2. id \notin Gone(p) /\ id \notin Made(p) /\ id \notin p.delete
    BY <1>8 DEF Synced, Gone, Made
  <2>3. \A r \in PlacesOf(d, id) : r.question \notin q.delete
    <3>1. CASE id \in DOMAIN y.workbooks
      BY <1>3, <2>1, <3>1, QuestionsNamed
    <3>2. CASE id \notin DOMAIN y.workbooks
      BY <1>5, <2>1, <3>2 DEF WorkbookAgrees, PlacesOf
    <3> QED
      BY <3>1, <3>2
  <2>4. PlacesOf(e, id) = PlacesOf(d, id)
    <3>1. \A r : r.workbook = id => r \notin AllPlaces(y, Made(p))
      BY <1>4, <2>2 DEF OwnRows
    <3> QED
      BY <1>2, <2>2, <2>3, <3>1 DEF PlacesOf
  <2>5. (\E w \in e.workbooks : w.id = id) <=> \E w \in d.workbooks : w.id = id
    BY <1>1, <2>2
  <2>6. \A v \in e.workbooks : v.id = id => \E w \in d.workbooks : w.id = id /\ w.title = v.title
    BY <1>1, <2>2
  <2> QED
    BY <2>1, <2>4, <2>5, <2>6 DEF WorkbookAgrees
<1> QED
  BY <1>6, <1>7, <1>8 DEF Synced, Made
(* Categories after a run: a workbook is in a category exactly if the       *)
(* category lists it.                                                       *)
LEMMA ListedOnce ==
  ASSUME NEW y, Tidy(y), NEW b \in DOMAIN y.categories, NEW c \in DOMAIN y.categories, NEW id,
         Lists(y, b, id), Lists(y, c, id)
  PROVE  b = c
BY DEF Tidy, Lists
LEMMA CategoryHolds ==
  ASSUME NEW y, NEW d, ConstraintsHold(d), NEW c, c # NoCategory, CategoryAgrees(y, d, c), NEW w \in d.workbooks
  PROVE  w.category = c <=> c \in DOMAIN y.categories /\ Lists(y, c, w.id)
<1>1. w.category = c <=> w.id \in Holds(d, c)
  <2>1. \A v \in d.workbooks : v.id = w.id => v = w
    BY DEF ConstraintsHold, Keyed
  <2> QED
    BY <2>1 DEF Holds
<1>2. CASE \E b \in d.categories : b.id = c
  <2>1. c \in DOMAIN y.categories /\ Holds(d, c) = Elems(y.categories[c].workbooks)
    BY <1>2 DEF CategoryAgrees
  <2> QED
    BY <1>1, <2>1 DEF Lists
<1>3. CASE ~\E b \in d.categories : b.id = c
  <2>1. w.category # c /\ c \notin DOMAIN y.categories
    BY <1>3 DEF CategoryAgrees, ConstraintsHold, CategoryExists
  <2> QED
    BY <2>1
<1> QED
  BY <1>2, <1>3
LEMMA WorkbooksFiled ==
  ASSUME NEW y, DirectoryOK(y), Tidy(y), NEW d, ConstraintsHold(d),
         NEW k, Compares(y, d, "categories", k), NEW p, Compares(y, d, "workbooks", p),
         NEW f \in buildCategoryMap(y), NEW e, BooksNow(y, k, p, f, d, e),
         NEW v \in e.workbooks, NEW c, c # NoCategory
  PROVE  v.category = c <=> c \in DOMAIN y.categories /\ Lists(y, c, v.id)
<1> DEFINE id == v.id
<1>1. NoCategory \notin DOMAIN y.categories
  BY DEF DirectoryOK, Tables, IdNumbers, NoCategory
<1>2. CASE id \in Made(p)
  <2>1. id \in DOMAIN y.workbooks
    BY <1>2 DEF Compares, Fits, Made
  <2>2. v.category = f[id]
    BY <1>2 DEF BooksNow
  <2>3. CASE \E b \in DOMAIN y.categories : Lists(y, b, id)
    <3>1. f[id] \in DOMAIN y.categories /\ Lists(y, f[id], id)
      BY <2>1, <2>3 DEF buildCategoryMap, Lists
    <3> QED
      BY <2>2, <3>1, ListedOnce
  <2>4. CASE ~\E b \in DOMAIN y.categories : Lists(y, b, id)
    <3>1. f[id] = NoCategory
      BY <2>1, <2>4 DEF buildCategoryMap, Lists
    <3> QED
      BY <2>2, <2>4, <3>1
  <2> QED
    BY <2>3, <2>4
<1>3. CASE id \notin Made(p)
  <2>1. PICK w \in d.workbooks : w.id = id /\ Settled(y, k, Synced(k), id, w.category, v.category)
    BY <1>3 DEF BooksNow
  <2>2. Made(k) \subseteq DOMAIN y.categories /\ k.delete \cap DOMAIN y.categories = {}
        /\ k.add \cap Present(d)["categories"] = {}
    BY DEF Compares, Fits, Made
  <2>3. \A x \in Synced(k) : x \in Made(k) <=> x \notin k.delete
    BY <2>2 DEF Synced, Made
  <2>4. \A x : (x # NoCategory /\ x \notin Synced(k)) =>
                 (w.category = x <=> x \in DOMAIN y.categories /\ Lists(y, x, id))
    <3> TAKE x
    <3> SUFFICES ASSUME x # NoCategory, x \notin Synced(k)
                 PROVE  w.category = x <=> x \in DOMAIN y.categories /\ Lists(y, x, id)
      OBVIOUS
    <3>1. CategoryAgrees(y, d, x)
      BY CategoryAgreement DEF Compares
    <3> QED
      BY <2>1, <3>1, CategoryHolds
  <2>5. w.category \notin k.add
    BY <1>1, <2>2 DEF ConstraintsHold, CategoryExists, Present, IdsOf, Made
  <2>6. CASE \E x \in Synced(k) : x \notin k.delete /\ Lists(y, x, id)
    <3>1. PICK x \in Synced(k) : x \notin k.delete /\ Lists(y, x, id)
      BY <2>6
    <3>2. v.category = x /\ x \in DOMAIN y.categories
      BY <2>1, <2>2, <2>3, <3>1 DEF Settled
    <3> QED
      BY <3>1, <3>2, ListedOnce
  <2>7. CASE \A x \in Synced(k) : x \in k.delete \/ ~Lists(y, x, id)
    <3>1. v.category = IF w.category \in Synced(k) THEN NoCategory ELSE w.category
      BY <2>1, <2>5, <2>7 DEF Settled
    <3>2. CASE c \in Synced(k)
      <4>1. v.category # c
        BY <3>1, <3>2
      <4>2. ~(c \in DOMAIN y.categories /\ Lists(y, c, id))
        BY <2>2, <2>7, <3>2
      <4> QED
        BY <4>1, <4>2
    <3>3. CASE c \notin Synced(k)
      BY <2>4, <3>1, <3>3
    <3> QED
      BY <3>2, <3>3
  <2> QED
    BY <2>6, <2>7
<1> QED
  BY <1>2, <1>3
LEMMA CategoriesConverge ==
  ASSUME NEW y, DirectoryOK(y), Tidy(y), NEW d, ConstraintsHold(d),
         NEW k, Compares(y, d, "categories", k), NEW p, Compares(y, d, "workbooks", p),
         NEW f \in buildCategoryMap(y), NEW e, BooksNow(y, k, p, f, d, e), \A x : WorkbookAgrees(y, e, x),
         \A r : r \in e.categories <=> \/ r \in d.categories /\ r.id \notin Synced(k)
                                       \/ r \in TitlesFor(y, Made(k)),
         NEW id
  PROVE  CategoryAgrees(y, e, id)
<1>1. Made(k) \subseteq DOMAIN y.categories /\ k.delete \cap DOMAIN y.categories = {}
  BY DEF Compares, Fits, Made
<1>2. id \in DOMAIN y.categories => Holds(e, id) = Elems(y.categories[id].workbooks)
  <2> SUFFICES ASSUME id \in DOMAIN y.categories
               PROVE  Holds(e, id) = Elems(y.categories[id].workbooks)
    OBVIOUS
  <2>1. id # NoCategory
    BY DEF DirectoryOK, Tables, IdNumbers, NoCategory
  <2>2. \A v \in e.workbooks : v.category = id <=> v.id \in Elems(y.categories[id].workbooks)
    BY <2>1, WorkbooksFiled DEF Lists
  <2>3. \A x \in Elems(y.categories[id].workbooks) : \E v \in e.workbooks : v.id = x
    BY DEF Tidy, WorkbookAgrees
  <2> QED
    BY <2>2, <2>3 DEF Holds
<1>3. \A r : r \in TitlesFor(y, Made(k)) <=> \E x \in Made(k) : r = CategoryRow(y, x)
  BY DEF TitlesFor
<1>4. \A x : CategoryRow(y, x).id = x /\ CategoryRow(y, x).title = y.categories[x].title
  BY DEF CategoryRow
<1>5. \A r \in TitlesFor(y, Made(k)) : r.id \in Made(k) /\ r.title = y.categories[r.id].title
  BY <1>3, <1>4
<1>6. CASE id \in Made(k)
  <2>1. CategoryRow(y, id) \in e.categories
    BY <1>3, <1>6
  <2>2. \A r \in e.categories : r.id = id => r.title = y.categories[id].title
    <3>1. id \in Synced(k)
      BY <1>6 DEF Synced, Made
    <3> QED
      BY <1>5, <3>1
  <2> QED
    BY <1>1, <1>2, <1>4, <1>6, <2>1, <2>2 DEF CategoryAgrees
<1>7. CASE id \in k.delete
  <2>1. id \notin DOMAIN y.categories /\ id \notin Made(k)
    BY <1>1, <1>7
  <2>2. \A r \in e.categories : r.id # id
    BY <1>3, <1>4, <1>7, <2>1 DEF Synced
  <2> QED
    BY <2>1, <2>2 DEF CategoryAgrees
<1>8. CASE id \notin Synced(k)
  <2>1. CategoryAgrees(y, d, id)
    BY <1>8, CategoryAgreement DEF Compares
  <2>2. \A r : r.id = id => (r \in e.categories <=> r \in d.categories)
    <3>1. id \notin Made(k)
      BY <1>8 DEF Synced, Made
    <3> QED
      BY <1>5, <1>8, <3>1
  <2> QED
    BY <1>2, <2>1, <2>2 DEF CategoryAgrees
<1> QED
  BY <1>6, <1>7, <1>8 DEF Synced, Made
(* Which part of Apply each table's last state comes from.                  *)
LEMMA PartsSame ==
  ASSUME NEW y, NEW plan, NEW d, NEW b1, NEW b2, NEW b3, NEW b4, NEW f, NEW e,
         Parts(y, plan, d, b1, b2, b3, b4, f, e), Typed(d)
  PROVE  /\ e.images = b1.images /\ \A t \in QuestionTables : e[t] = b2[t]
         /\ e.workbooks = b4.workbooks /\ e.workbookQuestions = b4.workbookQuestions
         /\ e.categories = b3.categories
         /\ b2.workbooks = d.workbooks /\ b2.categories = d.categories
         /\ \A r : r \in b3.workbookQuestions <=>
                     r \in d.workbookQuestions /\ r.question \notin plan.questions.delete
<1>1. Same(d, b1, {"images", "questionImages"}) /\ Same(b1, b2, QuestionTables \cup {"workbookQuestions"})
      /\ Same(b2, b3, CategoryTables) /\ Same(b3, b4, WorkbookTables)
      /\ \A r : r \in b2.workbookQuestions <=>
                  r \in b1.workbookQuestions /\ r.question \notin plan.questions.delete
  BY DEF Parts, ImagesDone, QuestionsDone, BooksDone
<1>2. e = [b4 EXCEPT !.seq = e.seq]
  BY DEF Parts, resetSequences
<1>3. DOMAIN b4 = TableNames \cup {"seq"}
  BY <1>1 DEF Same, Typed, AllTables, Shaped
<1>4. \A t \in TableNames : e[t] = b4[t]
  BY <1>2, <1>3 DEF TableNames, Serial
<1> QED
  BY <1>1, <1>4 DEF Same, TableNames, Serial, QuestionTables, CategoryTables, WorkbookTables
(* A run that writes the differences of a database leaves none.             *)
LEMMA SyncConverges ==
  ASSUME NEW y, DirectoryOK(y), validateReferences(y), Tidy(y),
         NEW d, Intact(FALSE, d), InPlace(d.workbookQuestions),
         NEW e, e \in applied(y, Plan(y, d), d)
  PROVE  Converged(y, e)
<1> DEFINE plan == Plan(y, d)
           i == plan["images"]
           q == plan["questions"]
           k == plan["categories"]
           p == plan["workbooks"]
<1>1. Typed(d) /\ ConstraintsHold(d)
  BY IntactIsTyped
<1>2. Compares(y, d, "images", i) /\ Compares(y, d, "questions", q)
      /\ Compares(y, d, "categories", k) /\ Compares(y, d, "workbooks", p)
  BY <1>1, PlanCompares DEF Tables
<1> HIDE DEF plan
<1>3. PlanFits(y, plan)
  BY <1>2 DEF PlanFits, Tables, Compares
<1>4. e \in applied(y, plan, d)
  BY DEF plan
<1>5. PICK b1, b2, b3, b4, f : Parts(y, plan, d, b1, b2, b3, b4, f, e)
  BY <1>1, <1>3, <1>4, AppliedInParts
<1>6. /\ e.images = b1.images /\ \A t \in QuestionTables : e[t] = b2[t]
      /\ e.workbooks = b4.workbooks /\ e.workbookQuestions = b4.workbookQuestions
      /\ e.categories = b3.categories
      /\ b2.workbooks = d.workbooks /\ b2.categories = d.categories
      /\ \A r : r \in b3.workbookQuestions <=> r \in d.workbookQuestions /\ r.question \notin q.delete
  BY <1>1, <1>5, PartsSame
<1>7. /\ ImagesDone(y, i, d, b1) /\ QuestionsDone(y, q, b1, b2) /\ b3 = applyCategories(y, k, b2)
      /\ SyncTables(b2) /\ BooksDone(y, p, f, b3, b4) /\ f \in buildCategoryMap(y)
      /\ ConstraintsHold(e)
  BY <1>5 DEF Parts
<1> HIDE DEF i, q, k, p
<1>8. CategoriesDone(y, k, b2, b3)
  <2>1. Fits(y, "categories", k)
    BY <1>2 DEF Compares
  <2>2. Made(k) \subseteq DOMAIN y.categories
    BY <2>1 DEF Fits, Made
  <2>3. Synced(k) \subseteq IdNumbers
    <3>1. DOMAIN y.categories \subseteq IdNumbers
      BY DEF DirectoryOK, Tables
    <3>2. Present(d)["categories"] \subseteq IdNumbers
      BY <1>1 DEF Present, IdsOf, Typed, NamedRows, IdRows
    <3> QED
      BY <1>2, <2>2, <3>1, <3>2 DEF Compares, Synced, Made
  <2>4. OneLister(y, k, Synced(k))
    <3> SUFFICES ASSUME NEW b \in Synced(k), NEW c \in Synced(k), NEW id, b \notin k.delete, c \notin k.delete,
                        Lists(y, b, id), Lists(y, c, id)
                 PROVE  b = c
      BY DEF OneLister
    <3>1. b \in DOMAIN y.categories /\ c \in DOMAIN y.categories
      BY <2>2 DEF Synced, Made
    <3> QED
      BY <3>1, ListedOnce
  <2>5. IdsOf(b2.categories) = Present(d)["categories"]
    BY <1>6 DEF Present
  <2>6. k.add \cap IdsOf(b2.categories) = {} /\ k.change \subseteq IdsOf(b2.categories)
    BY <1>2, <2>5 DEF Compares
  <2> QED
    BY <1>7, <2>1, <2>3, <2>4, <2>6, CategoriesWritten DEF IdsOf
<1>9. BooksMoved(y, k, q, p, f, d, b3, b4)
  BY <1>6, <1>7, <1>8 DEF BooksMoved, CategoriesDone
<1>10. BooksNow(y, k, p, f, d, b4)
  BY <1>2, <1>9, BookRow
<1>11. BooksNow(y, k, p, f, d, e)
  BY <1>6, <1>10 DEF BooksNow
<1>12. \A id : ImageAgrees(y, e, id)
  BY <1>1, <1>2, <1>6, <1>7, ImagesConverge
<1>13. \A id : QuestionAgrees(y, e, id)
  BY <1>1, <1>2, <1>6, <1>7, QuestionsConverge
<1>14. \A id : WorkbookAgrees(y, e, id)
  BY <1>1, <1>2, <1>6, <1>9, WorkbooksConverge
<1>15. \A r : r \in e.categories <=> \/ r \in d.categories /\ r.id \notin Synced(k)
                                     \/ r \in TitlesFor(y, Made(k))
  BY <1>6, <1>8 DEF CategoriesDone
<1>16. \A id : CategoryAgrees(y, e, id)
  BY <1>1, <1>2, <1>7, <1>11, <1>14, <1>15, CategoriesConverge
<1>17. \A id : Agrees(y, e, "images", id) /\ Agrees(y, e, "questions", id)
  BY <1>7, <1>12, <1>13, ImageAgreement, QuestionAgreement
<1>18. \A id : Agrees(y, e, "workbooks", id) /\ Agrees(y, e, "categories", id)
  BY <1>7, <1>14, <1>16, WorkbookAgreement, CategoryAgreement
<1> QED
  BY <1>17, <1>18 DEF Converged, Tables
-----------------------------------------------------------------------------
(* Seeding implements Reconciler.  The mapping, as functions of a database  *)
(* and of a run; answers of the plan's queries and plans as functions of a  *)
(* database and of answers.                                                 *)
Answer(d, n) ==
  CASE n = 1 -> loadImagesDB(d)     [] n = 2 -> QuestionTexts(d)
    [] n = 3 -> QuestionChoices(d)  [] n = 4 -> QuestionImageIds(d)
    [] n = 5 -> WorkbookTitles(d)   [] n = 6 -> WorkbookQuestionIds(d)
    [] n = 7 -> CategoryTitles(d)   [] n = 8 -> CategoryWorkbookIds(d)
PlanBy(y, r, t) ==
  CASE t = "images"     -> planImages(y, r[1])
    [] t = "questions"  -> planQuestions(y, loadQuestionsDB(r[2], r[3], r[4]))
    [] t = "workbooks"  -> planWorkbooks(y, loadWorkbooksDB(r[5], r[6]))
    [] t = "categories" -> planCategories(y, loadCategoriesDB(r[7], r[8]))
ContentsOf(d) == [k \in Keys |-> Under(StoredRows(d)[k[1]], k[2])]
SyncingOf(t) == t.kind = "sync" /\ t.data = Yaml /\ t.stage \in {"plan", "done"}
FailedOf(t) == t.kind = "sync" /\ t.data = Yaml /\ t.stage = "failed"
StageOf(t) ==
  CASE FailedOf(t) -> "failed"
    [] SyncingOf(t) /\ t.stage = "plan" -> "comparing"
    [] SyncingOf(t) /\ t.stage = "done" -> "done"
    [] OTHER -> "idle"
ComparedOf(t) == {x \in Tables : Len(t.read) >= TablesAfter[x]}
SeenOf(t) == IF SyncingOf(t) THEN {k \in Keys : k[1] \in ComparedOf(t)} ELSE {}
KeysOf(t, x) == {x} \X (Synced(PlanBy(t.data, t.read, x)) \cap 1 .. MaxId)
PlannedOf(t) == IF SyncingOf(t) THEN UNION {KeysOf(t, x) : x \in ComparedOf(t)} ELSE {}
AloneOf(t) == SyncingOf(t) /\ t.clean
LEMMA PlanOfTool == ASSUME NEW t PROVE PlanOf(t) = PlanBy(tool.data, tool.read, t)
BY DEF PlanOf, PlanBy
LEMMA PlanOfToolNext == ASSUME NEW t PROVE PlanOf(t)' = PlanBy(tool'.data, tool'.read, t)
BY DEF PlanOf, PlanBy
LEMMA KeysOfTool == ASSUME NEW t PROVE KeysIn(t) = KeysOf(tool, t)
BY PlanOfTool DEF KeysIn, KeysOf, Differing, Synced
LEMMA KeysOfToolNext == ASSUME NEW t PROVE KeysIn(t)' = KeysOf(tool', t)
BY PlanOfToolNext DEF KeysIn, KeysOf, Differing, Synced
LEMMA MappingNow ==
  /\ Contents = ContentsOf(db) /\ Stage = StageOf(tool) /\ Seen = SeenOf(tool)
  /\ PlannedKeys = PlannedOf(tool) /\ Alone = AloneOf(tool)
<1>1. Contents = ContentsOf(db)
  BY DEF Contents, ContentsOf
<1>2. Syncing <=> SyncingOf(tool)
  BY DEF Syncing, SyncingOf
<1>3. Stage = StageOf(tool)
  BY <1>2 DEF Stage, StageOf, FailedOf
<1>4. Compared = ComparedOf(tool)
  BY DEF Compared, ComparedOf
<1>5. Seen = SeenOf(tool)
  BY <1>2, <1>4 DEF Seen, SeenOf
<1>6. PlannedKeys = PlannedOf(tool)
  BY <1>2, <1>4, KeysOfTool DEF PlannedKeys, PlannedOf
<1>7. Alone = AloneOf(tool)
  BY <1>2 DEF Alone, AloneOf
<1> QED
  BY <1>1, <1>3, <1>5, <1>6, <1>7
LEMMA MappingNext ==
  /\ Contents' = ContentsOf(db') /\ Stage' = StageOf(tool') /\ Seen' = SeenOf(tool')
  /\ PlannedKeys' = PlannedOf(tool') /\ Alone' = AloneOf(tool')
<1>1. Contents' = ContentsOf(db')
  BY DEF Contents, ContentsOf
<1>2. Syncing' <=> SyncingOf(tool')
  BY DEF Syncing, SyncingOf
<1>3. Stage' = StageOf(tool')
  BY <1>2 DEF Stage, StageOf, FailedOf
<1>4. Compared' = ComparedOf(tool')
  BY DEF Compared, ComparedOf
<1>5. Seen' = SeenOf(tool')
  BY <1>2, <1>4 DEF Seen, SeenOf
<1>6. PlannedKeys' = PlannedOf(tool')
  BY <1>2, <1>4, KeysOfToolNext DEF PlannedKeys, PlannedOf
<1>7. Alone' = AloneOf(tool')
  BY <1>2 DEF Alone, AloneOf
<1> QED
  BY <1>1, <1>3, <1>5, <1>6, <1>7
(* The plan of a sync of Yaml beside which nobody writes: of the tables     *)
(* compared so far, the keys whose content is not the goal.                 *)
Answers(read, d) == \A i \in 1 .. Len(read) : read[i] = Answer(d, i)
LEMMA ReadsMean ==
  ASSUME NEW y, NEW d, NEW r, Answers(r, d), Len(r) \in Nat, NEW t \in Tables, Len(r) >= TablesAfter[t]
  PROVE  PlanBy(y, r, t) = Plan(y, d)[t]
<1>1. \A i \in 1 .. TablesAfter[t] : r[i] = Answer(d, i)
  BY DEF Answers, TablesAfter, Tables
<1>2. CASE t = "images"
  <2>1. r[1] = loadImagesDB(d)
    BY <1>1, <1>2 DEF TablesAfter, Answer
  <2> QED
    BY <1>2, <2>1 DEF PlanBy, Plan
<1>3. CASE t = "questions"
  <2>1. r[2] = QuestionTexts(d) /\ r[3] = QuestionChoices(d) /\ r[4] = QuestionImageIds(d)
    BY <1>1, <1>3 DEF TablesAfter, Answer
  <2> QED
    BY <1>3, <2>1 DEF PlanBy, Plan
<1>4. CASE t = "workbooks"
  <2>1. r[5] = WorkbookTitles(d) /\ r[6] = WorkbookQuestionIds(d)
    BY <1>1, <1>4 DEF TablesAfter, Answer
  <2> QED
    BY <1>4, <2>1 DEF PlanBy, Plan
<1>5. CASE t = "categories"
  <2>1. r[7] = CategoryTitles(d) /\ r[8] = CategoryWorkbookIds(d)
    BY <1>1, <1>5 DEF TablesAfter, Answer
  <2> QED
    BY <1>5, <2>1 DEF PlanBy, Plan
<1> QED
  BY <1>2, <1>3, <1>4, <1>5 DEF Tables
LEMMA KeyMeans ==
  ASSUME NEW d, NEW k \in Keys
  PROVE  Agrees(Yaml, d, k[1], k[2]) <=> ContentsOf(d)[k] = Target[k]
<1>1. k[1] \in Tables
  BY DEF Keys
<1>2. DirectoryOK(Yaml) /\ Tidy(Yaml)
  BY SeedingAssumption
<1>3. Agrees(Yaml, d, k[1], k[2]) <=> Under(StoredRows(d)[k[1]], k[2]) = Wanted(Yaml, k[1], k[2])
  BY <1>1, <1>2, AgreesMeans
<1> QED
  BY <1>3 DEF ContentsOf, Target
LEMMA PlannedMeans ==
  ASSUME NEW t, SyncingOf(t), NEW d, Answers(t.read, d), Len(t.read) \in Nat, NEW k
  PROVE  k \in PlannedOf(t) <=> k \in SeenOf(t) /\ ContentsOf(d)[k] # Target[k]
<1>1. t.data = Yaml
  BY DEF SyncingOf
<1>2. \A x \in ComparedOf(t) : x \in Tables /\ PlanBy(Yaml, t.read, x) = Plan(Yaml, d)[x]
  BY ReadsMean DEF ComparedOf
<1>3. k \in PlannedOf(t) <=> \E x \in ComparedOf(t) : k \in {x} \X (Synced(Plan(Yaml, d)[x]) \cap 1 .. MaxId)
  BY <1>1, <1>2 DEF PlannedOf, KeysOf
<1>4. k \in SeenOf(t) <=> k \in Keys /\ k[1] \in ComparedOf(t)
  BY DEF SeenOf
<1>5. ASSUME NEW x \in ComparedOf(t), k \in {x} \X (Synced(Plan(Yaml, d)[x]) \cap 1 .. MaxId)
      PROVE  k \in SeenOf(t) /\ ContentsOf(d)[k] # Target[k]
  <2>1. k \in Keys /\ k[1] = x /\ k[2] \in Synced(Plan(Yaml, d)[x])
    BY <1>2, <1>5 DEF Keys
  <2>2. ~Agrees(Yaml, d, k[1], k[2])
    BY <1>2, <2>1, PlanNames
  <2> QED
    BY <1>4, <2>1, <2>2, KeyMeans
<1>6. ASSUME k \in SeenOf(t), ContentsOf(d)[k] # Target[k]
      PROVE  k \in PlannedOf(t)
  <2> DEFINE x == k[1]
             id == k[2]
  <2>1. k \in Keys /\ x \in ComparedOf(t) /\ x \in Tables /\ id \in 1 .. MaxId /\ k = <<x, id>>
    BY <1>4, <1>6 DEF Keys
  <2>2. ~Agrees(Yaml, d, x, id)
    BY <1>6, <2>1, KeyMeans
  <2> HIDE DEF x, id
  <2>3. id \in Synced(Plan(Yaml, d)[x])
    BY <2>1, <2>2, PlanNames
  <2> QED
    BY <1>3, <2>1, <2>3
<1> QED
  BY <1>3, <1>5, <1>6
(* What is stored depends on the tables, not on the sequences.              *)
LEMMA SequencesAside ==
  ASSUME NEW d, NEW e, \A t \in TableNames : e[t] = d[t]
  PROVE  ContentsOf(e) = ContentsOf(d)
<1>1. /\ e.images = d.images /\ e.questions = d.questions /\ e.singleChoices = d.singleChoices
      /\ e.choices = d.choices /\ e.questionImages = d.questionImages /\ e.workbooks = d.workbooks
      /\ e.workbookQuestions = d.workbookQuestions /\ e.categories = d.categories
  BY DEF TableNames, Serial
<1>2. loadImagesDB(e) = loadImagesDB(d)
  BY <1>1 DEF loadImagesDB
<1>3. \A q : RowsOf(e, q) = RowsOf(d, q) /\ GetChoicesByQuestionID(e, q) = GetChoicesByQuestionID(d, q)
  BY <1>1 DEF RowsOf, GetQuestionByID, GetChoicesByQuestionID
<1>4. QuestionImageIds(e) = QuestionImageIds(d)
  BY <1>1 DEF QuestionImageIds
<1>5. WorkbookTitles(e) = WorkbookTitles(d) /\ WorkbookQuestionIds(e) = WorkbookQuestionIds(d)
  BY <1>1 DEF WorkbookTitles, WorkbookQuestionIds
<1>6. CategoryTitles(e) = CategoryTitles(d) /\ CategoryWorkbookIds(e) = CategoryWorkbookIds(d)
  BY <1>1 DEF CategoryTitles, CategoryWorkbookIds
<1> DEFINE Reading(b, q) == LET cs == GetChoicesByQuestionID(b, q)
                            IN  [text |-> RowsOf(b, q).text, choices |-> [i \in DOMAIN cs |-> cs[i].text],
                                 correct |-> FirstCorrect(cs), images |-> QuestionImageIds(b)[q]]
<1>7. \A q : Reading(e, q) = Reading(d, q)
  BY <1>3, <1>4
<1>8. StoredRows(e).questions = [q \in e.questions |-> Reading(e, q)]
      /\ StoredRows(d).questions = [q \in d.questions |-> Reading(d, q)]
  BY DEF StoredRows
<1> HIDE DEF Reading
<1>9. StoredRows(e).questions = StoredRows(d).questions
  BY <1>1, <1>7, <1>8
<1>10. /\ StoredRows(e).images = StoredRows(d).images /\ StoredRows(e).workbooks = StoredRows(d).workbooks
       /\ StoredRows(e).categories = StoredRows(d).categories
  BY <1>2, <1>5, <1>6 DEF StoredRows
<1>11. \A t \in Tables : StoredRows(e)[t] = StoredRows(d)[t]
  BY <1>9, <1>10 DEF Tables
<1> QED
  BY <1>11 DEF ContentsOf, Keys
-----------------------------------------------------------------------------
(* What a sync beside which nobody writes has read is still so, and what    *)
(* it leaves agrees with its data directory.                                *)
SyncClaims(t, d) ==
  /\ t.stage \in Phases => t.kind = "import"
  /\ t.kind = "sync" /\ t.stage \in {"plan", "done"} => validateReferences(t.data)
  /\ t.stage = "plan" /\ t.clean => InPlace(d.workbookQuestions) /\ Answers(t.read, d)
  /\ t.kind = "sync" /\ t.stage = "done" /\ t.clean /\ Tidy(t.data) => Converged(t.data, d)
SyncInvariant == SchemaInvariant /\ SyncClaims(tool, db)
(* The fields of the run after each step.                                   *)
Runs(t, kind, data, read, clean, at) ==
  /\ t.kind = kind /\ t.data = data /\ t.read = read /\ t.clean = clean /\ t.stage = at
LEMMA RunFields ==
  ASSUME ToolOK
  PROVE  DOMAIN tool = {"kind", "stage", "data", "read", "todo", "attempt", "clean"}
BY DEF ToolOK, None
LEMMA FailedRun == Runs(Failed, tool.kind, tool.data, << >>, FALSE, "failed")
BY DEF Failed, None, Runs
LEMMA EndedRun ==
  ASSUME ToolOK
  PROVE  Runs(Ended("done"), tool.kind, tool.data, tool.read, tool.clean, "done")
BY RunFields DEF Ended, Runs
LEMMA EditedRun ==
  ASSUME ToolOK, EditContent
  PROVE  Runs(tool', tool.kind, tool.data, tool.read, FALSE, tool.stage)
<1>1. tool' = [tool EXCEPT !.clean = FALSE]
  BY DEF EditContent, Edit
<1> QED
  BY <1>1, RunFields DEF Runs
LEMMA ImportingRun ==
  ASSUME ToolOK, RunInTx \/ NoFiles \/ ConnectionLost
  PROVE  /\ tool.stage \in Phases
         /\ \/ Runs(tool', tool.kind, tool.data, tool.read, tool.clean, tool.stage)
            \/ Runs(tool', tool.kind, tool.data, tool.read, tool.clean, Following[tool.stage])
            \/ tool' = Failed
<1>1. tool.stage \in Phases
  BY DEF RunInTx, NoFiles, ConnectionLost
<1>2. Runs(Entering(tool, Following[tool.stage]), tool.kind, tool.data, tool.read, tool.clean, Following[tool.stage])
  BY RunFields DEF Entering, Runs
<1>3. Runs([tool EXCEPT !.todo = @ \ {File}, !.attempt = 0], tool.kind, tool.data, tool.read, tool.clean, tool.stage)
  BY RunFields DEF Runs
<1>4. Runs([tool EXCEPT !.attempt = @ + 1], tool.kind, tool.data, tool.read, tool.clean, tool.stage)
  BY RunFields DEF Runs
<1> QED
  BY <1>1, <1>2, <1>3, <1>4 DEF RunInTx, NoFiles, ConnectionLost, AfterFile
LEMMA LaterStages == ASSUME NEW stg \in Phases PROVE Following[stg] \in Phases \cup {"done"}
BY DEF Following, Phases
LEMMA StartedRun ==
  ASSUME NEW y, StartSync(y) \/ StartImport(y, "clear") \/ StartImport(y, "workbooks")
  PROVE  /\ db' = db
         /\ \/ StartSync(y) /\ ~AtWork /\ validateReferences(y)
               /\ Runs(tool', "sync", y, << >>, InPlace(db.workbookQuestions), "plan")
            \/ ~validateReferences(y) /\ Runs(tool', "sync", y, << >>, InPlace(db.workbookQuestions), "failed")
            \/ tool'.kind = "import" /\ tool'.stage \in Phases /\ tool'.read = << >>
<1>1. CASE StartSync(y)
  <2>1. tool' = [None EXCEPT !.kind = "sync", !.data = y, !.clean = InPlace(db.workbookQuestions),
                             !.stage = IF validateReferences(y) THEN "plan" ELSE "failed"]
    BY <1>1 DEF StartSync, Start
  <2>2. Runs(tool', "sync", y, << >>, InPlace(db.workbookQuestions), IF validateReferences(y) THEN "plan" ELSE "failed")
    BY <2>1 DEF None, Runs
  <2> QED
    BY <1>1, <2>2 DEF StartSync, Start
<1>2. ASSUME NEW first \in {"clear", "workbooks"}, StartImport(y, first)
      PROVE  db' = db /\ tool'.kind = "import" /\ tool'.stage \in Phases /\ tool'.read = << >>
  BY <1>2 DEF StartImport, Start, Entering, None, Phases
<1> QED
  BY <1>1, <1>2
LEMMA QueriedRun ==
  ASSUME ToolOK, PlanQuery
  PROVE  /\ tool.stage = "plan" /\ db' = db
         /\ Runs(tool', tool.kind, tool.data, Append(tool.read, Answer(db, Len(tool.read) + 1)), tool.clean, "plan")
         /\ Len(tool.read) \in 0 .. 7 /\ Len(tool'.read) = Len(tool.read) + 1
         /\ Answers(tool.read, db) => Answers(tool'.read, db)
<1> DEFINE r == tool.read
           n == Len(r)
<1>1. Query(n + 1) = Answer(db, n + 1)
  BY DEF Query, Answer
<1>2. tool' = [tool EXCEPT !.read = Append(@, Answer(db, n + 1))] /\ tool.stage = "plan" /\ db' = db /\ n < 8
  BY <1>1 DEF PlanQuery, Queries
<1>3. Runs(tool', tool.kind, tool.data, Append(r, Answer(db, n + 1)), tool.clean, "plan")
  BY <1>2, RunFields DEF Runs
<1>4. n \in 0 .. 7 /\ IsSequence(r)
  <2>1. n \in 0 .. 8 /\ IsSequence(r)
    BY DEF ToolOK, Queried, Queries
  <2>2. n < 8
    BY <1>2
  <2> HIDE DEF n
  <2>3. n \in 0 .. 7
    BY <2>1, <2>2
  <2> QED
    BY <2>1, <2>3
<1> DEFINE a == Answer(db, n + 1)
<1> HIDE DEF a
<1>5. /\ Len(Append(r, a)) = n + 1 /\ Append(r, a)[n + 1] = a
      /\ \A i \in 1 .. n : Append(r, a)[i] = r[i]
  <2> DEFINE S == {r[i] : i \in DOMAIN r} \cup {a}
  <2>1. r \in Seq(S) /\ a \in S
    BY <1>4 DEF IsSequence
  <2> QED
    BY <1>4, <2>1, AppendProperties
<1>6. ASSUME Answers(r, db) PROVE Answers(Append(r, a), db)
  <2>1. \A i \in 1 .. n : Append(r, a)[i] = Answer(db, i)
    BY <1>5, <1>6 DEF Answers
  <2>2. \A i \in 1 .. n + 1 : i = n + 1 \/ i \in 1 .. n
    BY <1>4
  <2> QED
    BY <1>5, <2>1, <2>2 DEF Answers, a
<1>7. tool'.read = Append(r, a)
  BY <1>3 DEF Runs, a
<1> QED
  BY <1>2, <1>3, <1>4, <1>5, <1>6, <1>7
LEMMA SyncWrites ==
  ASSUME SyncInvariant, Planned, tool.clean
  PROVE  /\ \A t \in Tables : PlanOf(t) = Plan(tool.data, db)[t]
         /\ Outcomes = applied(tool.data, Plan(tool.data, db), db)
         /\ Changing <=> \E t \in Tables : HasChanges(Plan(tool.data, db)[t])
<1> DEFINE y == tool.data
<1>1. tool.stage = "plan" /\ Len(tool.read) = 8 /\ Answers(tool.read, db)
  BY DEF Planned, Queries, SyncInvariant, SyncClaims
<1>2. \A t \in Tables : Len(tool.read) >= TablesAfter[t]
  BY <1>1 DEF TablesAfter, Tables
<1>3. ASSUME NEW t \in Tables PROVE PlanOf(t) = Plan(y, db)[t]
  <2> DEFINE r == tool.read
  <2>2. Answers(r, db) /\ Len(r) \in Nat /\ Len(r) >= TablesAfter[t]
    BY <1>1, <1>2
  <2> HIDE DEF y, r
  <2>3. PlanBy(y, r, t) = Plan(y, db)[t]
    BY <2>2, ReadsMean
  <2>1. PlanBy(y, tool.read, t) = Plan(y, db)[t]
    BY <2>3 DEF r
  <2> QED
    BY <2>1, PlanOfTool DEF y
<1>4. Plan(y, db) = [t \in Tables |-> Plan(y, db)[t]]
  BY DEF Plan, Tables
<1> HIDE DEF y
<1>5. [t \in Tables |-> PlanOf(t)] = Plan(y, db)
  BY <1>3, <1>4
<1>6. Compared = Tables
  BY <1>2 DEF Compared
<1> QED
  BY <1>3, <1>5, <1>6 DEF Outcomes, Changing, y
LEMMA SyncReaches ==
  ASSUME SyncInvariant, Planned, tool.clean, Tidy(tool.data),
         NEW e, (~Changing /\ e = db) \/ e \in Outcomes
  PROVE  Converged(tool.data, e)
<1>1. DirectoryOK(tool.data) /\ tool.kind = "sync" /\ tool.stage = "plan" /\ Intact(FALSE, db)
  BY SeedingAssumption DEF Planned, SyncInvariant, SchemaInvariant, SeedingInvariant, ToolOK
<1>2. validateReferences(tool.data) /\ InPlace(db.workbookQuestions)
  BY <1>1 DEF SyncInvariant, SyncClaims
<1>3. CASE ~Changing /\ e = db
  BY <1>3, SyncWrites, InSyncMeans DEF InSync
<1>4. CASE e \in Outcomes
  BY <1>1, <1>2, <1>4, SyncWrites, SyncConverges
<1> QED
  BY <1>3, <1>4
LEMMA SyncInit == Init => SyncInvariant
<1> SUFFICES ASSUME Init PROVE SyncInvariant
  OBVIOUS
<1>1. tool.kind = "none" /\ tool.stage = "idle"
  BY DEF Init, None
<1> QED
  BY <1>1, SchemaInit DEF SyncInvariant, SyncClaims, Phases
LEMMA SyncStep == SyncInvariant /\ [Next]_vars => SyncInvariant'
<1> SUFFICES ASSUME SyncInvariant, [Next]_vars PROVE SyncInvariant'
  OBVIOUS
<1>1. SchemaInvariant' /\ ToolOK /\ SyncClaims(tool, db)
  BY SchemaStep DEF SyncInvariant, SchemaInvariant, SeedingInvariant
<1> SUFFICES SyncClaims(tool', db')
  BY <1>1 DEF SyncInvariant
<1>2. CASE \E y \in Data : StartSync(y) \/ StartImport(y, "clear") \/ StartImport(y, "workbooks")
  <2>1. Answers(<< >>, db)
    BY DEF Answers
  <2> QED
    BY <1>2, <2>1, StartedRun DEF Runs, SyncClaims, Phases
<1>3. CASE PlanQuery
  BY <1>1, <1>3, QueriedRun DEF Runs, SyncClaims, Phases
<1>4. CASE Apply
  <2>1. CASE tool' = Failed
    BY <2>1, FailedRun DEF Runs, SyncClaims, Phases
  <2>2. CASE tool' # Failed
    <3>1. tool' = Ended("done") /\ Planned /\ ((~Changing /\ db' = db) \/ db' \in Outcomes)
      BY <1>4, <2>2 DEF Apply
    <3>2. tool.clean /\ Tidy(tool.data) => Converged(tool.data, db')
      BY <3>1, SyncReaches
    <3>3. tool.stage = "plan"
      BY <3>1 DEF Planned
    <3> QED
      BY <1>1, <3>1, <3>2, <3>3, EndedRun DEF Runs, SyncClaims, Phases
  <2> QED
    BY <2>1, <2>2
<1>5. CASE CommitFails \/ Killed
  <2>1. tool' = Failed
    BY <1>5 DEF CommitFails, Killed
  <2> QED
    BY <2>1, FailedRun DEF Runs, SyncClaims, Phases
<1>6. CASE RunInTx \/ NoFiles \/ ConnectionLost
  <2>1. tool.kind = "import" /\ Following[tool.stage] \in Phases \cup {"done"} /\ tool.stage \in Phases
    BY <1>1, <1>6, ImportingRun, LaterStages DEF SyncClaims
  <2>2. tool'.kind = "import" /\ tool'.stage # "plan"
    BY <1>1, <1>6, <2>1, ImportingRun, FailedRun DEF Runs, Phases
  <2> QED
    BY <2>2 DEF SyncClaims
<1>7. CASE EditContent
  BY <1>1, <1>7, EditedRun DEF Runs, SyncClaims
<1>8. CASE UNCHANGED vars
  BY <1>1, <1>8 DEF vars
<1> QED
  BY <1>2, <1>3, <1>4, <1>5, <1>6, <1>7, <1>8 DEF Next
(* The steps of Reconciler in terms of the functions.                       *)
LEMMA Off ==
  ASSUME NEW t, ~SyncingOf(t)
  PROVE  /\ SeenOf(t) = {} /\ PlannedOf(t) = {} /\ ~AloneOf(t)
         /\ StageOf(t) = IF FailedOf(t) THEN "failed" ELSE "idle"
BY DEF SeenOf, PlannedOf, AloneOf, StageOf
LEMMA On ==
  ASSUME NEW t, SyncingOf(t)
  PROVE  StageOf(t) = IF t.stage = "plan" THEN "comparing" ELSE "done"
BY DEF SyncingOf, StageOf, FailedOf
LEMMA PlannedIsSeen ==
  ASSUME NEW t
  PROVE  SeenOf(t) \subseteq Keys /\ PlannedOf(t) \subseteq SeenOf(t)
<1>1. CASE SyncingOf(t)
  <2>1. ASSUME NEW x \in ComparedOf(t), NEW k \in KeysOf(t, x) PROVE k \in Keys /\ k[1] = x
    BY <2>1 DEF ComparedOf, KeysOf, Keys
  <2>2. PlannedOf(t) = UNION {KeysOf(t, x) : x \in ComparedOf(t)}
    BY <1>1 DEF PlannedOf
  <2> QED
    BY <1>1, <2>1, <2>2 DEF SeenOf
<1>2. CASE ~SyncingOf(t)
  BY <1>2, Off
<1> QED
  BY <1>1, <1>2
LEMMA SameRun ==
  ASSUME NEW t, NEW u, u.kind = t.kind, u.data = t.data, u.read = t.read,
         u.stage = t.stage \/ {u.stage, t.stage} \subseteq {"plan", "done"}
  PROVE  /\ SyncingOf(u) <=> SyncingOf(t)
         /\ SeenOf(u) = SeenOf(t) /\ PlannedOf(u) = PlannedOf(t)
<1>1. SyncingOf(u) <=> SyncingOf(t)
  BY DEF SyncingOf
<1>2. ComparedOf(u) = ComparedOf(t) /\ \A x : KeysOf(u, x) = KeysOf(t, x)
  BY DEF ComparedOf, KeysOf
<1> QED
  BY <1>1, <1>2 DEF SeenOf, PlannedOf
LEMMA Fails ==
  ASSUME StageOf(tool') = "failed",
         ContentsOf(db') = ContentsOf(db) \/ (StageOf(tool) = "comparing" /\ Abstract!Written)
  PROVE  Abstract!Next
<1>1. ~SyncingOf(tool')
  BY DEF SyncingOf, StageOf, FailedOf
<1>2. SeenOf(tool') = {} /\ PlannedOf(tool') = {} /\ ~AloneOf(tool')
  BY <1>1, Off
<1>3. Abstract!Fail
  BY <1>2, MappingNow, MappingNext DEF Abstract!Fail
<1> QED
  BY <1>3 DEF Abstract!Next
LEMMA Disturbs ==
  ASSUME ~AloneOf(tool'), StageOf(tool') \in {StageOf(tool), "idle"},
         \/ SeenOf(tool') = SeenOf(tool) /\ PlannedOf(tool') = PlannedOf(tool)
         \/ StageOf(tool') = "idle" /\ SeenOf(tool') = {} /\ PlannedOf(tool') = {}
  PROVE  Abstract!Next
<1>1. DOMAIN ContentsOf(db') = Keys
  BY DEF ContentsOf
<1>2. Abstract!Disturb
  BY <1>1, MappingNow, MappingNext DEF Abstract!Disturb
<1> QED
  BY <1>2 DEF Abstract!Next
LEMMA Stutters ==
  ASSUME ContentsOf(db') = ContentsOf(db), StageOf(tool') = StageOf(tool), SeenOf(tool') = SeenOf(tool),
         PlannedOf(tool') = PlannedOf(tool), AloneOf(tool') = AloneOf(tool)
  PROVE  UNCHANGED Abstract!vars
BY MappingNow, MappingNext DEF Abstract!vars
(* A step that ends in neither a plan, an outcome nor a failure of a sync   *)
(* of Yaml disturbs.                                                        *)
LEMMA Others ==
  ASSUME ~SyncingOf(tool'), ~FailedOf(tool')
  PROVE  Abstract!Next
BY Off, Disturbs
LEMMA StartReconciles ==
  ASSUME NEW y, StartSync(y) \/ StartImport(y, "clear") \/ StartImport(y, "workbooks")
  PROVE  Abstract!Next
<1>1. CASE tool'.kind = "import"
  BY <1>1, Others DEF SyncingOf, FailedOf
<1>2. CASE Runs(tool', "sync", y, << >>, InPlace(db.workbookQuestions), "failed")
  <2>1. CASE y = Yaml
    BY <1>2, <2>1, StartedRun, Fails DEF Runs, StageOf, FailedOf
  <2>2. CASE y # Yaml
    BY <1>2, <2>2, Others DEF Runs, SyncingOf, FailedOf
  <2> QED
    BY <2>1, <2>2
<1>3. CASE ~AtWork /\ Runs(tool', "sync", y, << >>, InPlace(db.workbookQuestions), "plan")
  <2>1. CASE y # Yaml
    BY <1>3, <2>1, Others DEF Runs, SyncingOf, FailedOf
  <2>2. CASE y = Yaml
    <3>1. SyncingOf(tool') /\ StageOf(tool') = "comparing" /\ tool'.read = << >>
      BY <1>3, <2>2, On DEF Runs, SyncingOf
    <3>2. ComparedOf(tool') = {}
      BY <3>1 DEF ComparedOf, TablesAfter, Tables
    <3>3. SeenOf(tool') = {} /\ PlannedOf(tool') = {}
      BY <3>2 DEF SeenOf, PlannedOf
    <3>4. tool.stage # "plan"
      BY <1>3 DEF AtWork
    <3>5. StageOf(tool) # "comparing"
      BY <3>4 DEF StageOf, FailedOf
    <3>6. AloneOf(tool') \in BOOLEAN
      BY DEF AloneOf
    <3>7. ContentsOf(db') = ContentsOf(db)
      BY StartedRun
    <3>8. Abstract!Start
      BY <3>1, <3>3, <3>5, <3>6, <3>7, MappingNow, MappingNext DEF Abstract!Start
    <3> QED
      BY <3>8 DEF Abstract!Next
  <2> QED
    BY <2>1, <2>2
<1> QED
  BY <1>1, <1>2, <1>3, StartedRun
LEMMA QueryReconciles ==
  ASSUME SyncInvariant, PlanQuery
  PROVE  Abstract!Next \/ UNCHANGED Abstract!vars
<1>1. ToolOK /\ SyncClaims(tool, db)
  BY DEF SyncInvariant, SchemaInvariant, SeedingInvariant
<1>2. /\ tool'.kind = tool.kind /\ tool'.data = tool.data /\ tool'.clean = tool.clean
      /\ tool.stage = "plan" /\ tool'.stage = "plan" /\ db' = db
      /\ Len(tool.read) \in 0 .. 7 /\ Len(tool'.read) = Len(tool.read) + 1
      /\ Answers(tool.read, db) => Answers(tool'.read, db)
  BY <1>1, QueriedRun DEF Runs
<1>3. CASE ~SyncingOf(tool)
  <2>1. ~SyncingOf(tool') /\ StageOf(tool') = StageOf(tool)
    BY <1>2, <1>3, Off DEF SyncingOf, FailedOf
  <2>2. AloneOf(tool') = AloneOf(tool)
    BY <1>3, <2>1 DEF AloneOf
  <2> QED
    BY <1>2, <1>3, <2>1, <2>2, Off, Stutters
<1>4. CASE SyncingOf(tool)
  <2>1. SyncingOf(tool') /\ AloneOf(tool') = AloneOf(tool)
    BY <1>2, <1>4 DEF SyncingOf, AloneOf
  <2>2. StageOf(tool) = "comparing" /\ StageOf(tool') = "comparing"
    BY <1>2, <1>4, <2>1, On
  <2>3. ComparedOf(tool) \subseteq ComparedOf(tool')
    BY <1>2 DEF ComparedOf, TablesAfter, Tables
  <2>4. SeenOf(tool) \subseteq SeenOf(tool')
    BY <1>4, <2>1, <2>3 DEF SeenOf
  <2>5. SeenOf(tool') \subseteq Keys /\ PlannedOf(tool') \subseteq SeenOf(tool')
    BY PlannedIsSeen
  <2>6. ASSUME AloneOf(tool)
        PROVE  PlannedOf(tool') = PlannedOf(tool) \cup
                 {k \in SeenOf(tool') \ SeenOf(tool) : ContentsOf(db)[k] # Target[k]}
    <3>1. Answers(tool.read, db) /\ Answers(tool'.read, db)
      BY <1>1, <1>2, <2>6 DEF AloneOf, SyncClaims
    <3>2. Len(tool.read) \in Nat /\ Len(tool'.read) \in Nat
      BY <1>2
    <3>3. ASSUME NEW k PROVE k \in PlannedOf(tool) <=> k \in SeenOf(tool) /\ ContentsOf(db)[k] # Target[k]
      BY <1>4, <3>1, <3>2, PlannedMeans
    <3>4. ASSUME NEW k PROVE k \in PlannedOf(tool') <=> k \in SeenOf(tool') /\ ContentsOf(db)[k] # Target[k]
      BY <2>1, <3>1, <3>2, PlannedMeans
    <3> QED
      BY <2>4, <3>3, <3>4
  <2>7. ContentsOf(db') = ContentsOf(db)
    BY <1>2
  <2>8. Abstract!Compare
    BY <2>1, <2>2, <2>4, <2>5, <2>6, <2>7, MappingNow, MappingNext DEF Abstract!Compare
  <2> QED
    BY <2>8 DEF Abstract!Next
<1> QED
  BY <1>3, <1>4
LEMMA FailedSync ==
  ASSUME tool.kind = "sync", tool' = Failed, ContentsOf(db') = ContentsOf(db)
  PROVE  Abstract!Next
<1>1. CASE tool.data = Yaml
  BY <1>1, FailedRun, Fails DEF Runs, StageOf, FailedOf
<1>2. CASE tool.data # Yaml
  BY <1>2, FailedRun, Others DEF Runs, SyncingOf, FailedOf
<1> QED
  BY <1>1, <1>2
(* What the transaction of a sync of Yaml writes.                           *)
LEMMA SyncWritten ==
  ASSUME SyncInvariant, Planned, SyncingOf(tool), (~Changing /\ db' = db) \/ db' \in Outcomes
  PROVE  StageOf(tool) = "comparing" /\ Abstract!Written
<1>1. ToolOK /\ SyncClaims(tool, db) /\ tool.stage = "plan" /\ Len(tool.read) = 8
  BY DEF SyncInvariant, SchemaInvariant, SeedingInvariant, Planned, Queries
<1>2. StageOf(tool) = "comparing"
  BY <1>1, On
<1>3. SeenOf(tool) = Keys
  <2>1. ComparedOf(tool) = Tables
    BY <1>1 DEF ComparedOf, TablesAfter, Tables
  <2> QED
    BY <2>1 DEF SeenOf, Keys
<1>4. DOMAIN ContentsOf(db') = Keys
  BY DEF ContentsOf
<1>5. ASSUME AloneOf(tool), NEW k \in Keys
      PROVE  ContentsOf(db')[k] = IF k \in PlannedOf(tool) THEN Target[k] ELSE ContentsOf(db)[k]
  <2>1. tool.clean /\ tool.data = Yaml /\ Tidy(Yaml) /\ Answers(tool.read, db)
    BY <1>1, <1>5, SeedingAssumption DEF AloneOf, SyncingOf, SyncClaims
  <2>2. Converged(Yaml, db')
    BY <2>1, SyncReaches
  <2>3. k[1] \in Tables
    BY DEF Keys
  <2>4. ContentsOf(db')[k] = Target[k]
    BY <2>2, <2>3, KeyMeans DEF Converged
  <2>5. Len(tool.read) \in Nat
    BY <1>1
  <2>6. k \in PlannedOf(tool) <=> k \in SeenOf(tool) /\ ContentsOf(db)[k] # Target[k]
    BY <2>1, <2>5, PlannedMeans
  <2> QED
    BY <1>3, <2>4, <2>6
<1>6. Abstract!Written
  BY <1>3, <1>4, <1>5, MappingNow, MappingNext DEF Abstract!Written
<1> QED
  BY <1>2, <1>6
LEMMA ApplyReconciles ==
  ASSUME SyncInvariant, Apply
  PROVE  Abstract!Next
<1>1. Planned /\ tool.stage = "plan" /\ tool.kind = "sync" /\ ToolOK
  BY DEF SyncInvariant, SchemaInvariant, SeedingInvariant, Apply, Planned, ToolOK
<1>2. CASE tool' = Failed /\ db' = db
  BY <1>1, <1>2, FailedSync
<1>3. CASE tool' = Ended("done") /\ ((~Changing /\ db' = db) \/ db' \in Outcomes)
  <2>1. Runs(tool', tool.kind, tool.data, tool.read, tool.clean, "done")
    BY <1>1, <1>3, EndedRun
  <2>2. CASE ~SyncingOf(tool)
    <3>1. ~SyncingOf(tool') /\ ~FailedOf(tool')
      BY <1>1, <2>1, <2>2 DEF Runs, SyncingOf, FailedOf
    <3> QED
      BY <3>1, Others
  <2>3. CASE SyncingOf(tool)
    <3>1. SyncingOf(tool') /\ SeenOf(tool') = SeenOf(tool) /\ PlannedOf(tool') = PlannedOf(tool)
      BY <1>1, <2>1, <2>3, SameRun DEF Runs
    <3>2. AloneOf(tool') = AloneOf(tool)
      BY <2>1, <2>3, <3>1 DEF Runs, AloneOf
    <3>3. StageOf(tool') = "done"
      BY <2>1, <3>1, On DEF Runs
    <3>4. StageOf(tool) = "comparing" /\ Abstract!Written
      BY <1>1, <1>3, <2>3, SyncWritten
    <3>5. Abstract!Write
      BY <3>1, <3>2, <3>3, <3>4, MappingNow, MappingNext DEF Abstract!Write
    <3> QED
      BY <3>5 DEF Abstract!Next
  <2> QED
    BY <2>2, <2>3
<1> QED
  BY <1>2, <1>3 DEF Apply
(* A COMMIT that reports an error has written all or nothing.               *)
LEMMA CommitReconciles ==
  ASSUME SyncInvariant, CommitFails
  PROVE  Abstract!Next
<1>1. tool' = Failed /\ tool.kind = "sync" /\ Planned /\ tool.stage = "plan"
  BY DEF CommitFails, Planned, SyncInvariant, SchemaInvariant, SeedingInvariant, ToolOK
<1>2. PICK after \in Outcomes : db' \in {[db EXCEPT !.seq = after.seq], after}
  BY DEF CommitFails
<1>3. CASE db' = [db EXCEPT !.seq = after.seq]
  <2>1. AllTables(db)
    BY IntactIsTyped DEF SyncInvariant, SchemaInvariant, Typed
  <2>2. \A t \in TableNames : db'[t] = db[t]
    BY <1>3, <2>1 DEF AllTables, TableNames, Serial
  <2>3. ContentsOf(db') = ContentsOf(db)
    BY <2>2, SequencesAside
  <2> QED
    BY <1>1, <2>3, FailedSync
<1>4. CASE db' = after
  <2>1. CASE tool.data = Yaml
    <3>1. SyncingOf(tool)
      BY <1>1, <2>1 DEF SyncingOf
    <3>2. StageOf(tool) = "comparing" /\ Abstract!Written
      BY <1>1, <1>2, <1>4, <3>1, SyncWritten
    <3>3. StageOf(tool') = "failed"
      BY <1>1, <2>1, FailedRun DEF Runs, StageOf, FailedOf
    <3> QED
      BY <3>2, <3>3, Fails
  <2>2. CASE tool.data # Yaml
    BY <1>1, <2>2, FailedRun, Others DEF Runs, SyncingOf, FailedOf
  <2> QED
    BY <2>1, <2>2
<1> QED
  BY <1>2, <1>3, <1>4
LEMMA ReconcilerStep ==
  SyncInvariant /\ [Next]_vars => [Abstract!Next]_(Abstract!vars)
<1> SUFFICES ASSUME SyncInvariant, [Next]_vars PROVE Abstract!Next \/ UNCHANGED Abstract!vars
  OBVIOUS
<1>1. ToolOK /\ SyncClaims(tool, db)
  BY DEF SyncInvariant, SchemaInvariant, SeedingInvariant
<1>2. CASE \E y \in Data : StartSync(y) \/ StartImport(y, "clear") \/ StartImport(y, "workbooks")
  BY <1>2, StartReconciles
<1>3. CASE PlanQuery
  BY <1>3, QueryReconciles
<1>4. CASE Apply
  BY <1>4, ApplyReconciles
<1>5. CASE CommitFails
  BY <1>5, CommitReconciles
<1>6. CASE RunInTx \/ NoFiles \/ ConnectionLost
  <2>1. tool.kind = "import"
    BY <1>1, <1>6, ImportingRun DEF SyncClaims
  <2>2. tool'.kind = "import"
    BY <1>1, <1>6, <2>1, ImportingRun, FailedRun DEF Runs
  <2> QED
    BY <2>2, Others DEF SyncingOf, FailedOf
<1>7. CASE Killed
  <2>1. tool' = Failed /\ db' = db /\ (tool.kind = "sync" \/ tool.kind = "import")
    BY <1>1, <1>7 DEF Killed, AtWork, SyncClaims, ToolOK
  <2>2. CASE tool.kind = "sync"
    BY <2>1, <2>2, FailedSync
  <2>3. CASE tool.kind = "import"
    BY <2>1, <2>3, FailedRun, Others DEF Runs, SyncingOf, FailedOf
  <2> QED
    BY <2>1, <2>2, <2>3
<1>8. CASE EditContent
  <2>1. Runs(tool', tool.kind, tool.data, tool.read, FALSE, tool.stage)
    BY <1>1, <1>8, EditedRun
  <2>2. SyncingOf(tool') <=> SyncingOf(tool)
    BY <2>1 DEF Runs, SyncingOf
  <2>3. SeenOf(tool') = SeenOf(tool) /\ PlannedOf(tool') = PlannedOf(tool)
    BY <2>1, SameRun DEF Runs
  <2>4. StageOf(tool') = StageOf(tool) /\ ~AloneOf(tool')
    BY <2>1, <2>2 DEF Runs, StageOf, FailedOf, AloneOf
  <2> QED
    BY <2>3, <2>4, Disturbs
<1>9. CASE UNCHANGED vars
  BY <1>9, Stutters DEF vars
<1> QED
  BY <1>2, <1>3, <1>4, <1>5, <1>6, <1>7, <1>8, <1>9 DEF Next
LEMMA ReconcilerInit == Init => Abstract!Init
<1> SUFFICES ASSUME Init PROVE Abstract!Init
  OBVIOUS
<1>1. tool.kind = "none" /\ tool.stage = "idle"
  BY DEF Init, None
<1>2. ~SyncingOf(tool)
  BY <1>1 DEF SyncingOf
<1>3. DOMAIN ContentsOf(db) = Keys
  BY DEF ContentsOf
<1> QED
  BY <1>1, <1>2, <1>3, Off, MappingNow DEF Abstract!Init, FailedOf

(* A sync is what Reconciler promises: for any contents before it, any      *)
(* other writer and any failure, also the loss of the answer to a COMMIT    *)
(* that went through.                                                       *)
THEOREM SyncsReconcile == Spec => ImplementsReconciler
BY ReconcilerInit, SyncInit, SyncStep, ReconcilerStep, PTL DEF Spec, ImplementsReconciler, Abstract!Spec
-----------------------------------------------------------------------------
(* What agrees is served: with one correct choice at most, the first the    *)
(* plan compares is the last the API serves.                                *)
LEMMA OneKeyServed ==
  ASSUME NEW d, ChoicesOK(d.choices), SingleKey(d.choices), NEW q,
         FirstCorrect(GetChoicesByQuestionID(d, q)) # -1
  PROVE  LastCorrect(GetChoicesByQuestionID(d, q), 0) = FirstCorrect(GetChoicesByQuestionID(d, q))
<1> DEFINE cs == GetChoicesByQuestionID(d, q)
           S == {i \in DOMAIN cs : cs[i].correct}
           below == [c \in ChoicesOf(d, q) |-> {e \in ChoicesOf(d, q) : e.index < c.index}]
<1>1. InOrder(cs, ChoicesOf(d, q), below)
  BY ChoicesInOrder
<1>2. \A c \in ChoicesOf(d, q) : c \notin below[c] /\ c \in d.choices /\ c.question = q
  BY DEF ChoicesOf, ChoicesOK
<1> HIDE DEF cs, below
<1>3. ASSUME NEW i \in S, NEW j \in S PROVE i = j
  <2>1. i \in DOMAIN cs /\ j \in DOMAIN cs /\ cs[i] \in ChoicesOf(d, q) /\ cs[j] \in ChoicesOf(d, q)
    BY <1>1 DEF InOrder
  <2>2. cs[i] = cs[j]
    BY <1>2, <2>1 DEF SingleKey
  <2>3. ~(i < j) /\ ~(j < i)
    BY <1>1, <1>2, <2>1, <2>2 DEF InOrder
  <2>4. i \in Nat /\ j \in Nat
    BY <1>1, <2>1 DEF InOrder
  <2> QED
    BY <2>3, <2>4
<1>4. S # {}
  BY DEF FirstCorrect, cs
<1>5. PICK i \in S : TRUE
  BY <1>4
<1>6. i \in Nat
  BY <1>1 DEF InOrder
<1>7. S = {i}
  BY <1>3, <1>5
<1>8. (CHOOSE k \in S : \A j \in S : k <= j) = i /\ (CHOOSE k \in S : \A j \in S : j <= k) = i
  BY <1>6, <1>7
<1>9. FirstCorrect(cs) = cs[CHOOSE k \in S : \A j \in S : k <= j].index
  BY <1>4 DEF FirstCorrect
<1>10. LastCorrect(cs, 0) = cs[CHOOSE k \in S : \A j \in S : j <= k].index
  BY <1>4 DEF LastCorrect
<1> HIDE DEF S
<1> QED
  BY <1>8, <1>9, <1>10 DEF cs
PathsOf(y, q) == [i \in DOMAIN y.questions[q].images |-> y.images[y.questions[q].images[i]]]
LEMMA PathsServed ==
  ASSUME NEW y, validateReferences(y), NEW d, ConstraintsHold(d), \A id : ImageAgrees(y, d, id),
         NEW q \in DOMAIN y.questions,
         y.questions[q].images = Column(SortedBy(ShownOf(d, q), "order"), "image")
  PROVE  GetImageURLsByQuestionID(d, q) = PathsOf(y, q)
<1> DEFINE rows == SortedBy(ShownOf(d, q), "order")
           ids == y.questions[q].images
           path(x) == (CHOOSE m \in d.images : m.id = x).path
           o == OrderBy({r \in d.questionImages : r.question = q}, LAMBDA r, s : r.order < s.order)
<1>1. o = rows
  BY DEF OrderBy, SortedBy, ShownOf
<1>0. GetImageURLsByQuestionID(d, q) = [i \in DOMAIN o |-> path(o[i].image)]
  BY DEF GetImageURLsByQuestionID
<1>2. Elems(ids) \subseteq DOMAIN y.images
  BY DEF validateReferences
<1> HIDE DEF rows, o, path
<1>3. GetImageURLsByQuestionID(d, q) = [i \in DOMAIN rows |-> path(rows[i].image)]
  BY <1>0, <1>1
<1>4. DOMAIN ids = DOMAIN rows /\ \A i \in DOMAIN rows : ids[i] = rows[i].image
  BY DEF Column, rows
<1>5. ASSUME NEW i \in DOMAIN rows PROVE path(rows[i].image) = y.images[ids[i]]
  <2>1. ids[i] \in DOMAIN y.images
    BY <1>2, <1>4, <1>5 DEF Elems
  <2>2. PICK m \in d.images : m.id = ids[i]
    BY <2>1 DEF ImageAgrees
  <2>3. m.path = y.images[ids[i]]
    BY <2>1, <2>2 DEF ImageAgrees
  <2>4. (CHOOSE n \in d.images : n.id = m.id) = m
    BY <2>2, RowRead DEF ConstraintsHold
  <2> QED
    BY <1>4, <2>2, <2>3, <2>4 DEF path
<1> HIDE DEF ids
<1>6. [i \in DOMAIN rows |-> path(rows[i].image)] = [i \in DOMAIN ids |-> y.images[ids[i]]]
  BY <1>4, <1>5
<1> QED
  BY <1>3, <1>6 DEF PathsOf, ids
LEMMA QuestionServed ==
  ASSUME NEW y, validateReferences(y), NEW d, Typed(d), ConstraintsHold(d), SingleKey(d.choices),
         \A id : ImageAgrees(y, d, id), NEW q \in DOMAIN y.questions, QuestionAgrees(y, d, q)
  PROVE  LET got == ApiGetQuestion(d, q).body
         IN  /\ got.choices = y.questions[q].choices /\ got.correct = y.questions[q].correct
             /\ got.images = PathsOf(y, q)
<1> DEFINE cs == GetChoicesByQuestionID(d, q)
<1>1. cs = SortedBy(ChoicesOf(d, q), "index")
  BY DEF GetChoicesByQuestionID, OrderBy, SortedBy, ChoicesOf
<1>2. PICK s \in d.singleChoices : s.question = q
  BY DEF QuestionAgrees, ConstraintsHold, GetQuestionByID
<1>3. QuestionReads(y.questions[q], s.text, cs, SortedBy(ShownOf(d, q), "order"))
  BY <1>1, <1>2 DEF QuestionAgrees
<1>4. /\ y.questions[q].choices = Column(cs, "text") /\ y.questions[q].correct = FirstCorrect(cs)
      /\ y.questions[q].images = Column(SortedBy(ShownOf(d, q), "order"), "image")
  BY <1>3 DEF QuestionReads
<1>5. FirstCorrect(cs) # -1
  BY <1>4 DEF validateReferences, Validate
<1>6. ChoicesOK(d.choices)
  BY DEF Typed, ChoiceRows, ConstraintsHold, ChoicesOK
<1>7. LastCorrect(cs, 0) = FirstCorrect(cs)
  BY <1>5, <1>6, OneKeyServed
<1>8. GetImageURLsByQuestionID(d, q) = PathsOf(y, q)
  BY <1>4, PathsServed
<1>9. GetQuestionByID(d, q) # {}
  BY <1>2 DEF GetQuestionByID
<1>10. PICK text : ApiGetQuestion(d, q).body = buildQuestion(d, q, text)
  BY <1>9 DEF ApiGetQuestion, Found
<1>11. /\ buildQuestion(d, q, text).choices = Column(cs, "text")
       /\ buildQuestion(d, q, text).correct = LastCorrect(cs, 0)
       /\ buildQuestion(d, q, text).images = GetImageURLsByQuestionID(d, q)
  BY DEF buildQuestion, Column
<1> HIDE DEF cs
<1> QED
  BY <1>4, <1>7, <1>8, <1>10, <1>11
LEMMA WorkbookServed ==
  ASSUME NEW y, NEW d, NEW id \in DOMAIN y.workbooks, WorkbookAgrees(y, d, id)
  PROVE  Ids(AdminGetWorkbook(d, id).body.questions) = y.workbooks[id].questions
<1> DEFINE rows == SortedBy(PlacesOf(d, id), "order")
           flat == ListQuestionsWithChoicesByWorkbook(d, id)
           shown == AdminQuestions(d, flat)
<1>1. GetWorkbookByID(d, id) # {} /\ y.workbooks[id].questions = Column(rows, "question")
  BY DEF WorkbookAgrees, GetWorkbookByID
<1>2. OrderBy({r \in d.workbookQuestions : r.workbook = id}, LAMBDA r, s : r.order < s.order) = rows
  BY DEF OrderBy, SortedBy, PlacesOf
<1> HIDE DEF rows
<1>3. flat = [i \in DOMAIN rows |-> RowsOf(d, rows[i].question)]
  BY <1>2 DEF ListQuestionsWithChoicesByWorkbook
<1>4. DOMAIN flat = DOMAIN rows /\ \A i \in DOMAIN rows : flat[i].id = rows[i].question
  BY <1>3 DEF RowsOf
<1> HIDE DEF flat
<1>5. DOMAIN shown = DOMAIN flat /\ \A i \in DOMAIN flat : shown[i].id = flat[i].id
  BY DEF AdminQuestions, AdminQuestion
<1>6. AdminGetWorkbook(d, id).body.questions = shown
  BY <1>1 DEF AdminGetWorkbook, Found, flat
<1> HIDE DEF shown
<1>7. Ids(shown) = Column(rows, "question")
  BY <1>4, <1>5 DEF Ids, Column
<1> QED
  BY <1>1, <1>6, <1>7
LEMMA CategoryServed ==
  ASSUME NEW y, NEW d, Typed(d), ConstraintsHold(d), NEW id \in DOMAIN y.categories, CategoryAgrees(y, d, id)
  PROVE  Elems(Ids(AdminGetCategory(d, id).body.workbooks)) = Elems(y.categories[id].workbooks)
<1> DEFINE W == {w \in d.workbooks : w.category = id}
           rows == ById(W)
           shown == Listed(d, W)
<1>1. GetCategoryByID(d, id) # {} /\ Holds(d, id) = Elems(y.categories[id].workbooks)
  BY DEF CategoryAgrees, GetCategoryByID
<1>2. Listing(rows, W)
  <2>1. rows = SortedBy(W, "id")
    BY DEF ById, OrderBy, SortedBy
  <2>2. IsFiniteSet(W)
    BY FS_Subset DEF Typed, BookRows, IdRows
  <2>3. \A w \in W : w["id"] \in Nat
    BY DEF Typed, BookRows, IdRows, IdNumbers
  <2>4. \A v, w \in W : v["id"] = w["id"] => v = w
    BY DEF ConstraintsHold, Keyed
  <2> HIDE DEF rows, W
  <2> QED
    BY <2>1, <2>2, <2>3, <2>4, ByColumn
<1>3. AdminGetCategory(d, id).body.workbooks = shown
  BY <1>1 DEF AdminGetCategory, Found, ListWorkbooksByCategory
<1>4. DOMAIN shown = DOMAIN rows /\ \A i \in DOMAIN rows : shown[i].id = rows[i].id
  BY DEF Listed, WorkbookRow
<1>5. Holds(d, id) = {w.id : w \in W}
  BY DEF Holds
<1> HIDE DEF shown, rows, W
<1>6. Elems(Ids(shown)) = {w.id : w \in W}
  BY <1>2, <1>4 DEF Elems, Ids, Listing
<1> QED
  BY <1>1, <1>3, <1>5, <1>6
LEMMA ConvergedServes ==
  ASSUME NEW y, DirectoryOK(y), validateReferences(y), Tidy(y), Intact(FALSE, db), Converged(y, db),
         SingleKey(db.choices)
  PROVE  Serves(y)
<1>1. Typed(db) /\ ConstraintsHold(db)
  BY IntactIsTyped
<1>2. \A id : ImageAgrees(y, db, id) /\ QuestionAgrees(y, db, id)
  BY <1>1, ImageAgreement, QuestionAgreement DEF Converged, Tables
<1>3. \A id : WorkbookAgrees(y, db, id) /\ CategoryAgrees(y, db, id)
  BY <1>1, WorkbookAgreement, CategoryAgreement DEF Converged, Tables
<1>4. ASSUME NEW q \in DOMAIN y.questions
      PROVE  LET got == ApiGetQuestion(db, q).body
             IN  /\ got.choices = y.questions[q].choices /\ got.correct = y.questions[q].correct
                 /\ got.images = [i \in DOMAIN y.questions[q].images |-> y.images[y.questions[q].images[i]]]
  BY <1>1, <1>2, QuestionServed DEF PathsOf
<1>5. \A w \in DOMAIN y.workbooks : Ids(AdminGetWorkbook(db, w).body.questions) = y.workbooks[w].questions
  BY <1>3, WorkbookServed
<1>6. \A c \in DOMAIN y.categories :
        Elems(Ids(AdminGetCategory(db, c).body.workbooks)) = Elems(y.categories[c].workbooks)
  BY <1>1, <1>3, CategoryServed
<1> QED
  BY <1>4, <1>5, <1>6 DEF Serves
-----------------------------------------------------------------------------
(* What an import that nobody disturbs has put into the tables it emptied:  *)
(* whole files, and a workbook in the category read so far that lists it.   *)
Shelved(y, C, w) ==
  /\ w.category # NoCategory => w.category \in C /\ Lists(y, w.category, w.id)
  /\ \A c \in C : Lists(y, c, w.id) => w.category = c
ImagesFilled(y, d) == \A m \in d.images : m.id \in DOMAIN y.images /\ m = ImageRow(y, m.id)
QuestionsFilled(y, d) ==
  /\ \A s \in d.singleChoices : s = TextRow(y, s.question)
  /\ \A q \in d.questions : /\ q \in DOMAIN y.questions
                            /\ ChoicesOf(d, q) = ChoicesFor(y, q) /\ ShownOf(d, q) = ShownFor(y, q)
BooksFilled(y, d) ==
  \A w \in d.workbooks : /\ w.id \in DOMAIN y.workbooks /\ w.title = y.workbooks[w.id].title
                         /\ PlacesOf(d, w.id) = PlacesFor(y, w.id)
                         /\ Shelved(y, IdsOf(d.categories), w)
CategoriesFilled(y, d) == \A c \in d.categories : c.id \in DOMAIN y.categories /\ c = CategoryRow(y, c.id)
Filled(y, d) == ImagesFilled(y, d) /\ QuestionsFilled(y, d) /\ BooksFilled(y, d) /\ CategoriesFilled(y, d)
(* One transaction of a phase, for its file f.                              *)
Grows(y, at, f, d, e) ==
  /\ Filled(y, e)
  /\ \A x \in Tables : Present(d)[x] \subseteq Present(e)[x]
  /\ at = "images" => DOMAIN y.images \subseteq Present(e).images
  /\ at \in Retried => f \in Present(e)[at]
  /\ at # "categories" => e.categories = d.categories
(* A row that keeps another out is that row.                                *)
LEMMA SameImage ==
  ASSUME NEW y, Tidy(y), NEW r, r.id \in DOMAIN y.images, r = ImageRow(y, r.id),
         NEW x \in DOMAIN y.images, r.id = x \/ r.path = y.images[x]
  PROVE  r.id = x
<1>1. r.path = y.images[r.id]
  BY DEF ImageRow
<1> QED
  BY <1>1 DEF Tidy
LEMMA SameChoice ==
  ASSUME NEW y, DirectoryOK(y), NEW q \in DOMAIN y.questions, NEW r \in ChoicesFor(y, q), NEW new \in ChoicesFor(y, q),
         r.index = new.index
  PROVE  r = new
<1> DEFINE cs == y.questions[q].choices
<1>1. cs \in Seq(STRING)
  BY DEF DirectoryOK
<1>2. PICK i \in DOMAIN cs : r = ChoiceRow(y, q, i)
  BY DEF ChoicesFor
<1>3. PICK j \in DOMAIN cs : new = ChoiceRow(y, q, j)
  BY DEF ChoicesFor
<1>4. r.index = i - 1 /\ new.index = j - 1
  BY <1>2, <1>3 DEF ChoiceRow
<1>5. i \in Int /\ j \in Int
  BY <1>1
<1> HIDE DEF cs
<1>6. i = j
  <2>1. i - 1 = j - 1
    BY <1>4
  <2> QED
    BY <1>5, <2>1
<1> QED
  BY <1>2, <1>3, <1>6
LEMMA SameShown ==
  ASSUME NEW y, DirectoryOK(y), Tidy(y), NEW q \in DOMAIN y.questions, NEW r \in ShownFor(y, q), NEW new \in ShownFor(y, q),
         r.image = new.image \/ r.order = new.order
  PROVE  r = new
<1> DEFINE xs == y.questions[q].images
<1>1. xs \in Seq(Nat) /\ Distinct(xs)
  BY DEF DirectoryOK, Tidy
<1>2. PICK i \in DOMAIN xs : r = ShownRow(y, q, i)
  BY DEF ShownFor
<1>3. PICK j \in DOMAIN xs : new = ShownRow(y, q, j)
  BY DEF ShownFor
<1>4. r.order = i - 1 /\ new.order = j - 1 /\ r.image = xs[i] /\ new.image = xs[j]
  BY <1>2, <1>3 DEF ShownRow
<1>5. i \in Int /\ j \in Int
  BY <1>1
<1> HIDE DEF xs
<1>6. i = j
  BY <1>1, <1>2, <1>3, <1>4, <1>5 DEF Distinct
<1> QED
  BY <1>2, <1>3, <1>6
LEMMA SamePlace ==
  ASSUME NEW y, DirectoryOK(y), Tidy(y), NEW w \in DOMAIN y.workbooks, NEW r \in PlacesFor(y, w), NEW new \in PlacesFor(y, w),
         r.question = new.question
  PROVE  r = new
<1> DEFINE qs == y.workbooks[w].questions
<1>1. Distinct(qs)
  BY DEF Tidy
<1>2. PICK i \in DOMAIN qs : r = PlaceRow(y, w, i)
  BY DEF PlacesFor
<1>3. PICK j \in DOMAIN qs : new = PlaceRow(y, w, j)
  BY DEF PlacesFor
<1>4. r.question = qs[i] /\ new.question = qs[j]
  BY <1>2, <1>3 DEF PlaceRow
<1> HIDE DEF qs
<1>5. i = j
  BY <1>1, <1>2, <1>3, <1>4 DEF Distinct
<1> QED
  BY <1>2, <1>3, <1>5
LEMMA OwnFiles ==
  ASSUME NEW y, NEW q
  PROVE  /\ \A r \in ChoicesFor(y, q) : r.question = q
         /\ \A r \in ShownFor(y, q) : r.question = q
         /\ \A r \in PlacesFor(y, q) : r.workbook = q
BY DEF ChoicesFor, ShownFor, PlacesFor, ChoiceRow, ShownRow, PlaceRow
(* Image files, all at once.                                                *)
LEMMA ImagesFill ==
  ASSUME NEW y, DirectoryOK(y), Tidy(y), NEW d, AllTables(d), Filled(y, d),
         NEW e, e \in importImages(y, d), NEW f
  PROVE  Grows(y, "images", f, d, e)
<1>1. /\ Same(d, e, {"images"}) /\ d.images \subseteq e.images
      /\ \A m \in e.images : m \in d.images \/ m \in ImagesFor(y, DOMAIN y.images)
      /\ \A x \in DOMAIN y.images : \E m \in e.images : m.id = x \/ m.path = y.images[x]
  BY ImagesGrow
<1>2. /\ e.questions = d.questions /\ e.singleChoices = d.singleChoices /\ e.choices = d.choices
      /\ e.questionImages = d.questionImages /\ e.workbooks = d.workbooks
      /\ e.workbookQuestions = d.workbookQuestions /\ e.categories = d.categories
  BY <1>1 DEF Same, TableNames, Serial
<1>3. QuestionsFilled(y, e) /\ BooksFilled(y, e) /\ CategoriesFilled(y, e)
  BY <1>2 DEF Filled, QuestionsFilled, BooksFilled, CategoriesFilled, ChoicesOf, ShownOf, PlacesOf
<1>4. ImagesFilled(y, e)
  BY <1>1 DEF Filled, ImagesFilled, ImagesFor, ImageRow
<1>5. ASSUME NEW x \in DOMAIN y.images PROVE x \in IdsOf(e.images)
  <2>1. PICK m \in e.images : m.id = x \/ m.path = y.images[x]
    BY <1>1
  <2>2. m.id = x
    BY <1>4, <2>1, SameImage DEF ImagesFilled
  <2> QED
    BY <2>2 DEF IdsOf
<1>6. \A x \in Tables : Present(d)[x] \subseteq Present(e)[x]
  BY <1>1, <1>2 DEF Present, IdsOf, Tables
<1>7. "images" \notin Retried
  BY DEF Retried
<1>8. DOMAIN y.images \subseteq Present(e).images
  BY <1>5 DEF Present
<1> QED
  BY <1>2, <1>3, <1>4, <1>6, <1>7, <1>8 DEF Grows, Filled
(* A question file: its rows are there, from now or from before.            *)
LEMMA QuestionFills ==
  ASSUME NEW y, DirectoryOK(y), Tidy(y), NEW q \in DOMAIN y.questions,
         NEW d, AllTables(d), ConstraintsHold(d), Filled(y, d), NEW e, e \in importQuestion(y, q, d)
  PROVE  Grows(y, "questions", q, d, e)
<1>1. QuestionGrown(y, q, d, e)
  BY QuestionGrows
<1>2. /\ e.images = d.images /\ e.workbooks = d.workbooks
      /\ e.workbookQuestions = d.workbookQuestions /\ e.categories = d.categories
  BY <1>1 DEF QuestionGrown, Same, QuestionTables, TableNames, Serial
<1>3. ImagesFilled(y, e) /\ BooksFilled(y, e) /\ CategoriesFilled(y, e)
  BY <1>2 DEF Filled, ImagesFilled, BooksFilled, CategoriesFilled, PlacesOf
<1>4. ASSUME NEW p, p # q PROVE ChoicesOf(e, p) = ChoicesOf(d, p) /\ ShownOf(e, p) = ShownOf(d, p)
  BY <1>1, <1>4, OwnFiles DEF QuestionGrown, ChoicesOf, ShownOf
<1>5. /\ \A r \in ChoicesOf(d, q) : r \in ChoicesFor(y, q)
      /\ \A r \in ShownOf(d, q) : r \in ShownFor(y, q)
  <2>1. CASE q \in d.questions
    BY <2>1 DEF Filled, QuestionsFilled
  <2>2. CASE q \notin d.questions
    BY <2>2 DEF ConstraintsHold, QuestionExists, ChoicesOf, ShownOf
  <2> QED
    BY <2>1, <2>2
<1>6. ChoicesOf(e, q) = ChoicesFor(y, q)
  <2>1. \A r \in ChoicesOf(e, q) : r \in ChoicesFor(y, q)
    BY <1>1, <1>5 DEF QuestionGrown, ChoicesOf
  <2>2. ASSUME NEW new \in ChoicesFor(y, q) PROVE new \in ChoicesOf(e, q)
    <3>1. PICK r \in e.choices : Clash("ImportNthChoice", r, new)
      BY <1>1 DEF QuestionGrown
    <3>2. r.question = q /\ r.index = new.index
      BY <3>1, OwnFiles DEF Clash
    <3>3. r \in ChoicesOf(e, q)
      BY <3>2 DEF ChoicesOf
    <3>4. r = new
      BY <2>1, <3>2, <3>3, SameChoice
    <3> QED
      BY <3>3, <3>4
  <2> QED
    BY <2>1, <2>2
<1>7. ShownOf(e, q) = ShownFor(y, q)
  <2>1. \A r \in ShownOf(e, q) : r \in ShownFor(y, q)
    BY <1>1, <1>5 DEF QuestionGrown, ShownOf
  <2>2. ASSUME NEW new \in ShownFor(y, q) PROVE new \in ShownOf(e, q)
    <3>1. PICK r \in e.questionImages : Clash("ImportNthImage", r, new)
      BY <1>1 DEF QuestionGrown
    <3>2. r.question = q /\ (r.image = new.image \/ r.order = new.order)
      BY <3>1, OwnFiles DEF Clash
    <3>3. r \in ShownOf(e, q)
      BY <3>2 DEF ShownOf
    <3>4. r = new
      BY <2>1, <3>2, <3>3, SameShown
    <3> QED
      BY <3>3, <3>4
  <2> QED
    BY <2>1, <2>2
<1>8. ASSUME NEW s \in e.singleChoices PROVE s = TextRow(y, s.question)
  <2>1. s \in d.singleChoices \/ s = TextRow(y, q) \/ \E u \in d.singleChoices : s = Retexted(y, q, u)
    BY <1>1 DEF QuestionGrown
  <2>2. CASE s = TextRow(y, q)
    BY <2>2 DEF TextRow
  <2>3. ASSUME NEW u \in d.singleChoices, s = Retexted(y, q, u) PROVE s = u
    <3>1. u = TextRow(y, u.question)
      BY DEF Filled, QuestionsFilled
    <3> QED
      BY <2>3, <3>1 DEF Retexted, TextRow
  <2> QED
    BY <2>1, <2>2, <2>3 DEF Filled, QuestionsFilled
<1>9. e.questions = d.questions \cup {q}
  BY <1>1 DEF QuestionGrown
<1>10. QuestionsFilled(y, e)
  BY <1>4, <1>6, <1>7, <1>8, <1>9 DEF Filled, QuestionsFilled
<1>11. (\A x \in Tables : Present(d)[x] \subseteq Present(e)[x]) /\ q \in Present(e)["questions"]
  BY <1>2, <1>9 DEF Present, Tables
<1> QED
  BY <1>2, <1>3, <1>10, <1>11 DEF Grows, Filled
(* A workbook file, while no category has been read.                        *)
LEMMA WorkbookFills ==
  ASSUME NEW y, DirectoryOK(y), Tidy(y), NEW x \in DOMAIN y.workbooks,
         NEW d, AllTables(d), ConstraintsHold(d), Filled(y, d), d.categories = {},
         NEW e, e \in importWorkbook(y, x, d)
  PROVE  Grows(y, "workbooks", x, d, e)
<1>1. WorkbookGrown(y, x, d, e)
  BY WorkbookGrows
<1>2. /\ e.images = d.images /\ e.questions = d.questions /\ e.singleChoices = d.singleChoices
      /\ e.choices = d.choices /\ e.questionImages = d.questionImages /\ e.categories = d.categories
  BY <1>1 DEF WorkbookGrown, Same, WorkbookTables, TableNames, Serial
<1>3. ImagesFilled(y, e) /\ QuestionsFilled(y, e) /\ CategoriesFilled(y, e)
  BY <1>2 DEF Filled, ImagesFilled, QuestionsFilled, CategoriesFilled, ChoicesOf, ShownOf
<1>4. ASSUME NEW p, p # x PROVE PlacesOf(e, p) = PlacesOf(d, p)
  BY <1>1, <1>4, OwnFiles DEF WorkbookGrown, PlacesOf
<1>5. \A r \in PlacesOf(d, x) : r \in PlacesFor(y, x)
  <2>1. CASE \E w \in d.workbooks : w.id = x
    BY <2>1 DEF Filled, BooksFilled
  <2>2. CASE ~\E w \in d.workbooks : w.id = x
    BY <2>2 DEF ConstraintsHold, WorkbookExists, PlacesOf
  <2> QED
    BY <2>1, <2>2
<1>6. PlacesOf(e, x) = PlacesFor(y, x)
  <2>1. \A r \in PlacesOf(e, x) : r \in PlacesFor(y, x)
    BY <1>1, <1>5 DEF WorkbookGrown, PlacesOf
  <2>2. ASSUME NEW new \in PlacesFor(y, x) PROVE new \in PlacesOf(e, x)
    <3>1. PICK r \in e.workbookQuestions : Clash("ImportNthQuestion", r, new)
      BY <1>1 DEF WorkbookGrown
    <3>2. r.workbook = x /\ r.question = new.question
      BY <3>1, OwnFiles DEF Clash
    <3>3. r \in PlacesOf(e, x)
      BY <3>2 DEF PlacesOf
    <3>4. r = new
      BY <2>1, <3>2, <3>3, SamePlace
    <3> QED
      BY <3>3, <3>4
  <2> QED
    BY <2>1, <2>2
<1>7. ASSUME NEW w \in e.workbooks
      PROVE  /\ w.id \in DOMAIN y.workbooks /\ w.title = y.workbooks[w.id].title
             /\ PlacesOf(e, w.id) = PlacesFor(y, w.id) /\ Shelved(y, IdsOf(e.categories), w)
  <2>1. w \in d.workbooks \/ w = WorkbookLine(y, x, NoCategory)
    BY <1>1 DEF WorkbookGrown
  <2>2. CASE w \in d.workbooks
    BY <1>2, <1>4, <1>6, <2>2 DEF Filled, BooksFilled
  <2>3. CASE w = WorkbookLine(y, x, NoCategory)
    <3>1. w.id = x /\ w.title = y.workbooks[x].title /\ w.category = NoCategory
      BY <2>3 DEF WorkbookLine
    <3>2. IdsOf(e.categories) = {}
      BY <1>2 DEF IdsOf
    <3> QED
      BY <1>6, <3>1, <3>2 DEF Shelved
  <2> QED
    BY <2>1, <2>2, <2>3
<1>8. d.workbooks \subseteq e.workbooks /\ x \in IdsOf(e.workbooks)
  BY <1>1 DEF WorkbookGrown, IdsOf, WorkbookLine
<1>9. BooksFilled(y, e)
  BY <1>7 DEF BooksFilled
<1>10. (\A t \in Tables : Present(d)[t] \subseteq Present(e)[t]) /\ x \in Present(e)["workbooks"]
  BY <1>2, <1>8 DEF Present, Tables, IdsOf
<1> QED
  BY <1>2, <1>3, <1>9, <1>10 DEF Grows, Filled
(* A category file: its workbooks are in no other.                          *)
LEMMA CategoryFills ==
  ASSUME NEW y, DirectoryOK(y), Tidy(y), NEW c \in DOMAIN y.categories,
         NEW d, AllTables(d), BookRows(d.workbooks), Filled(y, d), NEW e, e \in importCategory(y, c, d)
  PROVE  Grows(y, "categories", c, d, e)
<1>1. CategoryGrown(y, c, d, e)
  BY CategoryGrows
<1>2. /\ e.images = d.images /\ e.questions = d.questions /\ e.singleChoices = d.singleChoices
      /\ e.choices = d.choices /\ e.questionImages = d.questionImages
      /\ e.workbookQuestions = d.workbookQuestions
  BY <1>1 DEF CategoryGrown, Same, TableNames, Serial
<1>3. ImagesFilled(y, e) /\ QuestionsFilled(y, e)
  BY <1>2 DEF Filled, ImagesFilled, QuestionsFilled, ChoicesOf, ShownOf
<1>4. /\ d.categories \subseteq e.categories
      /\ \A k \in e.categories : k \in d.categories \/ k = CategoryRow(y, c)
      /\ \E k \in e.categories : k.id = c
  <2>1. CategoryRow(y, c).id = c
    BY DEF CategoryRow
  <2>2. e.categories = IF \E k \in d.categories : k.id = c THEN d.categories
                       ELSE d.categories \cup {CategoryRow(y, c)}
    BY <1>1 DEF CategoryGrown
  <2>3. CASE \E k \in d.categories : k.id = c
    BY <2>2, <2>3
  <2>4. CASE ~\E k \in d.categories : k.id = c
    BY <2>1, <2>2, <2>4
  <2> QED
    BY <2>3, <2>4
<1>5. CategoriesFilled(y, e)
  BY <1>4 DEF Filled, CategoriesFilled, CategoryRow
<1>6. IdsOf(e.categories) = IdsOf(d.categories) \cup {c}
  <2>1. CategoryRow(y, c).id = c
    BY DEF CategoryRow
  <2> QED
    BY <1>4, <2>1 DEF IdsOf
<1>7. Assigned(c, Elems(y.categories[c].workbooks), d.workbooks, e.workbooks)
  BY <1>1 DEF CategoryGrown
<1>8. c # NoCategory /\ IdsOf(d.categories) \subseteq DOMAIN y.categories
  <2>1. DOMAIN y.categories \subseteq IdNumbers
    BY DEF DirectoryOK, Tables
  <2> QED
    BY <2>1 DEF Filled, CategoriesFilled, IdsOf, IdNumbers, NoCategory
<1>9. ASSUME NEW v \in e.workbooks
      PROVE  /\ v.id \in DOMAIN y.workbooks /\ v.title = y.workbooks[v.id].title
             /\ PlacesOf(e, v.id) = PlacesFor(y, v.id) /\ Shelved(y, IdsOf(e.categories), v)
  <2>1. PICK w \in d.workbooks : /\ v.id = w.id /\ v.title = w.title
                                 /\ v.category = IF Lists(y, c, v.id) THEN c ELSE w.category
    BY <1>7 DEF Assigned, Lists
  <2>2. /\ w.id \in DOMAIN y.workbooks /\ w.title = y.workbooks[w.id].title
        /\ PlacesOf(d, w.id) = PlacesFor(y, w.id) /\ Shelved(y, IdsOf(d.categories), w)
    BY DEF Filled, BooksFilled
  <2>3. \A b \in IdsOf(d.categories) : Lists(y, b, v.id) /\ Lists(y, c, v.id) => b = c
    BY <1>8, ListedOnce
  <2>4. Shelved(y, IdsOf(e.categories), v)
    BY <1>6, <1>8, <2>1, <2>2, <2>3 DEF Shelved
  <2> QED
    BY <1>2, <2>1, <2>2, <2>4 DEF PlacesOf
<1>10. BooksFilled(y, e)
  BY <1>9 DEF BooksFilled
<1>11. (\A t \in Tables : Present(d)[t] \subseteq Present(e)[t]) /\ c \in Present(e)["categories"]
  <2>1. IdsOf(d.workbooks) \subseteq IdsOf(e.workbooks)
    BY <1>7 DEF IdsOf, Assigned
  <2>2. IdsOf(d.images) = IdsOf(e.images)
    BY <1>2
  <2> QED
    BY <1>2, <1>6, <2>1, <2>2 DEF Present, Tables
<1> QED
  BY <1>3, <1>5, <1>10, <1>11 DEF Grows, Filled
LEMMA ClearedIsFilled ==
  ASSUME NEW y, NEW d, AllTables(d)
  PROVE  Filled(y, clearData(d)) /\ clearData(d).categories = {}
<1> DEFINE e == clearData(d)
<1>1. /\ e.images = {} /\ e.questions = {} /\ e.singleChoices = {} /\ e.workbooks = {} /\ e.categories = {}
  BY ClearedTables DEF Emptied, TableNames, Serial
<1> HIDE DEF e
<1>2. Filled(y, e) /\ e.categories = {}
  BY <1>1 DEF Filled, ImagesFilled, QuestionsFilled, BooksFilled, CategoriesFilled
<1> QED
  BY <1>2 DEF e
LEMMA SequencesFill ==
  ASSUME NEW y, NEW d, AllTables(d), Filled(y, d), NEW f
  PROVE  Grows(y, "sequences", f, d, resetSequences(d))
<1> DEFINE e == resetSequences(d)
<1>1. /\ e.images = d.images /\ e.questions = d.questions /\ e.singleChoices = d.singleChoices
      /\ e.choices = d.choices /\ e.questionImages = d.questionImages /\ e.workbooks = d.workbooks
      /\ e.workbookQuestions = d.workbookQuestions /\ e.categories = d.categories
  BY DEF resetSequences, AllTables, TableNames, Serial
<1> HIDE DEF e
<1>2. Present(e) = Present(d) /\ "sequences" \notin Retried
  BY <1>1 DEF Present, Retried
<1>3. Filled(y, e)
  BY <1>1 DEF Filled, ImagesFilled, QuestionsFilled, BooksFilled, CategoriesFilled, ChoicesOf, ShownOf, PlacesOf
<1>4. Grows(y, "sequences", f, d, e)
  BY <1>1, <1>2, <1>3 DEF Grows
<1> QED
  BY <1>4 DEF e
(* Whole files of every table are the data directory.                       *)
LEMMA FilledConverges ==
  ASSUME NEW y, DirectoryOK(y), validateReferences(y), Tidy(y), NEW d, ConstraintsHold(d), Filled(y, d),
         \A x \in Tables : DOMAIN y[x] \subseteq Present(d)[x]
  PROVE  Converged(y, d)
<1>1. /\ DOMAIN y.images \subseteq IdsOf(d.images) /\ DOMAIN y.questions \subseteq d.questions
      /\ DOMAIN y.workbooks \subseteq IdsOf(d.workbooks) /\ DOMAIN y.categories \subseteq IdsOf(d.categories)
  BY DEF Present, Tables
<1>2. ASSUME NEW id PROVE ImageAgrees(y, d, id)
  <2>1. \A m \in d.images : m.id \in DOMAIN y.images /\ m.path = y.images[m.id]
    BY DEF Filled, ImagesFilled, ImageRow
  <2> QED
    BY <1>1, <2>1 DEF ImageAgrees, IdsOf
<1>3. ASSUME NEW id PROVE QuestionAgrees(y, d, id)
  <2>1. CASE id \notin DOMAIN y.questions
    BY <2>1 DEF QuestionAgrees, Filled, QuestionsFilled
  <2>2. CASE id \in DOMAIN y.questions
    <3>1. id \in d.questions
      BY <1>1, <2>2
    <3>2. \A s \in d.singleChoices : s.question = id => s.text = y.questions[id].text
      BY DEF Filled, QuestionsFilled, TextRow
    <3>3. ChoicesOf(d, id) = ChoicesFor(y, id) /\ ShownOf(d, id) = ShownFor(y, id)
      BY <3>1 DEF Filled, QuestionsFilled
    <3> QED
      BY <2>2, <3>1, <3>2, <3>3, WrittenQuestion
  <2> QED
    BY <2>1, <2>2
<1>4. ASSUME NEW id PROVE WorkbookAgrees(y, d, id)
  <2>1. CASE id \notin DOMAIN y.workbooks
    BY <2>1 DEF WorkbookAgrees, Filled, BooksFilled
  <2>2. CASE id \in DOMAIN y.workbooks
    <3>1. \E w \in d.workbooks : w.id = id
      BY <1>1, <2>2 DEF IdsOf
    <3>2. /\ \A w \in d.workbooks : w.id = id => w.title = y.workbooks[id].title
          /\ PlacesOf(d, id) = PlacesFor(y, id)
      BY <3>1 DEF Filled, BooksFilled
    <3> QED
      BY <2>2, <3>1, <3>2, WrittenWorkbook
  <2> QED
    BY <2>1, <2>2
<1>5. ASSUME NEW id PROVE CategoryAgrees(y, d, id)
  <2>1. \A c \in d.categories : c.id \in DOMAIN y.categories /\ c.title = y.categories[c.id].title
    BY DEF Filled, CategoriesFilled, CategoryRow
  <2>2. ASSUME id \in DOMAIN y.categories PROVE Holds(d, id) = Elems(y.categories[id].workbooks)
    <3>1. id # NoCategory /\ id \in IdsOf(d.categories)
      BY <1>1, <2>2 DEF DirectoryOK, Tables, IdNumbers, NoCategory
    <3>2. \A w \in d.workbooks : w.category = id <=> Lists(y, id, w.id)
      BY <3>1 DEF Filled, BooksFilled, Shelved
    <3>3. \A x \in Elems(y.categories[id].workbooks) : x \in IdsOf(d.workbooks)
      BY <1>1, <2>2 DEF Tidy
    <3> QED
      BY <3>2, <3>3 DEF Holds, IdsOf, Lists
  <2> QED
    BY <1>1, <2>1, <2>2 DEF CategoryAgrees, IdsOf
<1>6. \A id : Agrees(y, d, "images", id) /\ Agrees(y, d, "questions", id)
  BY <1>2, <1>3, ImageAgreement, QuestionAgreement
<1>7. \A id : Agrees(y, d, "workbooks", id) /\ Agrees(y, d, "categories", id)
  BY <1>4, <1>5, WorkbookAgreement, CategoryAgreement
<1> QED
  BY <1>6, <1>7 DEF Converged, Tables
(* Where an import is: the tables of the phases behind it are complete, the *)
(* table of its phase but for the files that are left.                      *)
Behind == [images |-> {}, questions |-> {"images"}, workbooks |-> {"images", "questions"},
           categories |-> {"images", "questions", "workbooks"}, sequences |-> Tables, done |-> Tables]
ImportedSoFar(y, at, todo, d) ==
  /\ Filled(y, d)
  /\ at \in {"images", "questions", "workbooks"} => d.categories = {}
  /\ \A x \in Behind[at] : DOMAIN y[x] \subseteq Present(d)[x]
  /\ at \in Retried => DOMAIN y[at] \ todo \subseteq Present(d)[at]
ImportClaims(t, d) ==
  /\ t.stage = "done" => t.kind \in {"sync", "import"}
  /\ t.stage \in {"clear", "images"} => t.todo # {}
  /\ /\ t.kind = "import" /\ t.clean /\ t.stage \in (Phases \ {"clear"}) \cup {"done"}
     /\ validateReferences(t.data) /\ Tidy(t.data)
     => ImportedSoFar(t.data, t.stage, t.todo, d)
ImportInvariant == SyncInvariant /\ ImportClaims(tool, db)
LEMMA PhaseEnds ==
  ASSUME NEW y, NEW at \in Phases \ {"clear"}, NEW e, Filled(y, e),
         at \in {"images", "questions"} => e.categories = {},
         \A x \in Behind[at] : DOMAIN y[x] \subseteq Present(e)[x],
         at \in Tables => DOMAIN y[at] \subseteq Present(e)[at]
  PROVE  ImportedSoFar(y, Following[at], Files(Following[at], y), e)
<1>1. /\ \A x \in Behind[Following[at]] : x \in Behind[at] \/ (x = at /\ at \in Tables)
      /\ Following[at] \in {"images", "questions", "workbooks"} => at \in {"images", "questions"}
      /\ Following[at] \in Retried => Files(Following[at], y) = DOMAIN y[Following[at]]
  <2>1. CASE at = "images"
    <3>1. Following[at] = "questions" /\ Behind["questions"] = {"images"} /\ Behind[at] = {}
      BY <2>1 DEF Following, Behind
    <3>2. Files("questions", y) = DOMAIN y.questions
      BY DEF Files
    <3> QED
      BY <2>1, <3>1, <3>2 DEF Tables, Retried
  <2>2. CASE at = "questions"
    <3>1. Following[at] = "workbooks" /\ Behind["workbooks"] = {"images", "questions"} /\ Behind[at] = {"images"}
      BY <2>2 DEF Following, Behind
    <3>2. Files("workbooks", y) = DOMAIN y.workbooks
      BY DEF Files
    <3> QED
      BY <2>2, <3>1, <3>2 DEF Tables, Retried
  <2>3. CASE at = "workbooks"
    <3>1. /\ Following[at] = "categories" /\ Behind["categories"] = {"images", "questions", "workbooks"}
          /\ Behind[at] = {"images", "questions"}
      BY <2>3 DEF Following, Behind
    <3>2. Files("categories", y) = DOMAIN y.categories
      BY DEF Files
    <3> QED
      BY <2>3, <3>1, <3>2 DEF Tables, Retried
  <2>4. CASE at = "categories"
    <3>1. /\ Following[at] = "sequences" /\ Behind["sequences"] = Tables
          /\ Behind[at] = {"images", "questions", "workbooks"}
      BY <2>4 DEF Following, Behind
    <3> QED
      BY <2>4, <3>1 DEF Tables, Retried
  <2>5. CASE at = "sequences"
    <3>1. Following[at] = "done" /\ Behind["done"] = Tables /\ Behind[at] = Tables
      BY <2>5 DEF Following, Behind
    <3> QED
      BY <2>5, <3>1 DEF Tables, Retried
  <2> QED
    BY <2>1, <2>2, <2>3, <2>4, <2>5 DEF Phases
<1> QED
  BY <1>1 DEF ImportedSoFar
LEMMA PhaseGrows ==
  ASSUME NEW y, NEW at \in Phases \ {"clear"}, NEW todo, NEW d, ImportedSoFar(y, at, todo, d),
         NEW f, NEW e, Grows(y, at, f, d, e)
  PROVE  /\ ImportedSoFar(y, at, todo, e) /\ ImportedSoFar(y, at, todo \ {f}, e)
         /\ todo = {f} => ImportedSoFar(y, Following[at], Files(Following[at], y), e)
<1>1. /\ Behind[at] \subseteq Tables /\ Retried \subseteq Tables /\ Tables = Retried \cup {"images"}
      /\ at \in {"images", "questions"} => at \in {"images", "questions", "workbooks"} /\ at # "categories"
      /\ at \in {"images", "questions", "workbooks"} => at # "categories"
  BY DEF Behind, Phases, Tables, Retried
<1>2. /\ Filled(y, e) /\ \A x \in Behind[at] : DOMAIN y[x] \subseteq Present(e)[x]
      /\ at \in {"images", "questions", "workbooks"} => e.categories = {}
      /\ at \in Retried => DOMAIN y[at] \ (todo \ {f}) \subseteq Present(e)[at]
  BY <1>1 DEF ImportedSoFar, Grows
<1>3. ImportedSoFar(y, at, todo, e) /\ ImportedSoFar(y, at, todo \ {f}, e)
  BY <1>2 DEF ImportedSoFar
<1>4. ASSUME todo = {f} PROVE at \in Tables => DOMAIN y[at] \subseteq Present(e)[at]
  BY <1>1, <1>2, <1>4 DEF Grows
<1> QED
  BY <1>1, <1>2, <1>3, <1>4, PhaseEnds
(* The transactions of an import and what they do to todo.                  *)
LEMMA SingleFile ==
  ASSUME ToolOK, tool.stage \in {"clear", "images", "sequences"}, tool.todo # {}
  PROVE  tool.todo = {File}
<1>1. Files(tool.stage, tool.data) = {"the one transaction"}
  BY DEF Files
<1>2. tool.todo = {"the one transaction"}
  BY <1>1 DEF ToolOK, Phases
<1> QED
  BY <1>2 DEF File
LEMMA TransactionsGrow ==
  ASSUME SyncInvariant, tool.stage \in Phases \ {"clear"}, tool.todo # {}, Tidy(tool.data),
         Filled(tool.data, db), tool.stage = "workbooks" => db.categories = {}, NEW after \in Transaction
  PROVE  Grows(tool.data, tool.stage, File, db, after)
<1> DEFINE y == tool.data
<1>1. DirectoryOK(y) /\ tool.todo \subseteq Files(tool.stage, y)
  BY SeedingAssumption DEF SyncInvariant, SchemaInvariant, SeedingInvariant, ToolOK
<1>2. File \in Files(tool.stage, y)
  BY <1>1 DEF File
<1>3. AllTables(db) /\ BookRows(db.workbooks) /\ ConstraintsHold(db)
  BY IntactIsTyped DEF SyncInvariant, SchemaInvariant, Typed
<1>4. Tidy(y) /\ Filled(y, db)
  OBVIOUS
<1> HIDE DEF y
<1>5. CASE tool.stage = "sequences"
  <2>1. after = resetSequences(db)
    BY <1>5 DEF Transaction
  <2> QED
    BY <1>3, <1>4, <1>5, <2>1, SequencesFill DEF y
<1>6. CASE tool.stage = "images"
  <2>1. after \in importImages(y, db)
    BY <1>6 DEF Transaction, y
  <2> QED
    BY <1>1, <1>3, <1>4, <1>6, <2>1, ImagesFill DEF y
<1>7. CASE tool.stage = "questions"
  <2>1. after \in importQuestion(y, File, db) /\ File \in DOMAIN y.questions
    BY <1>2, <1>7 DEF Transaction, Files, y
  <2> QED
    BY <1>1, <1>3, <1>4, <1>7, <2>1, QuestionFills DEF y
<1>8. CASE tool.stage = "workbooks"
  <2>1. after \in importWorkbook(y, File, db) /\ File \in DOMAIN y.workbooks
    BY <1>2, <1>8 DEF Transaction, Files, y
  <2> QED
    BY <1>1, <1>3, <1>4, <1>8, <2>1, WorkbookFills DEF y
<1>9. CASE tool.stage = "categories"
  <2>1. after \in importCategory(y, File, db) /\ File \in DOMAIN y.categories
    BY <1>2, <1>9 DEF Transaction, Files, y
  <2> QED
    BY <1>1, <1>3, <1>4, <1>9, <2>1, CategoryFills DEF y
<1> QED
  BY <1>5, <1>6, <1>7, <1>8, <1>9 DEF Phases
(* The run after a step of the importer: at the next phase, at the next     *)
(* file of its phase, or at the same file again.                            *)
RunOn(t, at, todo) ==
  Runs(t, tool.kind, tool.data, tool.read, tool.clean, at) /\ t.todo = todo
LEMMA EntersNext ==
  ASSUME ToolOK
  PROVE  LET at == Following[tool.stage] IN RunOn(Entering(tool, at), at, Files(at, tool.data))
BY RunFields DEF Entering, RunOn, Runs
LEMMA ImporterRuns ==
  ASSUME ToolOK, RunInTx \/ NoFiles \/ ConnectionLost, tool' # Failed
  PROVE  /\ tool.stage \in Phases
         /\ \/ /\ db' = db /\ tool.todo = {}
               /\ RunOn(tool', Following[tool.stage], Files(Following[tool.stage], tool.data))
            \/ /\ db' \in Transaction /\ tool.todo = {File}
               /\ RunOn(tool', Following[tool.stage], Files(Following[tool.stage], tool.data))
            \/ /\ db' \in Transaction /\ tool.todo # {} /\ tool.todo # {File}
               /\ RunOn(tool', tool.stage, tool.todo \ {File})
            \/ /\ db' \in {db} \cup Transaction /\ tool.todo # {} /\ tool.stage \in Retried
               /\ RunOn(tool', tool.stage, tool.todo)
<1>1. RunOn(Entering(tool, Following[tool.stage]), Following[tool.stage], Files(Following[tool.stage], tool.data))
  BY EntersNext
<1>2. RunOn([tool EXCEPT !.todo = @ \ {File}, !.attempt = 0], tool.stage, tool.todo \ {File})
  BY RunFields DEF RunOn, Runs
<1>3. RunOn([tool EXCEPT !.attempt = @ + 1], tool.stage, tool.todo)
  BY RunFields DEF RunOn, Runs
<1>4. CASE RunInTx
  <2>1. tool.stage \in Phases /\ tool.todo # {} /\ db' \in Transaction /\ tool' = AfterFile
    BY <1>4 DEF RunInTx
  <2>2. CASE tool.todo = {File}
    BY <1>1, <2>1, <2>2 DEF AfterFile
  <2>3. CASE tool.todo # {File}
    BY <1>2, <2>1, <2>3 DEF AfterFile
  <2> QED
    BY <2>2, <2>3
<1>5. CASE NoFiles
  BY <1>1, <1>5 DEF NoFiles
<1>6. CASE ConnectionLost
  BY <1>3, <1>6 DEF ConnectionLost
<1> QED
  BY <1>4, <1>5, <1>6
LEMMA FailedClaims == ASSUME NEW d PROVE ImportClaims(Failed, d)
<1>1. Failed.stage = "failed" /\ Failed.clean = FALSE
  BY FailedRun DEF Runs
<1> QED
  BY <1>1 DEF ImportClaims
(* A step of the importer carries the claims from the old run to the new.   *)
LEMMA ImportClaimsKept ==
  ASSUME ImportInvariant, RunInTx \/ NoFiles \/ ConnectionLost
  PROVE  ImportClaims(tool', db')
<1>1. ToolOK /\ ImportClaims(tool, db) /\ SyncInvariant
  BY DEF ImportInvariant, SyncInvariant, SchemaInvariant, SeedingInvariant
<1>2. CASE tool' = Failed
  BY <1>2, FailedClaims
<1>3. CASE tool' # Failed
  <2> DEFINE y == tool.data
             at == tool.stage
             todo == tool.todo
             next == Following[at]
  <2>1. /\ at \in Phases
        /\ \/ db' = db /\ todo = {} /\ RunOn(tool', next, Files(next, y))
           \/ db' \in Transaction /\ todo = {File} /\ RunOn(tool', next, Files(next, y))
           \/ db' \in Transaction /\ todo # {} /\ todo # {File} /\ RunOn(tool', at, todo \ {File})
           \/ db' \in {db} \cup Transaction /\ todo # {} /\ at \in Retried /\ RunOn(tool', at, todo)
    BY <1>1, <1>3, ImporterRuns
  <2>2. tool.kind = "import" /\ (at \in {"clear", "images"} => todo # {} /\ todo = {File})
    BY <1>1, <2>1, SingleFile DEF ImportClaims, SyncInvariant, SyncClaims
  <2>3. /\ next \in (Phases \ {"clear"}) \cup {"done"}
        /\ next = "images" => at = "clear"
        /\ at = "clear" => next = "images"
    BY <2>1 DEF Phases, Following
  <2>4. tool'.kind = "import" /\ tool'.data = y /\ tool'.clean = tool.clean
    BY <2>1, <2>2 DEF RunOn, Runs
  <2>5. \/ tool'.stage = next /\ tool'.todo = Files(next, y)
        \/ tool'.stage = at /\ at \notin {"clear", "images"}
    BY <2>1, <2>2 DEF RunOn, Runs, Retried
  <2>6. tool'.stage \in {"clear", "images"} => tool'.todo # {}
    <3>1. Files("images", y) # {}
      BY DEF Files
    <3> QED
      BY <2>3, <2>5, <3>1
  <2>7. ASSUME tool.clean, validateReferences(y), Tidy(y) PROVE ImportedSoFar(y, tool'.stage, tool'.todo, db')
    <3>1. CASE at = "clear"
      <4>1. db' = clearData(db) /\ tool'.stage = "images"
        BY <2>1, <2>2, <2>3, <3>1 DEF Transaction, Retried, RunOn, Runs
      <4>2. AllTables(db)
        BY <1>1, IntactIsTyped DEF SyncInvariant, SchemaInvariant, Typed
      <4>3. Filled(y, db') /\ db'.categories = {}
        BY <4>1, <4>2, ClearedIsFilled
      <4>4. Behind["images"] = {} /\ "images" \notin Retried
        BY DEF Behind, Retried
      <4> QED
        BY <4>1, <4>3, <4>4 DEF ImportedSoFar
    <3>2. CASE at # "clear"
      <4>1. ImportedSoFar(y, at, todo, db) /\ at \in Phases \ {"clear"}
        BY <1>1, <2>1, <2>2, <2>7, <3>2 DEF ImportClaims
      <4>2. Filled(y, db) /\ (at = "workbooks" => db.categories = {})
        BY <4>1 DEF ImportedSoFar
      <4>3. ASSUME todo # {}, NEW e \in Transaction PROVE Grows(y, at, File, db, e)
        BY <1>1, <2>7, <4>1, <4>2, <4>3, TransactionsGrow
      <4> HIDE DEF y, at, todo
      <4>4. CASE db' = db /\ todo = {} /\ RunOn(tool', next, Files(next, y))
        <5>1. /\ at \in {"images", "questions"} => db.categories = {}
              /\ \A x \in Behind[at] : DOMAIN y[x] \subseteq Present(db)[x]
              /\ at # "images"
              /\ at \in Tables => DOMAIN y[at] \subseteq Present(db)[at]
          BY <2>2, <4>1, <4>4 DEF ImportedSoFar, Tables, Retried
        <5>2. ImportedSoFar(y, next, Files(next, y), db)
          BY <4>1, <4>2, <5>1, PhaseEnds
        <5> QED
          BY <4>4, <5>2 DEF RunOn, Runs
      <4>5. CASE db' \in Transaction /\ todo = {File} /\ RunOn(tool', next, Files(next, y))
        <5>1. ImportedSoFar(y, next, Files(next, y), db')
          BY <4>1, <4>3, <4>5, PhaseGrows
        <5> QED
          BY <4>5, <5>1 DEF RunOn, Runs
      <4>6. CASE db' \in Transaction /\ todo # {} /\ RunOn(tool', at, todo \ {File})
        <5>1. ImportedSoFar(y, at, todo \ {File}, db')
          BY <4>1, <4>3, <4>6, PhaseGrows
        <5> QED
          BY <4>6, <5>1 DEF RunOn, Runs
      <4>7. CASE db' \in {db} \cup Transaction /\ todo # {} /\ RunOn(tool', at, todo)
        <5>1. ImportedSoFar(y, at, todo, db')
          BY <4>1, <4>3, <4>7, PhaseGrows
        <5> QED
          BY <4>7, <5>1 DEF RunOn, Runs
      <4> QED
        BY <2>1, <4>4, <4>5, <4>6, <4>7
    <3> QED
      BY <3>1, <3>2
  <2>8. tool'.stage = "done" => tool'.kind \in {"sync", "import"}
    BY <2>4
  <2> HIDE DEF y, at, todo, next
  <2> QED
    BY <2>4, <2>6, <2>7, <2>8 DEF ImportClaims
<1> QED
  BY <1>2, <1>3
LEMMA ImportInit == Init => ImportInvariant
<1> SUFFICES ASSUME Init PROVE ImportInvariant
  OBVIOUS
<1>1. tool.kind = "none" /\ tool.stage = "idle"
  BY DEF Init, None
<1> QED
  BY <1>1, SyncInit DEF ImportInvariant, ImportClaims
LEMMA ImportStep == ImportInvariant /\ [Next]_vars => ImportInvariant'
<1> SUFFICES ASSUME ImportInvariant, [Next]_vars PROVE ImportInvariant'
  OBVIOUS
<1>1. SyncInvariant' /\ ToolOK /\ ImportClaims(tool, db)
  BY SyncStep DEF ImportInvariant, SyncInvariant, SchemaInvariant, SeedingInvariant
<1> SUFFICES ImportClaims(tool', db')
  BY <1>1 DEF ImportInvariant
<1>2. CASE \E y \in Data : StartSync(y)
  <2>1. tool'.kind = "sync" /\ tool'.stage \in {"plan", "failed"}
    BY <1>2 DEF StartSync, Start, None
  <2> QED
    BY <2>1 DEF ImportClaims
<1>3. CASE \E y \in Data : StartImport(y, "clear")
  <2>1. tool'.kind = "import" /\ tool'.stage = "clear" /\ tool'.todo # {}
    BY <1>3 DEF StartImport, Start, Entering, None, Files
  <2> QED
    BY <2>1 DEF ImportClaims
<1>4. CASE \E y \in Data : StartImport(y, "workbooks")
  <2>1. tool'.kind = "import" /\ tool'.stage = "workbooks" /\ ~tool'.clean
    BY <1>4 DEF StartImport, Start, Entering, None
  <2> QED
    BY <2>1 DEF ImportClaims
<1>5. CASE PlanQuery
  <2>1. tool.stage = "plan" /\ tool.kind = "sync"
    BY <1>1, <1>5 DEF PlanQuery, ToolOK
  <2>2. tool'.stage = "plan" /\ tool'.kind = "sync"
    BY <1>1, <1>5, <2>1, QueriedRun DEF Runs
  <2> QED
    BY <2>2 DEF ImportClaims
<1>6. CASE Apply /\ tool' # Failed
  <2>1. tool.kind = "sync" /\ tool' = Ended("done")
    BY <1>1, <1>6 DEF Apply, Planned, ToolOK
  <2>2. tool'.kind = "sync" /\ tool'.stage = "done"
    BY <1>1, <2>1, EndedRun DEF Runs
  <2> QED
    BY <2>2 DEF ImportClaims
<1>7. CASE tool' = Failed
  BY <1>7, FailedClaims
<1>8. CASE RunInTx \/ NoFiles \/ ConnectionLost
  BY <1>8, ImportClaimsKept
<1>9. CASE EditContent
  <2>1. tool' = [tool EXCEPT !.clean = FALSE]
    BY <1>9 DEF EditContent, Edit
  <2>2. ~tool'.clean /\ tool'.kind = tool.kind /\ tool'.stage = tool.stage /\ tool'.todo = tool.todo
    BY <1>1, <2>1, RunFields
  <2> QED
    BY <1>1, <2>2 DEF ImportClaims
<1>10. CASE UNCHANGED vars
  BY <1>1, <1>10 DEF vars
<1>11. (CommitFails \/ Killed) => tool' = Failed
  BY DEF CommitFails, Killed
<1> QED
  BY <1>2, <1>3, <1>4, <1>5, <1>6, <1>7, <1>8, <1>9, <1>10, <1>11 DEF Next
LEMMA ImportReaches ==
  ASSUME ImportInvariant, Success, tool.kind = "import", validateReferences(tool.data), Tidy(tool.data)
  PROVE  Converged(tool.data, db)
<1> DEFINE y == tool.data
<1>1. DirectoryOK(y) /\ ConstraintsHold(db)
  BY SeedingAssumption, IntactIsTyped DEF ImportInvariant, SyncInvariant, SchemaInvariant, SeedingInvariant, ToolOK
<1>2. ImportedSoFar(y, "done", tool.todo, db)
  BY DEF ImportInvariant, ImportClaims, Success
<1>3. validateReferences(y) /\ Tidy(y)
  OBVIOUS
<1> HIDE DEF y
<1>4. Filled(y, db) /\ \A x \in Tables : DOMAIN y[x] \subseteq Present(db)[x]
  BY <1>2 DEF ImportedSoFar, Behind
<1>5. Converged(y, db)
  BY <1>1, <1>3, <1>4, FilledConverges
<1> QED
  BY <1>5 DEF y
LEMMA RunsReach == ImportInvariant => UndisturbedRunsConverge
<1> SUFFICES ASSUME ImportInvariant, Success, validateReferences(tool.data), Tidy(tool.data)
             PROVE  InSync(tool.data, db) /\ (SingleKey(db.choices) => Serves(tool.data))
  BY DEF UndisturbedRunsConverge
<1>1. SyncClaims(tool, db) /\ ImportClaims(tool, db) /\ Intact(FALSE, db) /\ DirectoryOK(tool.data)
  BY SeedingAssumption DEF ImportInvariant, SyncInvariant, SchemaInvariant, SeedingInvariant, ToolOK
<1>2. Converged(tool.data, db)
  <2>1. CASE tool.kind = "sync"
    BY <1>1, <2>1 DEF SyncClaims, Success
  <2>2. CASE tool.kind = "import"
    BY <2>2, ImportReaches
  <2> QED
    BY <1>1, <2>1, <2>2 DEF ImportClaims, Success
<1>3. InSync(tool.data, db)
  BY <1>2, InSyncMeans
<1>4. ASSUME SingleKey(db.choices) PROVE Serves(tool.data)
  BY <1>1, <1>2, <1>4, ConvergedServes
<1> QED
  BY <1>3, <1>4

(* A sync or an import of a tidy data directory that succeeded and beside   *)
(* which nobody edited leaves a database for which a new plan is empty and  *)
(* whose content the API serves as the directory has it, whatever was in    *)
(* the tables before and wherever earlier runs were cut off.                *)
THEOREM RunsConverge == Spec => []UndisturbedRunsConverge
BY ImportInit, ImportStep, RunsReach, PTL DEF Spec
-----------------------------------------------------------------------------
(* What Seeding implements, for itself: any keyed content and any goal.     *)
CONSTANTS AnyKeys, AnyGoal
VARIABLES content, stage, seen, planned, undisturbed
Ideal == INSTANCE Reconciler WITH Keys <- AnyKeys, Goal <- AnyGoal

(* While nobody writes, the plan names exactly the keys that were compared  *)
(* and differ; once everything was compared and written, none differs.      *)
PlanIsExact ==
  /\ DOMAIN content = AnyKeys
  /\ seen \subseteq AnyKeys /\ planned \subseteq seen
  /\ stage = "idle" => ~undisturbed
  /\ undisturbed /\ stage = "comparing" =>
       \A k \in seen : k \in planned <=> content[k] # AnyGoal[k]
  /\ Ideal!Reached

LEMMA PlanIsExactInit == Ideal!Init => PlanIsExact
  BY DEF Ideal!Init, PlanIsExact, Ideal!Reached

LEMMA PlanIsExactStep == PlanIsExact /\ [Ideal!Next]_(Ideal!vars) => PlanIsExact'
<1> SUFFICES ASSUME PlanIsExact, [Ideal!Next]_(Ideal!vars) PROVE PlanIsExact'
  OBVIOUS
<1> USE DEF PlanIsExact, Ideal!Reached
<1>1. CASE Ideal!Start
  BY <1>1 DEF Ideal!Start
<1>2. CASE Ideal!Compare
  <2>1. content' = content /\ stage' = stage /\ undisturbed' = undisturbed
    BY <1>2 DEF Ideal!Compare
  <2>2. undisturbed => \A k \in seen' : k \in planned' <=> content[k] # AnyGoal[k]
    BY <1>2 DEF Ideal!Compare
  <2> QED BY <1>2, <2>1, <2>2 DEF Ideal!Compare
<1>3. CASE Ideal!Write
  <2>1. undisturbed => \A k \in AnyKeys : content'[k] = AnyGoal[k]
    BY <1>3 DEF Ideal!Write, Ideal!Written
  <2>2. DOMAIN content' = AnyKeys
    BY <1>3 DEF Ideal!Write, Ideal!Written
  <2> QED BY <1>3, <2>1, <2>2 DEF Ideal!Write
<1>4. CASE Ideal!Fail
  <2>1. DOMAIN content' = AnyKeys
    BY <1>4 DEF Ideal!Fail, Ideal!Written
  <2> QED BY <1>4, <2>1 DEF Ideal!Fail
<1>5. CASE Ideal!Disturb
  BY <1>5 DEF Ideal!Disturb
<1>6. CASE UNCHANGED Ideal!vars
  BY <1>6 DEF Ideal!vars
<1> QED BY <1>1, <1>2, <1>3, <1>4, <1>5, <1>6 DEF Ideal!Next

(* However the comparison is cut into parts, and whoever else writes        *)
(* between the runs: a run that nobody disturbed has reached the goal.      *)
THEOREM UndisturbedRunsReach == Ideal!Spec => []Ideal!Reached
<1>1. PlanIsExact => Ideal!Reached
  BY DEF PlanIsExact
<1> QED BY <1>1, PlanIsExactInit, PlanIsExactStep, PTL DEF Ideal!Spec
=============================================================================
