----------------------------- MODULE MCService -----------------------------
(* Instances of Service: teachers with a profile and classes, a view; hooks   *)
(* of every kind; single calls with every combination of query options, deep  *)
(* inserts, and pairs of calls that overlap.                                  *)
EXTENDS Service

Column(type, edm) ==
  [type |-> type, edm |-> edm, reflectType |-> "any", nullable |-> FALSE,
   default |-> FALSE, generated |-> "", length |-> FALSE, enumValues |-> {},
   custom |-> {}]
Optional(column) == [column EXCEPT !.nullable = TRUE]
Id == [Column("integer", "Edm.Int32") EXCEPT !.generated = "increment"]
Fk == Optional(Column("integer", "Edm.Int32"))
Text == [Column("varchar", "Edm.String") EXCEPT !.length = TRUE]

Nav(type, entity, fk, target) ==
  [type |-> type, entity |-> entity, foreignKey |-> fk, targetForeignKey |-> target]

Teacher ==
  [view |-> FALSE, className |-> "Teacher", key |-> "id",
   columns |-> [id |-> Id, name |-> Text, profileId |-> Fk],
   navs |-> [profile |-> Nav("OneToOne", "Profile", "profileId", None),
             classes |-> Nav("OneToMany", "Class", None, "teacherOneId"),
             friends |-> Nav("OneToMany", "Teacher", None, None)],
   navOrder |-> <<"profile", "classes", "friends">>]
Profile ==
  [view |-> FALSE, className |-> "Profile", key |-> "id",
   columns |-> [id |-> Id, title |-> [Text EXCEPT !.enumValues = {1, 2}],
                code |-> [Optional(Text) EXCEPT !.generated = "uuid"],
                score |-> [Fk EXCEPT !.reflectType = "BigNumber", !.type = "decimal",
                                     !.edm = "Edm.Decimal"]],
   navs |-> [teacher |-> Nav("OneToOne", "Teacher", None, "profileId")],
   navOrder |-> <<"teacher">>]
Class ==
  [view |-> FALSE, className |-> "Class", key |-> "id",
   columns |-> [id |-> Id, level |-> Optional(Column("Number", "Edm.Double")),
                opened |-> [Column("bigint", "Edm.DateTimeOffset") EXCEPT
                              !.reflectType = "Date", !.custom = {1, 2}],
                teacherOneId |-> Fk],
   navs |-> [teacher |-> Nav("ManyToOne", "Teacher", "teacherOneId", None)],
   navOrder |-> <<"teacher">>]
RelView ==
  [view |-> TRUE, className |-> "RelView", key |-> None,
   columns |-> [className |-> Text, open |-> Column("bool", "Edm.Boolean")],
   navs |-> <<>>, navOrder |-> <<>>]

MCModel == [Teacher |-> Teacher, Profile |-> Profile, Class |-> Class, RelView |-> RelView]

Hook(name, entity, type, order, sets, mayThrow) ==
  [name |-> name, entity |-> entity, type |-> type, order |-> order,
   sets |-> sets, mayThrow |-> mayThrow]
MCHooks ==
  <<Hook("late", "Class", "beforeCreate", 2, "level" :> [kind |-> "integer", n |-> 5], FALSE),
    Hook("first", "Class", "beforeCreate", 0, <<>>, TRUE),
    Hook("second", "Class", "beforeCreate", 0, <<>>, FALSE),
    Hook("created", "Class", "afterCreate", 1, <<>>, FALSE),
    Hook("told", "Class", "afterCreate", 0, <<>>, FALSE),
    Hook("enrolled", "Teacher", "afterCreate", 0, <<>>, FALSE),
    Hook("check", "Class", "beforeUpdate", 0, <<>>, TRUE),
    Hook("updated", "Class", "afterUpdate", 0, <<>>, FALSE),
    Hook("guard", "Class", "beforeDelete", 0, <<>>, FALSE),
    Hook("deleted", "Class", "afterDelete", 0, <<>>, FALSE),
    Hook("loaded", "Class", "afterLoad", 1, <<>>, FALSE),
    Hook("shown", "Class", "afterLoad", 0, <<>>, FALSE)>>

-----------------------------------------------------------------------------
V(kind, n) == [kind |-> kind, n |-> n]
None0 == [n \in {} |-> 0]
Only(cols) == Body(cols, None0)
Many(items) == [isArray |-> TRUE, items |-> items]
One(item) == [isArray |-> FALSE, items |-> <<item>>]

ClassBody == [opened |-> V("iso", 1)]
TeacherBody == [name |-> V("string", 1)]
ProfileBody == [title |-> V("string", 1)]

Create(entity, body) == NewCall("s", "create", entity, None, body, None)
Patch(entity, key, cols) == NewCall("s", "update", entity, key, Only(cols), None)
Put(entity, key, cols) == NewCall("s", "save", entity, key, Only(cols), None)
Erase(entity, key) == NewCall("s", "delete", entity, key, Only(None0), None)
Get(entity, key) == NewCall("s", "findOne", entity, key, Only(None0), None)
Query1(service, query) == NewCall(service, "find", "Class", None, Only(None0), query)

ClassRow(id, level, opened, teacher) ==
  [id |-> id, level |-> level, opened |-> Epoch(opened), teacherOneId |-> teacher]
Classes == <<ClassRow(1, 1, 1, 1), ClassRow(2, 2, 1, 1), ClassRow(3, 2, 2, 2),
             ClassRow(4, 3, 2, 1)>>
Database(n) ==
  [Class |-> SubSeq(Classes, 1, n), Teacher |-> <<>>, Profile |-> <<>>,
   RelView |-> <<>>]

-----------------------------------------------------------------------------
Cond(op, column, type, value) == [op |-> op, column |-> column, type |-> type, value |-> value]
Level(op, n) == Cond(op, "level", "Edm.SByte", n)
Opened(op, n) == Cond(op, "opened", "Edm.DateTimeOffset", n)
Join2(op, a, b) == [op |-> op, left |-> a, right |-> b]
Paren(a) == [op |-> "paren", inner |-> a]
Not(a) == [op |-> "not", inner |-> a]
StartsWith == [op |-> "call"]
OfTeacher == Cond("eq", "teacherOneId", "Edm.SByte", 1)

Filters1 ==
  {Level("eq", 2), Level("ne", 2), Opened("gt", 1), Opened("le", 1),
   Join2("and", OfTeacher, Paren(Join2("or", Level("eq", 2), Opened("ge", 2)))),
   Join2("or", OfTeacher, Join2("and", Level("lt", 3), Opened("eq", 2))),
   Join2("and", Paren(Join2("or", Level("eq", 3), Level("eq", 1))), Opened("lt", 2)),
   Not(Level("eq", 2)), StartsWith, Join2("and", OfTeacher, StartsWith)}
MCFilters ==
  LET Parts(nodes) == nodes
        \cup UNION {{node.left, node.right} : node \in {n \in nodes : n.op \in {"or", "and"}}}
        \cup {node.inner : node \in {n \in nodes : n.op = "paren"}}
  IN Parts(Parts(Parts(Parts(Filters1))))
Orders == {<<>>, <<[column |-> "level", desc |-> TRUE]>>,
           <<[column |-> "teacherOneId", desc |-> TRUE], [column |-> "level", desc |-> FALSE]>>}
Pages == {[top |-> None, skip |-> None], [top |-> 2, skip |-> 1], [top |-> 0, skip |-> None],
          [top |-> None, skip |-> 3], [top |-> 1, skip |-> 5]}
Shapes == {[select |-> {}, expand |-> {}], [select |-> {"level"}, expand |-> {}],
           [select |-> {"level"}, expand |-> {"teacher"}]}

Q(filter, orderby, page, shape, count) ==
  [filter |-> filter, orderby |-> orderby, top |-> page.top, skip |-> page.skip,
   select |-> shape.select, expand |-> shape.expand, count |-> count, search |-> FALSE]
AllRows == [top |-> None, skip |-> None]
Whole == [select |-> {}, expand |-> {}]

Queries ==
  {Q(f, <<>>, AllRows, Whole, TRUE) : f \in Filters1 \cup {None}}
    \cup {Q(f, o, p, Whole, TRUE) : f \in {None, OfTeacher}, o \in Orders, p \in Pages}
    \cup {Q(f, <<>>, AllRows, s, c) : f \in {None, OfTeacher}, s \in Shapes, c \in BOOLEAN}
    \cup {[Q(None, <<>>, AllRows, Whole, FALSE) EXCEPT !.search = TRUE]}

TeacherTable ==
  [Database(1) EXCEPT !.Teacher = <<[id |-> 1, name |-> 7, profileId |-> 1],
                                    [id |-> 2, name |-> 8, profileId |-> 1]>>]
TeacherQueries ==
  {[Q(None, <<>>, AllRows, [select |-> {"name"}, expand |-> e], FALSE) EXCEPT !.count = FALSE] :
     e \in SUBSET {"profile", "classes"}}

Finds ==
  {[rows |-> Database(4), calls |-> <<Query1("s", q)>>] : q \in Queries}
    \cup {[rows |-> TeacherTable,
           calls |-> <<NewCall("s", "find", "Teacher", None, Only(None0), q)>>] :
            q \in TeacherQueries}
    \cup {[rows |-> Database(n), calls |-> <<Query1("s", None)>>] : n \in {0, 3}}

Simple == Q(Level("eq", 2), <<>>, [top |-> 1, skip |-> None], Whole, TRUE)
FindPairs ==
  {[rows |-> Database(3), calls |-> <<Query1("s", Simple), Query1(i, Simple)>>] : i \in {"s", "t"}}
    \cup {[rows |-> Database(3), calls |-> <<Query1("s", Simple), c>>] :
            c \in {Erase("Class", 2), Patch("Class", 1, [level |-> V("integer", 2)])}}

-----------------------------------------------------------------------------
Writes ==
  {Create("Class", Only(ClassBody)),
   Create("Class", Only(None0)),                                \* what is required
   Create("Class", Only([opened |-> V("string", 1)])),          \* a format
   Create("Class", Only([opened |-> V("iso", 3)])),             \* a custom rule
   Create("Class", Only(ClassBody @@ [level |-> V("decimal", 1)])),
   Create("Class", Only(ClassBody @@ [levle |-> V("integer", 1)])),  \* no column
   Create("Class", Only(ClassBody @@ [id |-> V("integer", 1)])),     \* a key in use
   Patch("Class", 1, [level |-> V("integer", 4)]),
   Patch("Class", 1, [opened |-> V("integer", 1)]),
   Patch("Class", 9, ClassBody),
   Put("Class", 1, ClassBody), Put("Class", 1, None0), Put("Class", 9, ClassBody),
   Put("Class", None, ClassBody @@ [id |-> V("integer", 5)]),
   Erase("Class", 1), Erase("Class", 9)}
\* Every payload beside one that fills the cache with the rules of the other
\* method, or of its own, or that changes the same row.
Pairs ==
  {[rows |-> Database(1), calls |-> <<a, b>>] :
     a \in Writes, b \in {Create("Class", Only(ClassBody)), Put("Class", 1, ClassBody),
                          Patch("Class", 1, [level |-> V("integer", 4)]), Erase("Class", 1)}}

Singles ==
  {Create("Profile", Only([title |-> V("long", 1)])),
   Create("Profile", Only(ProfileBody @@ [code |-> V("uuid", 1), score |-> V("numeral", 1)])),
   Create("Profile", Only(ProfileBody @@ [code |-> V("string", 1)])),
   Create("Profile", Only([title |-> V("string", 3)])),
   Get("Class", 1), Get("Class", 9), Get("Class", None),
   Create("RelView", Only(None0)), Patch("RelView", 1, None0), Put("RelView", 1, None0),
   Erase("RelView", 1), Get("RelView", 1)}

ClassItem == Only(ClassBody)
BadItem == Only(None0)
WithTeacher == Body(ClassBody, [teacher |-> One(Only(TeacherBody))])
WithOwner ==
  Body(ProfileBody @@ [id |-> V("integer", 4)], [teacher |-> One(Only(TeacherBody))])
DeepInserts ==
  {Create("Teacher", Body(TeacherBody, [classes |-> Many(<<ClassItem, ClassItem>>)])),
   Create("Teacher", Body(TeacherBody, [classes |-> Many(<<BadItem, ClassItem>>)])),
   Create("Teacher", Body(TeacherBody, [profile |-> One(Only(ProfileBody)),
                                        classes |-> Many(<<ClassItem>>)])),
   Create("Teacher", Body(TeacherBody, [classes |-> One(ClassItem)])),
   Create("Teacher", Body(TeacherBody, [friends |-> Many(<<Only(TeacherBody)>>)])),
   Create("Class", WithTeacher),
   Create("Class", Body(ClassBody, [teacher |-> One(
     Body(TeacherBody, [profile |-> One(Only(ProfileBody))]))])),
   Create("Profile", Body(ProfileBody, [teacher |-> One(Only(TeacherBody))])),
   Create("Profile", WithOwner)}

MCScenarios ==
  Finds \cup FindPairs \cup Pairs
    \cup {[rows |-> Database(1), calls |-> <<c>>] : c \in Singles \cup DeepInserts}
    \cup {[rows |-> Database(0), calls |-> <<a, Create("Teacher", Body(TeacherBody,
             [profile |-> One(Only(ProfileBody))]))>>] :
             a \in {Create("Class", WithTeacher), Create("Profile", WithOwner),
                     Create("Teacher", Body(TeacherBody, [classes |-> Many(<<BadItem, ClassItem>>)]))}}

MCBodies ==
  LET Items(bodies) ==
        UNION {UNION {Range(body.navs[n].items) : n \in DOMAIN body.navs} : body \in bodies}
      sent == UNION {{s.calls[i].sent : i \in DOMAIN s.calls} : s \in MCScenarios}
  IN sent \cup Items(sent) \cup Items(Items(sent))
=============================================================================
