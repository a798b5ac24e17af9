------------------------------- MODULE Query -------------------------------
(***************************************************************************)
(* From the options of a query to SQL: src/type/visitor.ts and the helpers *)
(* of src/type/db_helper.  A filter is the parser's tree, a WHERE          *)
(* expression the sequence of conditions and connectives it is written as, *)
(* which the database reads by SQL's precedence.  Names and values are     *)
(* abstract; a column that the mapping does not know has no name, and the  *)
(* database cannot answer the statement.                                   *)
(***************************************************************************)
EXTENDS Integers, SequencesExt

CONSTANTS
  None,    \* an option that is not given
  Filters  \* the nodes of the filters that clients send

ASSUME FiltersAssumption ==
  \A node \in Filters :
    /\ node.op \in {"or", "and"} => {node.left, node.right} \subseteq Filters
    /\ node.op = "paren" => node.inner \in Filters

Comparisons == {"eq", "ne", "ge", "gt", "le", "lt"}

\* constants.ts
DEFAULT_TOP_VALUE == 1000000

\* A moment as a literal of the query is not what the database stores.
Epoch(moment) == 1000 + moment

mapQueryValue(type, raw) == IF type = "Edm.DateTimeOffset" THEN Epoch(raw) ELSE raw

Written(what) == <<[t |-> what]>>

\* Mutant: the parentheses of the filter are left out.
WithoutParentheses(filter, mapping) ==
  LET sql[node \in Filters] ==
        CASE node.op \in Comparisons ->
               <<[t |-> "condition", op |-> node.op, column |-> mapping[node.column],
                  value |-> mapQueryValue(node.type, node.value)]>>
          [] node.op \in {"or", "and"} -> sql[node.left] \o Written(node.op) \o sql[node.right]
          [] node.op = "paren" -> sql[node.inner]
          [] OTHER -> Written("undefined")
  IN sql[filter]

\* Every node gets the text of its own; a node without a case here has none
\* and is written as "undefined" by the node it is in.
transformFilterAst(filter, mapping) ==
  LET sql[node \in Filters] ==
        CASE node.op \in Comparisons ->
               <<[t |-> "condition", op |-> node.op, column |-> mapping[node.column],
                  value |-> mapQueryValue(node.type, node.value)]>>
          [] node.op \in {"or", "and"} -> sql[node.left] \o Written(node.op) \o sql[node.right]
          [] node.op = "paren" -> Written("(") \o sql[node.inner] \o Written(")")
          [] OTHER -> Written("undefined")
  IN sql[filter]

\* A filter that is one such node gives no WHERE at all.
Where(filter, mapping) ==
  IF filter = None \/ filter.op \in {"not", "call"} THEN <<>>
  ELSE transformFilterAst(filter, mapping)

\* What an expanded navigation is read by is selected too.
NavSelects(entity, expand) ==
  {entity.key : n \in {n \in expand : entity.navs[n].type = "OneToMany"}}
    \cup ({entity.navs[n].foreignKey :
             n \in {n \in expand : entity.navs[n].type # "OneToMany"}} \ {None})

transformQueryAst(entity, query, mapping) ==
  [where |-> Where(query.filter, mapping),
   orderBy |-> [i \in DOMAIN query.orderby |->
                  [column |-> mapping[query.orderby[i].column],
                   desc |-> query.orderby[i].desc]],
   limit |-> IF query.top = None THEN DEFAULT_TOP_VALUE ELSE query.top,
   offset |-> IF query.skip = None THEN 0 ELSE query.skip,
   fields |-> {mapping[f] : f \in query.select}
                \cup (IF query.select = {} THEN {}
                      ELSE {mapping[f] : f \in NavSelects(entity, query.expand)}),
   count |-> query.count]

\* The count is of the rows the filter leaves, whatever is paged.
CountStatement(statement) ==
  [statement EXCEPT !.fields = {}, !.orderBy = <<>>,
                    !.limit = DEFAULT_TOP_VALUE, !.offset = 0]

buildSQL(entity, query, mapping) ==
  LET statement == transformQueryAst(entity, query, mapping)
  IN [queryStatement |-> statement,
      countStatement |-> IF query.count THEN CountStatement(statement) ELSE None]

-----------------------------------------------------------------------------
(* The database *)

Compares(op, a, b) ==
  CASE op = "eq" -> a = b [] op = "ne" -> a # b [] op = "ge" -> a >= b
    [] op = "gt" -> a > b [] op = "le" -> a <= b [] op = "lt" -> a < b

Understood(where) ==
  \A i \in DOMAIN where :
    /\ where[i].t # "undefined"
    /\ where[i].t = "condition" => where[i].column # None

\* The places of a stretch that are in no parentheses of it.
Outside(where, from, to) ==
  LET Places(t, k) == Cardinality({j \in from .. k - 1 : where[j].t = t})
  IN {k \in from .. to : where[k].t # ")" /\ Places("(", k) = Places(")", k)}

\* OR binds weaker than AND: some part between ORs has only true terms.
IsTrue(where, row) ==
  LET true[from \in 1 .. Len(where), to \in 1 .. Len(where)] ==
        \E terms \in {Outside(where, from, to)} :
        \E start \in {from - 1} \cup {k \in terms : where[k].t = "or"} :
          \A k \in terms :
            start < k /\ (\A j \in terms : start < j /\ j <= k => where[j].t # "or") =>
              CASE where[k].t = "condition" ->
                     Compares(where[k].op, row[where[k].column], where[k].value)
                [] where[k].t = "(" ->
                     true[k + 1, Min({j \in terms : k < j} \cup {to + 1}) - 2]
                [] OTHER -> TRUE
  IN true[1, Len(where)]

CanAnswer(statement) ==
  /\ Understood(statement.where)
  /\ None \notin statement.fields
  /\ \A i \in DOMAIN statement.orderBy : statement.orderBy[i].column # None

Precedes(orderBy, a, b) ==
  \E i \in DOMAIN orderBy :
    LET c == orderBy[i].column
    IN /\ \A j \in 1 .. i - 1 : a[orderBy[j].column] = b[orderBy[j].column]
       /\ IF orderBy[i].desc THEN a[c] > b[c] ELSE a[c] < b[c]

\* The keys of the rows that WHERE leaves.
Selected(statement, table) ==
  IF statement.where = <<>> THEN DOMAIN table
  ELSE {k \in DOMAIN table : IsTrue(statement.where, table[k])}

\* They come in any order that ORDER BY allows.
Answers(statement, table) ==
  {SubSeq(s, statement.offset + 1,
          IF statement.offset + statement.limit < Len(s)
            THEN statement.offset + statement.limit ELSE Len(s)) :
     s \in {s \in SetToSeqs(Selected(statement, table)) :
              \A i, j \in DOMAIN s :
                i < j => ~Precedes(statement.orderBy, table[s[j]], table[s[i]])}}

Project(statement, row) ==
  [c \in IF statement.fields = {} THEN DOMAIN row ELSE statement.fields |-> row[c]]

-----------------------------------------------------------------------------
(* What the options mean to OData *)

Holds(filter, row) ==
  LET holds[node \in Filters] ==
        CASE node.op \in Comparisons ->
               Compares(node.op, row[node.column], mapQueryValue(node.type, node.value))
          [] node.op = "or" -> holds[node.left] \/ holds[node.right]
          [] node.op = "and" -> holds[node.left] /\ holds[node.right]
          [] node.op = "paren" -> holds[node.inner]
          [] OTHER -> FALSE
  IN holds[filter]

Supported(filter) ==
  LET supported[node \in Filters] ==
        CASE node.op \in {"or", "and"} -> supported[node.left] /\ supported[node.right]
          [] node.op = "paren" -> supported[node.inner]
          [] OTHER -> node.op \in Comparisons
  IN supported[filter]

Matching(query, table) ==
  {k \in DOMAIN table : query.filter # None => Holds(query.filter, table[k])}

\* The rows found are the page of the matching ones that $orderby, $skip and
\* $top name: no row left out belongs before the page once $skip rows are
\* passed over, and none inside it.
IsPage(found, query, table) ==
  LET all == Matching(query, table)
      rest == all \ {found[i] : i \in DOMAIN found}
      Before(a, b) == Precedes(query.orderby, table[a], table[b])
      skip == IF query.skip = None THEN 0 ELSE query.skip
      left == IF Cardinality(all) > skip THEN Cardinality(all) - skip ELSE 0
  IN /\ \A i \in DOMAIN found : found[i] \in all
     /\ \A i, j \in DOMAIN found :
          i < j => found[i] # found[j] /\ ~Before(found[j], found[i])
     /\ Len(found) = IF query.top # None /\ query.top < left THEN query.top ELSE left
     /\ found # <<>> =>
          /\ Cardinality({k \in rest : Before(k, found[1])}) <= skip
          /\ Cardinality({k \in rest : ~Before(found[Len(found)], k)}) >= skip
          /\ \A k \in rest : \/ ~Before(found[1], k)
                             \/ ~Before(k, found[Len(found)])
=============================================================================
