----------------------------- MODULE Validation -----------------------------
(***************************************************************************)
(* The rules a payload is checked against, src/type/validate.ts and        *)
(* columnToValidateRule of src/type/decorators/assert.ts.  A value is a    *)
(* record of its kind, the most that the rules tell apart, and a number    *)
(* that tells values of a kind apart; "long" is a string of more           *)
(* characters than any column takes, "numeral" a string that is a number.  *)
(***************************************************************************)
EXTENDS Integers, FiniteSets

Strings == {"string", "long", "uuid", "iso", "numeral"}
Numbers == {"integer", "decimal"}
Kinds == Strings \cup Numbers \cup {"boolean"}

StringTypes == {"date", "nvarchar", "nvarchar2", "varchar", "varchar2", "char",
                "text", "String"}
DateTypes == {"datetime", "datetime2", "datetimeoffset", "Date"}
NumberTypes == {"decimal", "dec", "float", "float4", "float8", "int", "integer",
                "int2", "int4", "int8", "int64", "bigint", "Number", "BigNumber"}
IntegerTypes == {"int", "integer", "int2", "int4", "int8", "int64", "bigint"}

\* Only POST asks for what has no default.
Presence(column, method) ==
  method = "POST" /\ ~(column.nullable \/ column.default \/ column.generated # "")

Format(column) ==
  CASE column.type \in StringTypes -> IF column.generated = "uuid" THEN "uuid" ELSE "any"
    [] column.type = "uuid" -> "uuid"
    [] column.type \in DateTypes -> "iso"
    [] column.type \in NumberTypes ->
         IF column.reflectType = "Date" THEN "iso"
         ELSE IF column.reflectType = "BigNumber" THEN "bigNumber" ELSE "number"
    [] column.type \in {"bool", "boolean"} -> "boolean"
    [] OTHER -> "unchecked"

\* What the format lets through.  A number column takes integers only, be it
\* a decimal one; a BigNumber may be written as a string.
KindsOf(column) ==
  LET format == Format(column)
  IN CASE format = "any" -> IF column.length THEN Strings \ {"long"} ELSE Strings
       [] format \in {"uuid", "iso", "boolean"} -> {format}
       [] format = "number" -> {"integer"}
       [] format = "bigNumber" ->
            IF column.type \in IntegerTypes THEN {"integer", "numeral"}
            ELSE Numbers \cup {"numeral"}
       [] OTHER -> Kinds

columnToValidateRule(column, method) ==
  [presence |-> Presence(column, method), kinds |-> KindsOf(column),
   within |-> column.enumValues]

createColumnValidationRules(entity, method) ==
  [c \in DOMAIN entity.columns |-> columnToValidateRule(entity.columns[c], method)]

\* Rules given by the decorator @Validate hold for every method.
createCustomValidationRules(entity) ==
  [c \in {c \in DOMAIN entity.columns : entity.columns[c].custom # {}} |->
     entity.columns[c].custom]

RulesOf(entity, method) ==
  [columnRules |-> createColumnValidationRules(entity, method),
   customRules |-> createCustomValidationRules(entity)]

\* Mutant: the rules are kept for the entity alone.
RulesKeyOfEntity(entity, method) == <<entity.className, "any">>

\* Rules are made once and kept under this key.
RulesKey(entity, method) == <<entity.className, method>>

\* validate.js: a rule other than presence lets a missing value through.
Breaks(rules, cols) ==
  {c \in DOMAIN rules.columnRules :
     LET rule == rules.columnRules[c]
     IN IF c \in DOMAIN cols
          THEN \/ cols[c].kind \notin rule.kinds
               \/ rule.within # {} /\ cols[c].n \notin rule.within
          ELSE rule.presence}
  \cup {c \in DOMAIN rules.customRules \cap DOMAIN cols :
          cols[c].n \notin rules.customRules[c]}

\* Every message of a payload under the given rules: what breaks them, and
\* what is neither a column nor a navigation of the entity.
Messages(entity, rules, cols, navs) ==
  Breaks(rules, cols)
    \cup ((DOMAIN cols \cup DOMAIN navs) \ (DOMAIN entity.columns \cup DOMAIN entity.navs))
=============================================================================
