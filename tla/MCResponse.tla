----------------------------- MODULE MCResponse -----------------------------
(* Instances of Response: categories with products, order lines with a         *)
(* compound key, on a server of typed services and on servers of controllers   *)
(* written by hand; the URLs that combine their segments; rows that stream.    *)
EXTENDS Response

D(c, p, v, s) == [class |-> c, prop |-> p, verb |-> v, sub |-> s, from |-> "", to |-> ""]
K(c, p, f, t) == [class |-> c, prop |-> p, verb |-> "key", sub |-> "", from |-> f, to |-> t]

(* TypedService, in the order in which TypeScript runs its decorators.         *)
ServiceDecorators ==
    <<K("TypedService", "findOne", "key", "key"), D("TypedService", "findOne", "get", ""),
      D("TypedService", "find", "get", ""), D("TypedService", "create", "post", ""),
      K("TypedService", "save", "key", "key"), D("TypedService", "save", "put", ""),
      K("TypedService", "update", "key", "key"), D("TypedService", "update", "patch", ""),
      K("TypedService", "delete", "key", "key"), D("TypedService", "delete", "delete", "")>>
ServiceMethods == <<"findOne", "find", "create", "save", "update", "delete">>

Navs == [Category |-> [Products |-> [target |-> "Product", many |-> TRUE, fk |-> "category"]],
         Product |-> [Category |-> [target |-> "Category", many |-> FALSE, fk |-> "category"]],
         Special |-> [Category |-> [target |-> "Category", many |-> FALSE, fk |-> "category"]],
         Line |-> [Category |-> [target |-> "Category", many |-> FALSE, fk |-> "category"]]]

Op(on, name, action, returns) ==
    [on |-> on, name |-> name, action |-> action, returns |-> returns]

Typed ==
    [name |-> "typed",
     chain |-> [TypedService |-> <<"TypedService">>,
                CategoryService |-> <<"CategoryService", "TypedService">>,
                ProductService |-> <<"ProductService", "TypedService">>],
     props |-> [TypedService |-> ServiceMethods, CategoryService |-> <<>>,
                ProductService |-> <<"findOne", "find">>],
     decorators |-> ServiceDecorators
         \o <<K("ProductService", "findOne", "id", "id"),
              D("ProductService", "findOne", "get", ""),
              D("ProductService", "find", "get", "")>>,
     controllerOf |-> [Category |-> "CategoryService", Product |-> "ProductService"],
     entitySets |-> [Categories |-> "Category", Products |-> "Product"],
     navs |-> Navs, lax |-> TRUE, streams |-> {}, streamed |-> {}, media |-> {},
     children |-> {},
     entityOps |-> {Op("Product", "discount", TRUE, FALSE)},
     controllerOps |-> {Op("CategoryService", "largest", FALSE, TRUE)},
     imports |-> {}]

(* Controllers written by hand: keys under other names, a navigation method,   *)
(* property, $value and $ref methods, a read-only controller, compound keys.   *)
Custom ==
    [name |-> "custom",
     chain |-> [Categories |-> <<"Categories">>, Products |-> <<"Products">>,
                Lines |-> <<"Lines">>],
     props |-> [Categories |-> <<"find", "findOne", "products", "insert", "link",
                                 "nameOf", "rename">>,
                Products |-> <<"find", "findOne", "get", "name", "put", "patch",
                               "remove", "content", "setContent">>,
                Lines |-> <<"all", "findOne", "patch">>],
     decorators |->
       <<D("Categories", "find", "get", ""),
         K("Categories", "findOne", "id", "id"), D("Categories", "findOne", "get", ""),
         D("Categories", "products", "get", "Products"),
         D("Categories", "insert", "post", ""),
         K("Categories", "link", "id", "category"),
         D("Categories", "link", "post", "Products/$ref"),
         K("Categories", "nameOf", "id", "id"), D("Categories", "nameOf", "get", "Name/$value"),
         K("Categories", "rename", "id", "id"), D("Categories", "rename", "put", "Name/$value"),
         D("Products", "find", "get", ""),
         K("Products", "findOne", "product", "product"), D("Products", "findOne", "get", ""),
         K("Products", "name", "id", "product"), D("Products", "name", "get", "Name"),
         K("Products", "put", "id", "id"),
         K("Products", "patch", "id", "product"), D("Products", "patch", "patch", ""),
         K("Products", "remove", "id", "id"), D("Products", "remove", "delete", ""),
         K("Products", "content", "id", "id"), D("Products", "content", "get", "$value"),
         K("Products", "setContent", "id", "id"), D("Products", "setContent", "put", "$value"),
         D("Lines", "all", "get", ""),
         K("Lines", "findOne", "nr", "number"), K("Lines", "findOne", "pos", "position"),
         D("Lines", "findOne", "get", ""),
         K("Lines", "patch", "nr", "nr"), K("Lines", "patch", "pos", "p"),
         D("Lines", "patch", "patch", "")>>,
     controllerOf |-> [Category |-> "Categories", Product |-> "Products", Line |-> "Lines"],
     entitySets |-> [Categories |-> "Category", Products |-> "Product", Lines |-> "Line"],
     navs |-> Navs, lax |-> FALSE, streams |-> {}, streamed |-> {"Picture"},
     media |-> {"Product", "Line"}, children |-> {"Special"},
     entityOps |-> {Op("Product", "discount", TRUE, FALSE), Op("Product", "price", FALSE, TRUE)},
     controllerOps |-> {Op("Products", "cheapest", FALSE, TRUE),
                        Op("Products", "newest", FALSE, TRUE),
                        Op("Categories", "newest", FALSE, TRUE),
                        Op("Products", "tidy", TRUE, TRUE),
                        Op("Categories", "tidy", TRUE, FALSE)},
     imports |-> {Op("server", "now", FALSE, TRUE), Op("server", "reset", TRUE, FALSE)}]

(* The same with collections that are written to the processor.                *)
StreamingServer == [Custom EXCEPT !.name = "streaming", !.streams = {<<"Products", "find">>}, !.media = {}]

MCServers == {Typed, Custom, StreamingServer}

-----------------------------------------------------------------------------
Seg(type, name) == [type |-> type, name |-> name, key |-> <<>>]
Set(name) == Seg("EntitySetName", name)
Key1(n) == [type |-> "SimpleKey", name |-> "", key |-> <<[name |-> "id", value |-> n]>>]
Key2(n, m) == [type |-> "CompoundKey", name |-> "",
               key |-> <<[name |-> "nr", value |-> n], [name |-> "pos", value |-> m]>>]
Many == Seg("EntityCollectionNavigationProperty", "Products")
ToOne == Seg("EntityNavigationProperty", "Category")
Name == Seg("PrimitiveProperty", "Name")
Picture == Seg("PrimitiveProperty", "Picture")
CountOf == Seg("CountExpression", "$count")
ValueOf == Seg("ValueExpression", "$value")
RefOf == Seg("RefExpression", "$ref")
Function(name) == Seg("BoundFunctionCall", name)
Action(name) == Seg("BoundActionCall", name)

Category(n) == <<Set("Categories"), Key1(n)>>
Product(n) == <<Set("Products"), Key1(n)>>

Entities == {Category(1), Product(1), Product(2), Product(3)}
            \cup {Category(n) \o <<Many, Key1(2)>> : n \in {1, 2}}
            \cup {Product(n) \o <<ToOne>> : n \in {1, 2}}
Collections == {<<Set("Categories")>>, <<Set("Products")>>}
               \cup {Category(n) \o <<Many>> : n \in {1, 2}}
               \cup {Product(n) \o <<ToOne, Many>> : n \in {2, 4}}

Reads == Entities \cup Collections
         \cup {c \o <<CountOf>> : c \in Collections}
         \cup {e \o <<Name>> : e \in Entities}
         \cup {e \o <<Name, ValueOf>> : e \in {Product(1), Category(1)}}
         \cup {Product(1) \o <<ToOne, RefOf>>, Category(2) \o <<Many, RefOf>>,
               <<Seg("SingletonEntity", "Me")>>}
Writes == {[verb |-> v, path |-> p] : v \in {"put", "patch", "delete"},
                                      p \in Entities \cup {e \o <<Name>> : e \in Entities}}
          \cup {[verb |-> "post", path |-> p] : p \in Collections}
          \cup {[verb |-> v, path |-> Category(1) \o <<Many, RefOf>>] : v \in {"post", "delete"}}
          \cup {[verb |-> "post", path |-> Product(n) \o <<Action("discount")>>] : n \in {1, 3}}

Common == {[verb |-> "get", path |-> p] : p \in Reads} \cup Writes
OfCustom ==
    {[verb |-> "get", path |-> p] : p \in
        {<<Set("Lines"), Key2(1, 2)>>, <<Set("Lines"), Key2(1, 2), ValueOf>>,
         <<Set("Lines")>>,
         Product(1) \o <<Function("price")>>, <<Set("Products"), Function("cheapest")>>,
         Category(1) \o <<Many, Function("cheapest")>>,
         Category(1) \o <<Many, Function("newest")>>,
         Product(1) \o <<ToOne, Many, Function("cheapest")>>,
         Product(1) \o <<ValueOf>>, Product(2) \o <<Picture>>,
         Product(1) \o <<Picture, ValueOf>>,
         Product(1) \o <<Seg("QualifiedEntityTypeName", "Special"), ToOne>>,
         Product(1) \o <<Seg("QualifiedEntityTypeName", "Product"), Name>>,
         <<Seg("FunctionImportCall", "now")>>, <<Seg("FunctionImportCall", "now"), ValueOf>>,
         Product(1) \o <<RefOf>>}}
    \cup {[verb |-> v, path |-> <<Set("Lines"), Key2(1, 2)>>] : v \in {"patch", "delete"}}
    \cup {[verb |-> "post", path |-> <<Seg("ActionImportCall", "reset")>>],
          [verb |-> "post", path |-> Category(1) \o <<Many, Action("tidy")>>],
          [verb |-> "put", path |-> Product(1) \o <<ValueOf>>]}
    \cup {[verb |-> v, path |-> p \o <<CountOf>>] :
              v \in WriteMethods, p \in {<<Set("Products")>>, Category(2) \o <<Many>>}}
    \cup {[verb |-> v, path |-> Product(1) \o <<Seg("QualifiedEntityTypeName", "Special")>>] :
              v \in {"put", "patch"}}
    \cup {[verb |-> "put", path |-> p \o <<Name, ValueOf>>] : p \in {Category(1), Product(1)}}

OfStreaming == {r \in Common \cup OfCustom :
                    /\ r.path[1] = Set("Products")
                    /\ r.verb = "get" \/ Len(r.path) = 2}

MCRequests == [typed |-> Common, custom |-> Common \cup OfCustom,
               streaming |-> OfStreaming]

(* Category 1 has products 1 and 4, product 2 has no category; category 2 is   *)
(* missing in the second database.                                             *)
MCDatabases ==
    {[rows |-> [Category |-> c, Product |-> {1, 2, 4}, Line |-> {1}],
      fk |-> (<<"Product", 1>> :> 1 @@ <<"Product", 4>> :> 1)] : c \in {{1}, {1, 2}}}

Row(r) == [row |-> r, count |-> -1]
CountChunk(n) == [row |-> 0, count |-> n]
RowAndCount(r, n) == [row |-> r, count |-> n]

Scripts == {<<>>, <<Row(1)>>, <<Row(1), Row(2)>>, <<Row(1), Row(2), Row(3)>>,
            <<CountChunk(0)>>, <<CountChunk(2), Row(1), Row(2)>>,
            <<Row(1), CountChunk(2), Row(2)>>, <<RowAndCount(1, 2), Row(2)>>,
            <<Row(1), RowAndCount(2, 2)>>, <<CountChunk(2)>>}
MCStreams ==
    {s \in [way : Ways, script : Scripts, streamEnabled : BOOLEAN] : IsStream(s)}
=============================================================================
