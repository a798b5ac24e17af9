------------------------------- MODULE Expand -------------------------------
(* $expand: the conversion of the entities of one response, `__convertEntity`  *)
(* of src/src/processor/processor.ts, and the resolution of the navigations    *)
(* they expand, `__include`.  All of them belong to one processor.  They run   *)
(* concurrently (Promise.all over the entities of an array and over the        *)
(* properties of an entity) and share the processor's `ctrl` and the include   *)
(* objects of the resource path: one per expanded navigation, whatever the     *)
(* number of entities, with a `stream` and a `query`.                          *)
(*                                                                             *)
(* An action is the code between two awaits.  A slot <<e, n>> is the           *)
(* expansion of navigation n for entity e.  The rows of an expansion are       *)
(* abstracted to the entities they belong to: {e} is what e should get.        *)
EXTENDS Integers, Sequences, FiniteSets

CONSTANT Requests   \* the requests to choose from, see IsRequest

(* A navigation n is resolved inline (the service returned the related rows    *)
(* with the entity), by a navigation method of the controller, or by a read    *)
(* of the target's controller.  A method to many rows may write them to the    *)
(* stream it is given and return nothing; every other one returns its rows.    *)
(* `query` are the options in parentheses: none, options without $filter,      *)
(* options with one.                                                           *)
Navigation ==
    {n \in [way : {"inline", "method", "read"},
            type : {"OneToMany", "ManyToOne", "OneToOne"},
            writes : BOOLEAN,
            query : {"none", "plain", "filtered"}] :
        n.writes => n.way = "method" /\ n.type = "OneToMany"}

(* streamed: the service writes the entities to the processor, which converts  *)
(* them one after the other; otherwise it returns them as an array.            *)
IsRequest(r) == /\ r.streamed \in BOOLEAN
                /\ r.size \in Nat \ {0}
                /\ r.navs \in Seq(Navigation) \ {<<>>}

ASSUME RequestsAssumption == Requests # {} /\ \A r \in Requests : IsRequest(r)

VARIABLES
    request,        \* the request, chosen at the start
    ctrl,           \* this.ctrl: 0 is the main controller, n that of navigation n
    includeStream,  \* include.stream: the entity that last created it, 0 if none
    includeFilter,  \* include.query.$filter: the entities whose keys it fixes
    pc,             \* where the expansion of a slot is
    old,            \* oldCtrl of __include
    handed,         \* the entity whose stream the method of a slot received
    asked,          \* the entities whose keys the query of a slot fixes
    buffer,         \* rows in the stream of a slot
    finished,       \* the slots whose stream has finished
    got             \* the rows in the response

vars == <<request, ctrl, includeStream, includeFilter, pc, old, handed, asked,
          buffer, finished, got>>

Entities == 1..request.size
Navs == DOMAIN request.navs
Slots == Entities \X Navs
Nav(s) == request.navs[s[2]]
ToMany(s) == Nav(s).type = "OneToMany"
(* Rows are found by a condition on the foreign key, not by their own key.     *)
Filtered(s) == Nav(s).type # "ManyToOne"

ExpandInit ==
    /\ request \in Requests
    /\ ctrl = 0
    /\ includeStream = [n \in Navs |-> 0]
    /\ includeFilter = [n \in Navs |-> {}]
    /\ pc = [s \in Slots |-> "idle"]
    /\ old = [s \in Slots |-> 0]
    /\ handed = [s \in Slots |-> 0]
    /\ asked = [s \in Slots |-> {}]
    /\ buffer = [s \in Slots |-> {}]
    /\ finished = {}
    /\ got = [s \in Slots |-> {}]

Goto(s, label) == pc' = [pc EXCEPT ![s] = label]

-----------------------------------------------------------------------------
(* Mutant: `_transform` calls `done` without waiting for the conversion.       *)
AllTogether(e) == TRUE

(* __convertEntity starts the expansions of its entity.  `_transform` calls    *)
(* `done`, which lets the next entity in, when the last one is converted; the  *)
(* entities of an array are converted together.                                *)
InTurn(e) == request.streamed =>
                 \A s \in Slots : s[1] < e => pc[s] = "done"

Convert(e) ==
    /\ \A n \in Navs : pc[<<e, n>>] = "idle"
    /\ InTurn(e)
    /\ pc' = [s \in Slots |-> IF s[1] = e THEN "start" ELSE pc[s]]
    /\ UNCHANGED <<request, ctrl, includeStream, includeFilter, old, handed,
                   asked, buffer, finished, got>>

(* The beginning of __include: it remembers this.ctrl; to many rows, it makes  *)
(* a stream of its own and leaves it in the include object.                    *)
Remember(s) ==
    /\ pc[s] = "start"
    /\ old' = [old EXCEPT ![s] = ctrl]

(* Mutant: an include has one stream for all entities.                         *)
OneStream(s) ==
    includeStream' = IF ToMany(s) /\ includeStream[s[2]] = 0
                     THEN [includeStream EXCEPT ![s[2]] = s[1]]
                     ELSE includeStream

NewStream(s) ==
    includeStream' = IF ToMany(s) THEN [includeStream EXCEPT ![s[2]] = s[1]]
                                  ELSE includeStream

IncludeInline(s) ==
    /\ Nav(s).way = "inline"
    /\ Remember(s)
    /\ got' = [got EXCEPT ![s] = {s[1]}]
    /\ Goto(s, "answered")
    /\ UNCHANGED <<request, ctrl, includeStream, includeFilter, handed, asked,
                   buffer, finished>>

IncludeByMethod(s) ==
    /\ Nav(s).way = "method"
    /\ Remember(s)
    /\ NewStream(s)
    /\ Goto(s, "applying")
    /\ UNCHANGED <<request, ctrl, includeFilter, handed, asked, buffer,
                   finished, got>>

(* A read to one row calls __read at once, which sets this.ctrl; a read to     *)
(* many awaits the escaped keys first.                                         *)
IncludeByRead(s) ==
    /\ Nav(s).way = "read"
    /\ Remember(s)
    /\ NewStream(s)
    /\ IF ToMany(s) THEN Goto(s, "keys") /\ UNCHANGED ctrl
                    ELSE Goto(s, "reading") /\ ctrl' = s[2]
    /\ UNCHANGED <<request, includeFilter, handed, asked, buffer, finished, got>>

Read(s) ==
    /\ pc[s] = "keys"
    /\ ctrl' = s[2]
    /\ Goto(s, "reading")
    /\ UNCHANGED <<request, includeStream, includeFilter, old, handed, asked,
                   buffer, finished, got>>

(* __read, after its await of the controller: the query of a read by foreign   *)
(* key.  Options without a $filter get that of the foreign key, in the include *)
(* object; options with one are combined with it.                              *)
Compose(s) ==
    LET n    == s[2]
        mine == IF Filtered(s) THEN {s[1]} ELSE {}
        kept == /\ Filtered(s)
                /\ Nav(s).query = "plain"
                /\ includeFilter[n] = {}
    IN /\ pc[s] = "reading"
       /\ asked' = [asked EXCEPT ![s] = mine \cup
                      (IF Filtered(s) THEN includeFilter[n] ELSE {})]
       /\ includeFilter' = IF kept THEN [includeFilter EXCEPT ![n] = mine]
                                   ELSE includeFilter
       /\ Goto(s, "applying")
       /\ UNCHANGED <<request, ctrl, includeStream, old, handed, buffer,
                      finished, got>>

(* The end of __applyParams, after the await of the sub-container; the method  *)
(* is called with include.stream as it is then.                                *)
ApplyParams(s) ==
    /\ pc[s] = "applying"
    /\ handed' = [handed EXCEPT ![s] = includeStream[s[2]]]
    /\ Goto(s, "called")
    /\ UNCHANGED <<request, ctrl, includeStream, includeFilter, old, asked,
                   buffer, finished, got>>

(* A method that returns its rows.  No row satisfies the keys of two entities. *)
(* A read whose method returns a stream (the await of include.streamPromise in *)
(* __read) is left out: only navigation methods write.                         *)
Returns(s) ==
    /\ pc[s] = "called"
    /\ ~Nav(s).writes
    /\ got' = [got EXCEPT ![s] = IF asked[s] \subseteq {s[1]} THEN {s[1]} ELSE {}]
    /\ Goto(s, "answered")
    /\ UNCHANGED <<request, ctrl, includeStream, includeFilter, old, handed,
                   asked, buffer, finished>>

(* A method that writes its rows and ends the stream; between the two it may   *)
(* wait.  What is written to a finished stream is lost.                        *)
Write(s) ==
    LET stream == <<handed[s], s[2]>>
    IN /\ pc[s] = "called"
       /\ Nav(s).writes
       /\ buffer' = IF stream \in finished THEN buffer
                    ELSE [buffer EXCEPT ![stream] = @ \cup {s[1]}]
       /\ Goto(s, "written")
       /\ UNCHANGED <<request, ctrl, includeStream, includeFilter, old, handed,
                      asked, finished, got>>

EndStream(s) ==
    /\ pc[s] = "written"
    /\ finished' = finished \cup {<<handed[s], s[2]>>}
    /\ Goto(s, "waiting")
    /\ UNCHANGED <<request, ctrl, includeStream, includeFilter, old, handed,
                   asked, buffer, got>>

(* The await of streamPromise: the stream this expansion made has finished.    *)
TakeStream(s) ==
    /\ pc[s] = "waiting"
    /\ s \in finished
    /\ got' = [got EXCEPT ![s] = buffer[s]]
    /\ Goto(s, "answered")
    /\ UNCHANGED <<request, ctrl, includeStream, includeFilter, old, handed,
                   asked, buffer, finished>>

(* The end of __include.  A read inside a streamed response does not get here: *)
(* __read awaits the 'end' of the response, which comes after its entities.    *)
Finish(s) ==
    /\ pc[s] = "answered"
    /\ ~(request.streamed /\ Nav(s).way = "read")
    /\ ctrl' = old[s]
    /\ Goto(s, "done")
    /\ UNCHANGED <<request, includeStream, includeFilter, old, handed, asked,
                   buffer, finished, got>>

(* A method throws, or a read finds nothing: the conversion is rejected, this  *)
(* expansion does not restore ctrl, the others run on.                         *)
Fail(s) ==
    /\ pc[s] = "called"
    /\ Goto(s, "failed")
    /\ UNCHANGED <<request, ctrl, includeStream, includeFilter, old, handed,
                   asked, buffer, finished, got>>

Proceed(s) ==
    \/ IncludeInline(s)
    \/ IncludeByMethod(s)
    \/ IncludeByRead(s)
    \/ Read(s)
    \/ Compose(s)
    \/ ApplyParams(s)
    \/ Returns(s)
    \/ Write(s)
    \/ EndStream(s)
    \/ TakeStream(s)
    \/ Finish(s)

ExpandNext ==
    \/ \E e \in Entities : Convert(e)
    \/ \E s \in Slots : Proceed(s) \/ Fail(s)

(* The event loop starves no entity and no expansion; methods return.          *)
Working == \/ \E e \in Entities : Convert(e)
           \/ \E s \in Slots : Proceed(s)
ExpandSpec == ExpandInit /\ [][ExpandNext]_vars /\ WF_vars(Working)

-----------------------------------------------------------------------------
Labels == {"idle", "start", "keys", "reading", "applying", "called", "written",
           "waiting", "answered", "done", "failed"}

(* The values each variable takes; a method that writes has been handed the    *)
(* stream of some entity.                                                      *)
ExpandTypeOK ==
    /\ request \in Requests
    /\ ctrl \in {0} \cup Navs
    /\ includeStream \in [Navs -> {0} \cup Entities]
    /\ includeFilter \in [Navs -> SUBSET Entities]
    /\ pc \in [Slots -> Labels]
    /\ old \in [Slots -> {0} \cup Navs]
    /\ handed \in [Slots -> {0} \cup Entities]
    /\ asked \in [Slots -> SUBSET Entities]
    /\ buffer \in [Slots -> SUBSET Entities]
    /\ finished \subseteq Slots
    /\ got \in [Slots -> SUBSET Entities]
    /\ \A s \in Slots : pc[s] \in {"written", "waiting"} => handed[s] # 0

(* What the expansions of one navigation would share through its include       *)
(* object: the stream a writing method is handed, and the $filter that options *)
(* without one receive.                                                        *)
SharesInclude(nav) ==
    nav.writes \/ (/\ nav.way = "read"
                   /\ nav.query = "plain"
                   /\ nav.type # "ManyToOne")

(* The requests that expand such a navigation for one entity at a time.        *)
Apart(r) == \A n \in DOMAIN r.navs :
                SharesInclude(r.navs[n]) => r.streamed \/ r.size = 1

(* Every entity is answered with its own related rows, all of them and nobody  *)
(* else's, however the expansions that share the include object interleave.    *)
OwnExpansion == \A s \in Slots : pc[s] = "done" => got[s] = {s[1]}

(* `_transform` and what follows the response read this.ctrl: when no          *)
(* expansion is under way it is the main controller again, although each       *)
(* restores what it found and they overlap: in a streamed response, in an      *)
(* array whose navigations are all inline or methods, and for one navigation   *)
(* of one entity.  A read that overlaps another expansion of an array may      *)
(* leave the controller of a navigation behind.                                *)
CtrlRestored ==
    /\ \/ request.streamed
       \/ \A s \in Slots : Nav(s).way # "read"
       \/ Cardinality(Slots) = 1
    /\ \A s \in Slots : pc[s] \in {"idle", "done"}
    => ctrl = 0

(* The response ends: every expansion is done, or one of them has failed.      *)
Complete == \/ \A s \in Slots : pc[s] = "done"
            \/ \E s \in Slots : pc[s] = "failed"
EveryExpandEnds == <>Complete
=============================================================================
