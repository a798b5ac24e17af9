---------------------------- MODULE ExpandProofs ----------------------------
(* What holds of the expansions of a response for any number of entities and   *)
(* navigations.                                                                *)
EXTENDS Expand, FiniteSetTheorems, TLAPS

ETypes ==
    /\ request \in Requests
    /\ ctrl \in {0} \cup Navs
    /\ includeStream \in [Navs -> {0} \cup Entities]
    /\ includeFilter \in [Navs -> SUBSET Entities]
    /\ pc \in [Slots -> Labels]
    /\ old \in [Slots -> {0} \cup Navs]
    /\ handed \in [Slots -> {0} \cup Entities]
    /\ asked \in [Slots -> SUBSET Entities]
    /\ buffer \in [Slots -> SUBSET Entities]
    /\ finished \subseteq Slots
    /\ got \in [Slots -> SUBSET Entities]

(* Where an expansion may be, by its navigation, and that a method which       *)
(* writes finds a stream.                                                      *)
WayOf(s) ==
    /\ pc[s] \in {"keys", "reading"} => Nav(s).way = "read"
    /\ pc[s] \in {"written", "waiting"} => Nav(s).writes
    /\ Nav(s).writes =>
           /\ pc[s] = "applying" => includeStream[s[2]] # 0
           /\ pc[s] \in {"called", "written", "waiting"} => handed[s] # 0

EInv == ETypes /\ \A s \in Slots : WayOf(s)

(* The entities of a streamed response have their turns, and a read inside it  *)
(* never ends.                                                                 *)
TurnInv ==
    request.streamed =>
        /\ \A s, t \in Slots : s[1] < t[1] /\ pc[t] # "idle" => pc[s] = "done"
        /\ \A s \in Slots : Nav(s).way = "read" => pc[s] # "done"

Alone(n) == SharesInclude(request.navs[n]) => request.streamed \/ request.size = 1

(* The include object holds nothing of another entity.                         *)
FilterInv ==
    \A s \in Slots :
        /\ s[1] \in includeFilter[s[2]] =>
               /\ pc[s] # "idle"
               /\ Nav(s).way = "read" /\ Nav(s).query = "plain" /\ Filtered(s)
        /\ Alone(s[2]) => asked[s] \subseteq {s[1]}

StreamOf(s) ==
    /\ pc[s] = "applying" => includeStream[s[2]] = s[1]
    /\ pc[s] \in {"called", "written", "waiting"} => handed[s] = s[1]
    /\ buffer[s] = IF pc[s] \in {"written", "waiting", "answered", "done"}
                   THEN {s[1]} ELSE {}
    /\ s \in finished => pc[s] \in {"waiting", "answered", "done"}

StreamInv ==
    \A s \in Slots : Nav(s).writes /\ Alone(s[2]) => StreamOf(s)

GotInv ==
    \A s \in Slots :
        Alone(s[2]) /\ pc[s] \in {"answered", "done"} => got[s] = {s[1]}

ReadBegan(s) == Nav(s).way = "read" /\ pc[s] \notin {"idle", "start"}

CtrlInv ==
    /\ (\A s \in Slots : ~ReadBegan(s)) =>
           ctrl = 0 /\ \A s \in Slots : old[s] = 0
    /\ (\A s, t \in Slots : s = t) =>
           \A s \in Slots : /\ old[s] = 0
                            /\ pc[s] \in {"idle", "start", "done"} => ctrl = 0
-----------------------------------------------------------------------------
(* A slot is an entity and a navigation.                                       *)
LEMMA SlotParts ==
    ASSUME NEW s \in Slots
    PROVE  /\ s[1] \in Entities /\ s[2] \in Navs /\ s = <<s[1], s[2]>>
           /\ \A t \in Slots : s[1] = t[1] /\ s[2] = t[2] => s = t
           /\ \A e \in Entities : <<e, s[2]>> \in Slots
  BY DEF Slots

(* A method that writes is one to many rows; nothing else is.                  *)
LEMMA WritersAreMethods ==
    ASSUME ETypes, NEW s \in Slots
    PROVE  /\ Nav(s).writes \in BOOLEAN
           /\ Nav(s).writes => Nav(s).way = "method" /\ ToMany(s)
           /\ Nav(s).way = "read" => Nav(s).writes = FALSE
  <1>1. request.navs \in Seq(Navigation) /\ s[2] \in DOMAIN request.navs
    BY RequestsAssumption, SlotParts DEF ETypes, IsRequest, Navs
  <1>2. Nav(s) \in Navigation
    BY <1>1 DEF Nav
  <1> QED
    BY <1>2 DEF Navigation, ToMany

(* The request, and with it the slots and what they expand, stays.             *)
LEMMA RequestStays ==
    ASSUME [ExpandNext]_vars
    PROVE  /\ request' = request /\ Slots' = Slots
           /\ Navs' = Navs /\ Entities' = Entities
  <1>1. request' = request
    BY DEF ExpandNext, vars, Convert, Proceed, Fail, IncludeInline, IncludeByMethod, IncludeByRead, Read, Compose, ApplyParams, Returns, Write, EndStream, TakeStream, Finish
  <1> QED
    BY <1>1 DEF Slots, Navs, Entities

(* ETypes is kept by every step.                                               *)
LEMMA TypesStep ==
    ASSUME EInv, [ExpandNext]_vars
    PROVE  ETypes'
  <1> USE RequestStays DEF ETypes, Labels, Goto
  <1>1. CASE UNCHANGED vars
    BY <1>1 DEF EInv, vars
  <1>2. ASSUME NEW e \in Entities, Convert(e)
        PROVE  ETypes'
    BY <1>2 DEF EInv, Convert
  <1>3. ASSUME NEW s \in Slots, Proceed(s) \/ Fail(s)
        PROVE  ETypes'
    <2> USE SlotParts DEF EInv, Remember, NewStream
    <2>1. CASE IncludeInline(s)
      BY <2>1 DEF IncludeInline
    <2>2. CASE IncludeByMethod(s)
      BY <2>2 DEF IncludeByMethod
    <2>3. CASE IncludeByRead(s)
      BY <2>3 DEF IncludeByRead
    <2>4. CASE Read(s)
      BY <2>4 DEF Read
    <2>5. CASE Compose(s)
      BY <2>5 DEF Compose
    <2>6. CASE ApplyParams(s)
      BY <2>6 DEF ApplyParams
    <2>7. CASE Returns(s)
      BY <2>7 DEF Returns
    <2>8. CASE Write(s)
      <3> DEFINE stream == <<handed[s], s[2]>>
                 more == [buffer EXCEPT ![stream] = @ \cup {s[1]}]
      <3>1. \/ buffer' = buffer
            \/ buffer' = more
        BY <2>8 DEF Write
      <3>2. more \in [Slots -> SUBSET Entities]
        <4>1. stream \in Slots => buffer[stream] \cup {s[1]} \in SUBSET Entities
          OBVIOUS
        <4> HIDE DEF stream
        <4> QED
          BY <4>1
      <3> QED
        BY <2>8, <3>1, <3>2 DEF Write
    <2>9. CASE EndStream(s)
      <3>1. Nav(s).writes /\ handed[s] # 0 /\ handed[s] \in {0} \cup Entities
        BY <2>9 DEF EndStream, WayOf
      <3>2. <<handed[s], s[2]>> \in Slots
        <4>1. handed[s] \in Entities
          BY <3>1
        <4> QED
          BY <4>1, SlotParts
      <3> QED
        BY <2>9, <3>2 DEF EndStream
    <2>10. CASE TakeStream(s)
      BY <2>10 DEF TakeStream
    <2>11. CASE Finish(s)
      BY <2>11 DEF Finish
    <2>12. CASE Fail(s)
      BY <2>12 DEF Fail
    <2> QED
      BY <1>3, <2>1, <2>2, <2>3, <2>4, <2>5, <2>6, <2>7, <2>8, <2>9, <2>10, <2>11, <2>12 DEF Proceed
  <1> QED
    BY <1>1, <1>2, <1>3 DEF ExpandNext

(* How one expansion moves: it is under way before, and no other slot moves.   *)
LEMMA SlotMoves ==
    ASSUME EInv, NEW s \in Slots, Proceed(s) \/ Fail(s)
    PROVE  /\ \A t \in Slots : t # s => pc'[t] = pc[t]
           /\ pc[s] \notin {"idle", "done", "failed"}
           /\ pc'[s] \notin {"idle", "start"}
           /\ pc'[s] = "done" => ~(request.streamed /\ Nav(s).way = "read")
  <1> USE DEF EInv, ETypes, Goto
  <1>1. pc \in [Slots -> Labels]
    OBVIOUS
  <1>2. CASE IncludeInline(s)
    BY <1>2 DEF IncludeInline, Remember
  <1>3. CASE IncludeByMethod(s)
    BY <1>3 DEF IncludeByMethod, Remember
  <1>4. CASE IncludeByRead(s)
    BY <1>4 DEF IncludeByRead, Remember
  <1>5. CASE Read(s)
    BY <1>5 DEF Read
  <1>6. CASE Compose(s)
    BY <1>6 DEF Compose
  <1>7. CASE ApplyParams(s)
    BY <1>7 DEF ApplyParams
  <1>8. CASE Returns(s)
    BY <1>8 DEF Returns
  <1>9. CASE Write(s)
    BY <1>9 DEF Write
  <1>10. CASE EndStream(s)
    BY <1>10 DEF EndStream
  <1>11. CASE TakeStream(s)
    BY <1>11 DEF TakeStream
  <1>12. CASE Finish(s)
    BY <1>12 DEF Finish
  <1>13. CASE Fail(s)
    BY <1>13 DEF Fail
  <1> QED
    BY <1>2, <1>3, <1>4, <1>5, <1>6, <1>7, <1>8, <1>9, <1>10, <1>11, <1>12, <1>13 DEF Proceed

(* How the expansions of an entity start: no other entity is concerned.        *)
LEMMA EntityMoves ==
    ASSUME EInv, NEW e \in Entities, Convert(e)
    PROVE  \A t \in Slots :
              /\ t[1] = e => pc[t] = "idle" /\ pc'[t] = "start"
              /\ t[1] # e => pc'[t] = pc[t]
  <1>1. \A t \in Slots : t[1] = e => t = <<e, t[2]>> /\ t[2] \in Navs
    BY SlotParts
  <1> QED
    BY <1>1 DEF Convert

(* The navigations keep what they are.                                         *)
LEMMA NavsStay ==
    ASSUME [ExpandNext]_vars, NEW s \in Slots
    PROVE  /\ Nav(s)' = Nav(s) /\ ToMany(s)' = ToMany(s)
           /\ Filtered(s)' = Filtered(s) /\ Alone(s[2])' = Alone(s[2])
  BY RequestStays DEF Nav, ToMany, Filtered, Alone

(* WayOf is kept by every step.                                                *)
LEMMA WaysStep ==
    ASSUME EInv, [ExpandNext]_vars, NEW t \in Slots
    PROVE  WayOf(t)'
  <1> USE NavsStay DEF WayOf, Goto
  <1>0. ETypes /\ WayOf(t)
    BY DEF EInv
  <1>1. CASE UNCHANGED vars
    BY <1>0, <1>1 DEF vars
  <1>2. ASSUME NEW e \in Entities, Convert(e)
        PROVE  WayOf(t)'
    <2>1. includeStream' = includeStream /\ handed' = handed
      BY <1>2 DEF Convert
    <2>2. pc'[t] = pc[t] \/ pc'[t] = "start"
      BY <1>2, EntityMoves
    <2> QED
      BY <1>0, <2>1, <2>2
  <1>3. ASSUME NEW s \in Slots, Proceed(s) \/ Fail(s)
        PROVE  WayOf(t)'
    <2>a. ETypes /\ WayOf(s) /\ WayOf(t) /\ s[2] \in Navs /\ t[2] \in Navs /\ s[1] \in Entities
      BY SlotParts DEF EInv
    <2>b. Nav(s).writes => Nav(s).way = "method" /\ ToMany(s)
      BY <2>a, WritersAreMethods
    <2>c. 0 \notin Entities
      BY DEF Entities
    <2> USE <2>a, <2>b, <2>c DEF ETypes, Remember, NewStream
    <2>1. CASE IncludeInline(s)
      BY <2>1 DEF IncludeInline
    <2>2. CASE IncludeByMethod(s)
      BY <2>2 DEF IncludeByMethod
    <2>3. CASE IncludeByRead(s)
      BY <2>3 DEF IncludeByRead
    <2>4. CASE Read(s)
      BY <2>4 DEF Read
    <2>5. CASE Compose(s)
      BY <2>5 DEF Compose
    <2>6. CASE ApplyParams(s)
      BY <2>6 DEF ApplyParams
    <2>7. CASE Returns(s)
      BY <2>7 DEF Returns
    <2>8. CASE Write(s)
      BY <2>8 DEF Write
    <2>9. CASE EndStream(s)
      BY <2>9 DEF EndStream
    <2>10. CASE TakeStream(s)
      BY <2>10 DEF TakeStream
    <2>11. CASE Finish(s)
      BY <2>11 DEF Finish
    <2>12. CASE Fail(s)
      BY <2>12 DEF Fail
    <2> QED
      BY <1>3, <2>1, <2>2, <2>3, <2>4, <2>5, <2>6, <2>7, <2>8, <2>9, <2>10, <2>11, <2>12 DEF Proceed
  <1> QED
    BY <1>1, <1>2, <1>3 DEF ExpandNext

(* EInv holds in every state.                                                  *)
LEMMA EInvariance == ExpandSpec => []EInv
  <1>1. ExpandInit => EInv
    <2> SUFFICES ASSUME ExpandInit
                 PROVE  EInv
      OBVIOUS
    <2>1. ETypes
      BY DEF ExpandInit, ETypes, Labels
    <2>2. \A s \in Slots : WayOf(s)
      BY DEF ExpandInit, WayOf
    <2> QED
      BY <2>1, <2>2 DEF EInv
  <1>2. EInv /\ [ExpandNext]_vars => EInv'
    <2> SUFFICES ASSUME EInv, [ExpandNext]_vars
                 PROVE  EInv'
      OBVIOUS
    <2>1. ETypes'
      BY TypesStep
    <2>2. \A s \in Slots : WayOf(s)'
      BY WaysStep
    <2>3. Slots' = Slots
      BY RequestStays
    <2> QED
      BY <2>1, <2>2, <2>3 DEF EInv
  <1> QED
    BY <1>1, <1>2, PTL DEF ExpandSpec

(* ExpandTypeOK holds in every state: what the variables of __include and      *)
(* __convertEntity hold, for every number of entities and navigations, and     *)
(* that a method which writes has been handed a stream.                        *)
THEOREM ExpandTypes == ExpandSpec => []ExpandTypeOK
  <1>1. EInv => ExpandTypeOK
    <2> SUFFICES ASSUME EInv, NEW s \in Slots, pc[s] \in {"written", "waiting"}
                 PROVE  handed[s] # 0
      BY DEF EInv, ETypes, ExpandTypeOK
    <2> QED
      BY DEF EInv, WayOf
  <1> QED
    BY EInvariance, <1>1, PTL

(* The entities of a streamed response keep their turns.                       *)
LEMMA TurnStep ==
    ASSUME EInv, TurnInv, [ExpandNext]_vars
    PROVE  TurnInv'
  <1> SUFFICES ASSUME request.streamed
               PROVE  /\ \A s, t \in Slots :
                            s[1] < t[1] /\ pc'[t] # "idle" => pc'[s] = "done"
                      /\ \A s \in Slots : Nav(s).way = "read" => pc'[s] # "done"
    BY RequestStays, NavsStay DEF TurnInv
  <1>0. /\ \A s, t \in Slots : s[1] < t[1] /\ pc[t] # "idle" => pc[s] = "done"
        /\ \A s \in Slots : Nav(s).way = "read" => pc[s] # "done"
    BY DEF TurnInv
  <1>1. CASE UNCHANGED vars
    BY <1>0, <1>1 DEF vars
  <1>2. ASSUME NEW e \in Entities, Convert(e)
        PROVE  /\ \A s, t \in Slots :
                     s[1] < t[1] /\ pc'[t] # "idle" => pc'[s] = "done"
               /\ \A s \in Slots : Nav(s).way = "read" => pc'[s] # "done"
    <2>1. \A s \in Slots : s[1] < e => pc[s] = "done"
      BY <1>2 DEF Convert, InTurn
    <2>2. \A t \in Slots : /\ t[1] = e => pc[t] = "idle" /\ pc'[t] = "start"
                           /\ t[1] # e => pc'[t] = pc[t]
      BY <1>2, EntityMoves
    <2>3. \A s \in Slots : s[1] \in Nat
      BY SlotParts DEF Entities
    <2>4. e \in Nat
      BY DEF Entities
    <2>5. ASSUME NEW s \in Slots, NEW t \in Slots, s[1] < t[1], pc'[t] # "idle"
          PROVE  pc'[s] = "done"
      <3>1. pc[s] = "done"
        BY <1>0, <2>1, <2>2, <2>5
      <3>2. s[1] # e
        BY <2>2, <3>1
      <3> QED
        BY <2>2, <3>1, <3>2
    <2>6. \A s \in Slots : Nav(s).way = "read" => pc'[s] # "done"
      BY <1>0, <2>2
    <2> QED
      BY <2>5, <2>6
  <1>3. ASSUME NEW s \in Slots, Proceed(s) \/ Fail(s)
        PROVE  /\ \A r, t \in Slots :
                     r[1] < t[1] /\ pc'[t] # "idle" => pc'[r] = "done"
               /\ \A r \in Slots : Nav(r).way = "read" => pc'[r] # "done"
    <2>1. /\ \A t \in Slots : t # s => pc'[t] = pc[t]
          /\ pc[s] \notin {"idle", "done", "failed"}
          /\ pc'[s] = "done" => ~(request.streamed /\ Nav(s).way = "read")
      BY <1>3, SlotMoves
    <2> QED
      BY <1>0, <2>1
  <1> QED
    BY <1>1, <1>2, <1>3 DEF ExpandNext

(* Two slots of one navigation whose expansions take turns are not both under  *)
(* way.                                                                        *)
LEMMA OneUnderWay ==
    ASSUME EInv, TurnInv, NEW s \in Slots, NEW t \in Slots, s[2] = t[2],
           request.streamed \/ request.size = 1,
           pc[s] \notin {"idle", "done"}, pc[t] \notin {"idle", "done"}
    PROVE  s = t
  <1>0. s[1] \in Entities /\ t[1] \in Entities
    BY SlotParts
  <1>1. s[1] = t[1]
    <2>1. CASE request.streamed
      <3>1. s[1] \in Nat /\ t[1] \in Nat
        BY <1>0 DEF Entities
      <3> QED
        BY <2>1, <3>1 DEF TurnInv
    <2>2. CASE request.size = 1
      BY <1>0, <2>2 DEF Entities
    <2> QED
      BY <2>1, <2>2
  <1> QED
    BY <1>1, SlotParts

(* FilterInv is kept: the keys in an include object are those of a read that   *)
(* has begun, and no other read finds them there.                              *)
LEMMA FilterStep ==
    ASSUME EInv, TurnInv, FilterInv, [ExpandNext]_vars
    PROVE  FilterInv'
  <1> SUFFICES ASSUME NEW t \in Slots
               PROVE  /\ t[1] \in includeFilter'[t[2]] =>
                             /\ pc'[t] # "idle"
                             /\ Nav(t).way = "read" /\ Nav(t).query = "plain"
                             /\ Filtered(t)
                      /\ Alone(t[2]) => asked'[t] \subseteq {t[1]}
    BY RequestStays, NavsStay DEF FilterInv
  <1>0. /\ t[1] \in includeFilter[t[2]] =>
               /\ pc[t] # "idle"
               /\ Nav(t).way = "read" /\ Nav(t).query = "plain" /\ Filtered(t)
        /\ Alone(t[2]) => asked[t] \subseteq {t[1]}
    BY DEF FilterInv
  <1>1. CASE UNCHANGED vars
    BY <1>0, <1>1 DEF vars
  <1>2. ASSUME NEW e \in Entities, Convert(e)
        PROVE  /\ includeFilter' = includeFilter /\ asked' = asked
               /\ pc[t] # "idle" => pc'[t] # "idle"
    BY <1>2, EntityMoves DEF Convert
  <1>3. ASSUME NEW s \in Slots, Proceed(s) \/ Fail(s)
        PROVE  pc[t] # "idle" => pc'[t] # "idle"
    BY <1>3, SlotMoves
  <1>4. ASSUME NEW s \in Slots, Proceed(s) \/ Fail(s), ~Compose(s)
        PROVE  includeFilter' = includeFilter /\ asked' = asked
    BY <1>4 DEF Proceed, Fail, IncludeInline, IncludeByMethod, IncludeByRead, Read, ApplyParams, Returns, Write, EndStream, TakeStream, Finish
  <1>5. ASSUME NEW s \in Slots, Compose(s)
        PROVE  /\ t[1] \in includeFilter'[t[2]] =>
                      /\ pc'[t] # "idle"
                      /\ Nav(t).way = "read" /\ Nav(t).query = "plain" /\ Filtered(t)
               /\ Alone(t[2]) => asked'[t] \subseteq {t[1]}
    <2>0. /\ pc[s] = "reading" /\ Nav(s).way = "read"
          /\ includeFilter \in [Navs -> SUBSET Entities]
          /\ asked \in [Slots -> SUBSET Entities]
          /\ s[2] \in Navs /\ t[2] \in Navs
      BY <1>5, SlotParts DEF Compose, EInv, ETypes, WayOf
    <2>1. \/ includeFilter'[t[2]] = includeFilter[t[2]]
          \/ /\ t[2] = s[2] /\ includeFilter'[t[2]] = {s[1]}
             /\ Filtered(s) /\ Nav(s).query = "plain"
      BY <1>5, <2>0 DEF Compose
    <2>2. ASSUME t[1] \in includeFilter'[t[2]]
          PROVE  /\ pc'[t] # "idle"
                 /\ Nav(t).way = "read" /\ Nav(t).query = "plain" /\ Filtered(t)
      <3>1. CASE t[1] \in includeFilter[t[2]]
        BY <1>0, <1>3, <1>5, <3>1 DEF Proceed
      <3>2. CASE t[1] \notin includeFilter[t[2]]
        <4>1. t = s
          BY <2>1, <2>2, <3>2, SlotParts
        <4>2. pc'[s] # "idle"
          BY <1>5, SlotMoves DEF Proceed
        <4> QED
          BY <2>0, <2>1, <2>2, <3>2, <4>1, <4>2
      <3> QED
        BY <3>1, <3>2
    <2>3. ASSUME Alone(t[2])
          PROVE  asked'[t] \subseteq {t[1]}
      <3>1. CASE t # s
        <4>1. asked'[t] = asked[t]
          BY <1>5, <2>0, <3>1 DEF Compose
        <4> QED
          BY <1>0, <2>3, <4>1
      <3>2. CASE t = s
        <4>1. ASSUME NEW x \in includeFilter[s[2]]
              PROVE  x = s[1]
          <5> DEFINE u == <<x, s[2]>>
          <5>1. x \in Entities /\ u \in Slots /\ u[1] = x /\ u[2] = s[2]
            BY <2>0, SlotParts
          <5>2. /\ pc[u] # "idle"
                /\ Nav(u).way = "read" /\ Nav(u).query = "plain" /\ Filtered(u)
            BY <4>1, <5>1 DEF FilterInv
          <5> HIDE DEF u
          <5>3. request.streamed \/ request.size = 1
            BY <2>3, <3>2, <5>1, <5>2 DEF Alone, SharesInclude, Filtered, Nav
          <5>4. CASE request.streamed
            <6>1. pc[u] # "done"
              BY <5>1, <5>2, <5>4 DEF TurnInv
            <6>2. u = s
              BY <2>0, <5>1, <5>2, <5>4, <6>1, OneUnderWay
            <6> QED
              BY <5>1, <6>2
          <5>5. CASE request.size = 1
            <6>1. s[1] \in Entities
              BY SlotParts
            <6> QED
              BY <5>1, <5>5, <6>1 DEF Entities
          <5> QED
            BY <5>3, <5>4, <5>5
        <4>2. asked'[s] \subseteq {s[1]} \cup includeFilter[s[2]]
          BY <1>5, <2>0 DEF Compose
        <4> QED
          BY <3>2, <4>1, <4>2
      <3> QED
        BY <3>1, <3>2
    <2> QED
      BY <2>2, <2>3
  <1> QED
    BY <1>0, <1>1, <1>2, <1>3, <1>4, <1>5 DEF ExpandNext

(* What another expansion of the response leaves of the stream of a slot.      *)
LEMMA StreamUntouched ==
    ASSUME EInv, TurnInv, StreamInv,
           NEW t \in Slots, Nav(t).writes, Alone(t[2]),
           NEW s \in Slots, s # t, Proceed(s) \/ Fail(s)
    PROVE  /\ pc[t] = "applying" => includeStream'[t[2]] = includeStream[t[2]]
           /\ pc'[t] = pc[t] /\ handed'[t] = handed[t] /\ buffer'[t] = buffer[t]
           /\ t \in finished' <=> t \in finished
  <1>0. /\ includeStream \in [Navs -> {0} \cup Entities]
        /\ handed \in [Slots -> {0} \cup Entities]
        /\ buffer \in [Slots -> SUBSET Entities]
        /\ s[2] \in Navs /\ t[2] \in Navs
        /\ s = <<s[1], s[2]>> /\ t = <<t[1], t[2]>>
    BY SlotParts DEF EInv, ETypes
  <1>1. request.streamed \/ request.size = 1
    BY DEF Alone, SharesInclude, Nav
  <1>2. pc[t] = "applying" => includeStream'[t[2]] = includeStream[t[2]]
    <2> SUFFICES ASSUME pc[t] = "applying"
                 PROVE  includeStream'[t[2]] = includeStream[t[2]]
      OBVIOUS
    <2>1. CASE s[2] = t[2]
      <3>1. pc[s] # "start"
        BY <1>1, <2>1, OneUnderWay
      <3> QED
        BY <3>1 DEF Proceed, Fail, Remember, IncludeInline, IncludeByMethod, IncludeByRead, Read, Compose, ApplyParams, Returns, Write, EndStream, TakeStream, Finish
    <2>2. CASE s[2] # t[2]
      BY <1>0, <2>2 DEF Proceed, Fail, NewStream, IncludeInline, IncludeByMethod, IncludeByRead, Read, Compose, ApplyParams, Returns, Write, EndStream, TakeStream, Finish
    <2> QED
      BY <2>1, <2>2
  <1>3. pc'[t] = pc[t]
    BY SlotMoves
  <1>4. handed'[t] = handed[t]
    BY <1>0 DEF Proceed, Fail, IncludeInline, IncludeByMethod, IncludeByRead, Read, Compose, ApplyParams, Returns, Write, EndStream, TakeStream, Finish
  <1>5. Nav(s).writes /\ pc[s] \in {"called", "written"} => t # <<handed[s], s[2]>>
    <2> SUFFICES ASSUME Nav(s).writes, pc[s] \in {"called", "written"},
                        t = <<handed[s], s[2]>>
                 PROVE  FALSE
      OBVIOUS
    <2>1. s[2] = t[2]
      BY <1>0
    <2>2. handed[s] = s[1]
      BY <2>1 DEF StreamInv, StreamOf
    <2> QED
      BY <1>0, <2>2
  <1>6. buffer'[t] = buffer[t]
    <2>1. CASE Write(s)
      BY <1>0, <1>5, <2>1 DEF Write
    <2>2. CASE ~Write(s)
      BY <2>2 DEF Proceed, Fail, IncludeInline, IncludeByMethod, IncludeByRead, Read, Compose, ApplyParams, Returns, EndStream, TakeStream, Finish
    <2> QED
      BY <2>1, <2>2
  <1>7. t \in finished' <=> t \in finished
    <2>1. CASE EndStream(s)
      <3>1. Nav(s).writes /\ pc[s] = "written"
        BY <2>1 DEF EInv, WayOf, EndStream
      <3> QED
        BY <1>5, <2>1, <3>1 DEF EndStream
    <2>2. CASE ~EndStream(s)
      BY <2>2 DEF Proceed, Fail, IncludeInline, IncludeByMethod, IncludeByRead, Read, Compose, ApplyParams, Returns, Write, TakeStream, Finish
    <2> QED
      BY <2>1, <2>2
  <1> QED
    BY <1>2, <1>3, <1>4, <1>6, <1>7

(* StreamInv is kept by every step.                                            *)
LEMMA StreamStep ==
    ASSUME EInv, TurnInv, StreamInv, [ExpandNext]_vars,
           NEW t \in Slots, Nav(t).writes, Alone(t[2])
    PROVE  StreamOf(t)'
  <1> USE DEF StreamOf, Goto
  <1>0. StreamOf(t)
    BY DEF StreamInv
  <1>a. Nav(t).way = "method" /\ ToMany(t)
    BY WritersAreMethods DEF EInv
  <1>1. CASE UNCHANGED vars
    BY <1>0, <1>1 DEF vars
  <1>2. ASSUME NEW e \in Entities, Convert(e)
        PROVE  StreamOf(t)'
    <2>1. pc'[t] = pc[t] \/ (pc[t] = "idle" /\ pc'[t] = "start")
      <3>1. /\ t[1] = e => pc[t] = "idle" /\ pc'[t] = "start"
            /\ t[1] # e => pc'[t] = pc[t]
        BY <1>2, EntityMoves
      <3> QED
        BY <3>1
    <2>2. UNCHANGED <<includeStream, handed, buffer, finished>>
      BY <1>2 DEF Convert
    <2> QED
      BY <1>0, <2>1, <2>2
  <1>3. ASSUME NEW s \in Slots, s # t, Proceed(s) \/ Fail(s)
        PROVE  StreamOf(t)'
    BY <1>0, <1>3, StreamUntouched
  <1>4. ASSUME Proceed(t) \/ Fail(t)
        PROVE  StreamOf(t)'
    <2>0. /\ pc \in [Slots -> Labels]
          /\ includeStream \in [Navs -> {0} \cup Entities]
          /\ handed \in [Slots -> {0} \cup Entities]
          /\ buffer \in [Slots -> SUBSET Entities]
          /\ t[2] \in Navs /\ t = <<t[1], t[2]>>
          /\ pc[t] \in {"keys", "reading"} => Nav(t).way = "read"
      BY SlotParts DEF EInv, ETypes, WayOf
    <2> USE <1>0, <1>a, <2>0
    <2>1. CASE IncludeInline(t)
      BY <2>1 DEF IncludeInline, Remember
    <2>2. CASE IncludeByMethod(t)
      BY <2>2 DEF IncludeByMethod, Remember, NewStream
    <2>3. CASE IncludeByRead(t)
      BY <2>3 DEF IncludeByRead, Remember
    <2>4. CASE Read(t)
      BY <2>4 DEF Read
    <2>5. CASE Compose(t)
      BY <2>5 DEF Compose
    <2>6. CASE ApplyParams(t)
      BY <2>6 DEF ApplyParams
    <2>7. CASE Returns(t)
      BY <2>7 DEF Returns
    <2>8. CASE Write(t)
      BY <2>8 DEF Write
    <2>9. CASE EndStream(t)
      BY <2>9 DEF EndStream
    <2>10. CASE TakeStream(t)
      BY <2>10 DEF TakeStream
    <2>11. CASE Finish(t)
      BY <2>11 DEF Finish
    <2>12. CASE Fail(t)
      BY <2>12 DEF Fail
    <2> QED
      BY <1>4, <2>1, <2>2, <2>3, <2>4, <2>5, <2>6, <2>7, <2>8, <2>9, <2>10, <2>11, <2>12 DEF Proceed
  <1> QED
    BY <1>1, <1>2, <1>3, <1>4 DEF ExpandNext

(* GotInv is kept: what an expansion answers are the rows of its entity.       *)
LEMMA GotStep ==
    ASSUME EInv, FilterInv, StreamInv, GotInv, [ExpandNext]_vars,
           NEW t \in Slots, Alone(t[2]), pc'[t] \in {"answered", "done"}
    PROVE  got'[t] = {t[1]}
  <1> USE DEF Goto
  <1>0. /\ pc[t] \in {"answered", "done"} => got[t] = {t[1]}
        /\ asked[t] \subseteq {t[1]}
        /\ pc \in [Slots -> Labels] /\ got \in [Slots -> SUBSET Entities]
    BY DEF GotInv, FilterInv, EInv, ETypes
  <1>1. CASE UNCHANGED vars
    BY <1>0, <1>1 DEF vars
  <1>2. ASSUME NEW e \in Entities, Convert(e)
        PROVE  got'[t] = {t[1]}
    BY <1>0, <1>2, EntityMoves DEF Convert
  <1>3. ASSUME NEW s \in Slots, s # t, Proceed(s) \/ Fail(s)
        PROVE  got'[t] = {t[1]}
    <2>1. pc'[t] = pc[t]
      BY <1>3, SlotMoves
    <2>2. got'[t] = got[t]
      BY <1>0, <1>3 DEF Proceed, Fail, IncludeInline, IncludeByMethod, IncludeByRead, Read, Compose, ApplyParams, Returns, Write, EndStream, TakeStream, Finish
    <2> QED
      BY <1>0, <2>1, <2>2
  <1>4. ASSUME Proceed(t) \/ Fail(t)
        PROVE  got'[t] = {t[1]}
    <2> USE <1>0
    <2>1. CASE IncludeInline(t)
      BY <2>1 DEF IncludeInline
    <2>2. CASE IncludeByMethod(t)
      BY <2>2 DEF IncludeByMethod
    <2>3. CASE IncludeByRead(t)
      BY <2>3 DEF IncludeByRead
    <2>4. CASE Read(t)
      BY <2>4 DEF Read
    <2>5. CASE Compose(t)
      BY <2>5 DEF Compose
    <2>6. CASE ApplyParams(t)
      BY <2>6 DEF ApplyParams
    <2>7. CASE Returns(t)
      BY <2>7 DEF Returns
    <2>8. CASE Write(t)
      BY <2>8 DEF Write
    <2>9. CASE EndStream(t)
      BY <2>9 DEF EndStream
    <2>10. CASE TakeStream(t)
      <3>1. Nav(t).writes /\ pc[t] = "waiting"
        BY <2>10 DEF TakeStream, EInv, WayOf
      <3>2. buffer[t] = {t[1]}
        BY <3>1 DEF StreamInv, StreamOf
      <3> QED
        BY <2>10, <3>2 DEF TakeStream
    <2>11. CASE Finish(t)
      BY <2>11 DEF Finish
    <2>12. CASE Fail(t)
      BY <2>12 DEF Fail
    <2> QED
      BY <1>4, <2>1, <2>2, <2>3, <2>4, <2>5, <2>6, <2>7, <2>8, <2>9, <2>10, <2>11, <2>12 DEF Proceed
  <1> QED
    BY <1>1, <1>2, <1>3, <1>4 DEF ExpandNext

(* As long as no read has begun, ctrl stays the main controller, and so does   *)
(* what the expansions remember.                                               *)
LEMMA NoReadCtrlStep ==
    ASSUME EInv, CtrlInv, [ExpandNext]_vars,
           \A s \in Slots : ~(Nav(s).way = "read" /\ pc'[s] \notin {"idle", "start"})
    PROVE  ctrl' = 0 /\ \A s \in Slots : old'[s] = 0
  <1> USE DEF Goto
  <1>1. CASE UNCHANGED vars
    BY <1>1 DEF vars, CtrlInv, ReadBegan
  <1>2. ASSUME NEW e \in Entities, Convert(e)
        PROVE  ctrl' = 0 /\ \A s \in Slots : old'[s] = 0
    <2>1. \A s \in Slots : ~ReadBegan(s)
      BY <1>2, EntityMoves DEF ReadBegan
    <2> QED
      BY <1>2, <2>1 DEF CtrlInv, Convert
  <1>3. ASSUME NEW s \in Slots, Proceed(s) \/ Fail(s)
        PROVE  ctrl' = 0 /\ \A t \in Slots : old'[t] = 0
    <2>a. /\ \A t \in Slots : t # s => pc'[t] = pc[t]
          /\ pc[s] # "idle" /\ pc'[s] \notin {"idle", "start"}
      BY <1>3, SlotMoves
    <2>b. Nav(s).way # "read"
      BY <2>a
    <2>c. \A t \in Slots : ~ReadBegan(t)
      BY <2>a, <2>b DEF ReadBegan
    <2>d. ctrl = 0 /\ \A t \in Slots : old[t] = 0
      BY <2>c DEF CtrlInv
    <2>e. /\ pc \in [Slots -> Labels] /\ old \in [Slots -> {0} \cup Navs]
          /\ pc[s] \in {"keys", "reading"} => Nav(s).way = "read"
      BY DEF EInv, ETypes, WayOf
    <2> USE <2>b, <2>d, <2>e
    <2>1. CASE IncludeInline(s)
      BY <2>1 DEF IncludeInline, Remember
    <2>2. CASE IncludeByMethod(s)
      BY <2>2 DEF IncludeByMethod, Remember
    <2>3. CASE IncludeByRead(s)
      BY <2>3 DEF IncludeByRead, Remember
    <2>4. CASE Read(s)
      BY <2>4 DEF Read
    <2>5. CASE Compose(s)
      BY <2>5 DEF Compose
    <2>6. CASE ApplyParams(s)
      BY <2>6 DEF ApplyParams
    <2>7. CASE Returns(s)
      BY <2>7 DEF Returns
    <2>8. CASE Write(s)
      BY <2>8 DEF Write
    <2>9. CASE EndStream(s)
      BY <2>9 DEF EndStream
    <2>10. CASE TakeStream(s)
      BY <2>10 DEF TakeStream
    <2>11. CASE Finish(s)
      BY <2>11 DEF Finish
    <2>12. CASE Fail(s)
      BY <2>12 DEF Fail
    <2> QED
      BY <1>3, <2>1, <2>2, <2>3, <2>4, <2>5, <2>6, <2>7, <2>8, <2>9, <2>10, <2>11, <2>12 DEF Proceed
  <1> QED
    BY <1>1, <1>2, <1>3 DEF ExpandNext

(* With one expansion in all, ctrl is the main controller before and after it. *)
LEMMA SingleCtrlStep ==
    ASSUME EInv, CtrlInv, [ExpandNext]_vars,
           \A s, t \in Slots : s = t, NEW r \in Slots
    PROVE  old'[r] = 0 /\ (pc'[r] \in {"idle", "start", "done"} => ctrl' = 0)
  <1> USE DEF Goto
  <1>0. old[r] = 0 /\ (pc[r] \in {"idle", "start", "done"} => ctrl = 0)
    BY DEF CtrlInv
  <1>1. CASE UNCHANGED vars
    BY <1>0, <1>1 DEF vars
  <1>2. ASSUME NEW e \in Entities, Convert(e)
        PROVE  old'[r] = 0 /\ (pc'[r] \in {"idle", "start", "done"} => ctrl' = 0)
    <2>1. pc[r] = "idle" \/ pc'[r] = pc[r]
      BY <1>2, EntityMoves
    <2>2. ctrl' = ctrl /\ old' = old
      BY <1>2 DEF Convert
    <2> QED
      BY <1>0, <2>1, <2>2
  <1>3. ASSUME Proceed(r) \/ Fail(r)
        PROVE  old'[r] = 0 /\ (pc'[r] \in {"idle", "start", "done"} => ctrl' = 0)
    <2>e. pc \in [Slots -> Labels] /\ old \in [Slots -> {0} \cup Navs]
      BY DEF EInv, ETypes
    <2> USE <1>0, <2>e
    <2>1. CASE IncludeInline(r)
      BY <2>1 DEF IncludeInline, Remember
    <2>2. CASE IncludeByMethod(r)
      BY <2>2 DEF IncludeByMethod, Remember
    <2>3. CASE IncludeByRead(r)
      BY <2>3 DEF IncludeByRead, Remember
    <2>4. CASE Read(r)
      BY <2>4 DEF Read
    <2>5. CASE Compose(r)
      BY <2>5 DEF Compose
    <2>6. CASE ApplyParams(r)
      BY <2>6 DEF ApplyParams
    <2>7. CASE Returns(r)
      BY <2>7 DEF Returns
    <2>8. CASE Write(r)
      BY <2>8 DEF Write
    <2>9. CASE EndStream(r)
      BY <2>9 DEF EndStream
    <2>10. CASE TakeStream(r)
      BY <2>10 DEF TakeStream
    <2>11. CASE Finish(r)
      BY <2>11 DEF Finish
    <2>12. CASE Fail(r)
      BY <2>12 DEF Fail
    <2> QED
      BY <1>3, <2>1, <2>2, <2>3, <2>4, <2>5, <2>6, <2>7, <2>8, <2>9, <2>10, <2>11, <2>12 DEF Proceed
  <1>4. ASSUME NEW s \in Slots
        PROVE  s = r
    OBVIOUS
  <1> QED
    BY <1>1, <1>2, <1>3, <1>4 DEF ExpandNext

-----------------------------------------------------------------------------
IncludeInv == EInv /\ TurnInv /\ FilterInv /\ StreamInv /\ GotInv /\ CtrlInv

(* The include objects, the streams and ctrl are as IncludeInv says, always.   *)
LEMMA IncludeInvariance == ExpandSpec => []IncludeInv
  <1>1. ExpandInit => TurnInv /\ FilterInv /\ StreamInv /\ GotInv /\ CtrlInv
    <2> SUFFICES ASSUME ExpandInit
                 PROVE  TurnInv /\ FilterInv /\ StreamInv /\ GotInv /\ CtrlInv
      OBVIOUS
    <2>0. \A s \in Slots :
             /\ pc[s] = "idle" /\ old[s] = 0 /\ asked[s] = {} /\ buffer[s] = {}
             /\ s \notin finished /\ includeFilter[s[2]] = {} /\ ctrl = 0
      BY SlotParts DEF ExpandInit
    <2>1. TurnInv
      BY <2>0 DEF TurnInv
    <2>2. FilterInv
      BY <2>0 DEF FilterInv
    <2>3. StreamInv
      BY <2>0 DEF StreamInv, StreamOf
    <2>4. GotInv
      BY <2>0 DEF GotInv
    <2>5. CtrlInv
      <3>1. ctrl = 0
        BY DEF ExpandInit
      <3> QED
        BY <2>0, <3>1 DEF CtrlInv
    <2> QED
      BY <2>1, <2>2, <2>3, <2>4, <2>5
  <1>2. EInv /\ EInv' /\ IncludeInv /\ [ExpandNext]_vars => IncludeInv'
    <2> SUFFICES ASSUME EInv', IncludeInv, [ExpandNext]_vars
                 PROVE  IncludeInv'
      OBVIOUS
    <2> USE DEF IncludeInv
    <2>0. /\ Slots' = Slots /\ request' = request
          /\ \A s \in Slots : Nav(s)' = Nav(s) /\ Alone(s[2])' = Alone(s[2])
      BY RequestStays, NavsStay
    <2>1. TurnInv'
      BY TurnStep
    <2>2. FilterInv'
      BY FilterStep
    <2>3. StreamInv'
      <3>1. \A t \in Slots : Nav(t).writes /\ Alone(t[2]) => StreamOf(t)'
        BY StreamStep
      <3> QED
        BY <2>0, <3>1 DEF StreamInv
    <2>4. GotInv'
      <3>1. \A t \in Slots :
               Alone(t[2]) /\ pc'[t] \in {"answered", "done"} => got'[t] = {t[1]}
        BY GotStep
      <3> QED
        BY <2>0, <3>1 DEF GotInv
    <2>5. CtrlInv'
      <3>1. (\A s \in Slots : ~(Nav(s).way = "read"
                                    /\ pc'[s] \notin {"idle", "start"}))
              => ctrl' = 0 /\ \A s \in Slots : old'[s] = 0
        BY NoReadCtrlStep
      <3>2. (\A s, t \in Slots : s = t) =>
               \A r \in Slots :
                  old'[r] = 0 /\ (pc'[r] \in {"idle", "start", "done"} => ctrl' = 0)
        BY SingleCtrlStep
      <3> QED
        BY <2>0, <3>1, <3>2 DEF CtrlInv, ReadBegan
    <2> QED
      BY <2>1, <2>2, <2>3, <2>4, <2>5
  <1> QED
    BY <1>1, <1>2, EInvariance, PTL DEF ExpandSpec, IncludeInv

(* A navigation whose expansions do not share the include object, or have it   *)
(* one at a time, gives every entity its own rows, whatever the others of the  *)
(* same request do.                                                            *)
THEOREM AloneExpandsOwn ==
    ExpandSpec => [](\A s \in Slots :
                        Alone(s[2]) /\ pc[s] = "done" => got[s] = {s[1]})
  <1>1. IncludeInv => \A s \in Slots :
                         Alone(s[2]) /\ pc[s] = "done" => got[s] = {s[1]}
    BY DEF IncludeInv, GotInv
  <1> QED
    BY IncludeInvariance, <1>1, PTL

(* __include answers every entity with its own related rows, all of them and   *)
(* nobody else's, for any number of entities and navigations, when all that    *)
(* share the include object have it one at a time.                             *)
THEOREM OwnExpansionHolds == ExpandSpec /\ Apart(request) => []OwnExpansion
  <1>1. IncludeInv /\ Apart(request) => OwnExpansion
    <2> SUFFICES ASSUME IncludeInv, Apart(request), NEW s \in Slots, pc[s] = "done"
                 PROVE  got[s] = {s[1]}
      BY DEF OwnExpansion
    <2>1. Alone(s[2])
      BY SlotParts DEF Apart, Alone, Navs
    <2> QED
      BY <2>1 DEF IncludeInv, GotInv
  <1>2. Apart(request) /\ [ExpandNext]_vars => Apart(request)'
    BY RequestStays DEF Apart
  <1> QED
    BY IncludeInvariance, <1>1, <1>2, PTL DEF ExpandSpec

(* After the expansions this.ctrl is the main controller again, however they   *)
(* overlap, within a streamed response, where no navigation is a read, and     *)
(* where one navigation of one entity is expanded.                             *)
THEOREM CtrlRestoredHolds == ExpandSpec => []CtrlRestored
  <1>1. IncludeInv => CtrlRestored
    <2> SUFFICES ASSUME IncludeInv,
                        \/ request.streamed
                        \/ \A s \in Slots : Nav(s).way # "read"
                        \/ Cardinality(Slots) = 1,
                        \A s \in Slots : pc[s] \in {"idle", "done"}
                 PROVE  ctrl = 0
      BY DEF CtrlRestored
    <2>1. CASE request.streamed
      <3>1. \A s \in Slots : ~ReadBegan(s)
        BY <2>1 DEF IncludeInv, TurnInv, ReadBegan
      <3> QED
        BY <3>1 DEF IncludeInv, CtrlInv
    <2>3. CASE \A s \in Slots : Nav(s).way # "read"
      <3>1. \A s \in Slots : ~ReadBegan(s)
        BY <2>3 DEF ReadBegan
      <3> QED
        BY <3>1 DEF IncludeInv, CtrlInv
    <2>2. CASE Cardinality(Slots) = 1
      <3>1. request \in Requests /\ IsRequest(request)
        BY RequestsAssumption DEF IncludeInv, EInv, ETypes
      <3>2. IsFiniteSet(Entities)
        BY <3>1, FS_Interval DEF IsRequest, Entities
      <3>3. IsFiniteSet(Navs)
        <4>1. PICK n \in Nat : Navs = 1..n
          BY <3>1 DEF IsRequest, Navs
        <4> QED
          BY <4>1, FS_Interval
      <3>4. IsFiniteSet(Slots)
        BY <3>2, <3>3, FS_Product DEF Slots
      <3>5. PICK s : Slots = {s}
        BY <2>2, <3>4, FS_Singleton
      <3> QED
        BY <3>5 DEF IncludeInv, CtrlInv
    <2> QED
      BY <2>1, <2>2, <2>3
  <1> QED
    BY IncludeInvariance, <1>1, PTL
=============================================================================
