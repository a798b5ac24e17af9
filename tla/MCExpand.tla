------------------------------ MODULE MCExpand ------------------------------
(* Instances of Expand: one or two entities with up to two navigations.        *)
EXTENDS Expand

(* What a navigation may be; what its way does not look at is fixed.           *)
Shapes ==
    {n \in Navigation :
        CASE n.way = "inline" -> n.type = "ManyToOne" /\ n.query = "none"
          [] n.way = "method" -> n.type # "OneToOne" /\ n.query = "none"
          [] n.way = "read"   -> n.type = "ManyToOne" => n.query = "none"}

OneOrTwo == {<<m>> : m \in Shapes} \cup (Shapes \X Shapes)

(* Requests whose expansions do not share what they may not, and in which no   *)
(* read waits for the response it is part of.                                  *)
Separate(r) ==
    Apart(r) /\ \A i \in DOMAIN r.navs : r.navs[i].way = "read" => ~r.streamed

(* Two entities of an array with two reads each have too many interleavings;   *)
(* there the second navigation is a method.                                    *)
Small(r) == \/ r.streamed \/ r.size = 1
            \/ Len(r.navs) = 1 \/ r.navs[2].way = "method"

SeparateRequests ==
    {r \in [streamed : BOOLEAN, size : {1, 2}, navs : OneOrTwo] :
        Separate(r) /\ Small(r)}

(* Classes?$expand=students($expand=student) with two classes, resolved by     *)
(* the service of the students.                                                *)
Students == [way |-> "read", type |-> "OneToMany", writes |-> FALSE,
             query |-> "plain"]
ClassesWithStudents == {[streamed |-> FALSE, size |-> 2, navs |-> <<Students>>]}
=============================================================================
