--------------------------- MODULE AtomicAssembly ---------------------------
(***************************************************************************)
(* What the assembly of the fields (src/response_build.rs) promises, one   *)
(* step a field: a field whose name is free is in the object with its      *)
(* whole value and the objects that lead to it; any other is reported and  *)
(* changes nothing.  There is no walk in it.                               *)
(***************************************************************************)
EXTENDS JsonTree

VARIABLES
  built,      \* the fields: name and value
  field,      \* number of the next field
  object,     \* the object so far
  collisions  \* names of the fields reported

vars == <<built, field, object, collisions>>

-----------------------------------------------------------------------------
IsField(f) == f.name \in Path \ {<<>>} /\ IsTree(f.value)

Receive ==
  /\ built = <<>>
  /\ built' \in Seq(Range(built'))
  /\ \A f \in Range(built') : IsField(f)
  /\ UNCHANGED <<field, object, collisions>>

(* The paths on the way to a name. *)
Above(name) == {SubSeq(name, 1, n) : n \in 0..Len(name) - 1}

(* A name can be had if no segment is empty, nothing is there yet, and     *)
(* there is no value but objects on the way.                               *)
Free(o, name) ==
  /\ \A j \in DOMAIN name : name[j] # ""
  /\ name \notin DOMAIN o
  /\ \A d \in Above(name) \cap DOMAIN o : o[d] = "object"

(* Object o with the value under the name. *)
With(o, name, value) ==
  LET made == Above(name) \ DOMAIN o
      new  == {name \o q : q \in DOMAIN value}
  IN  [d \in DOMAIN o \cup made \cup new |->
         CASE d \in DOMAIN o -> o[d]
           [] d \in made     -> "object"
           [] OTHER          -> value[SubSeq(d, Len(name) + 1, Len(d))]]

Place ==
  /\ field <= Len(built)
  /\ Free(object, built[field].name)
  /\ object' = With(object, built[field].name, built[field].value)
  /\ field' = field + 1
  /\ UNCHANGED <<built, collisions>>

Report ==
  /\ field <= Len(built)
  /\ ~Free(object, built[field].name)
  /\ collisions' = Append(collisions, built[field].name)
  /\ field' = field + 1
  /\ UNCHANGED <<built, object>>

-----------------------------------------------------------------------------
Init ==
  /\ built = <<>>
  /\ field = 1
  /\ object = EmptyObject
  /\ collisions = <<>>

Next == Receive \/ Place \/ Report

Spec == Init /\ [][Next]_vars

=============================================================================
