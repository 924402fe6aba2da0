--------------------------- MODULE ResponseFields ---------------------------
(***************************************************************************)
(* Shaping a reply by responseFields: each field selects a value from the  *)
(* A2A result (src/select.rs) and the values are assembled into one object *)
(* (src/response_build.rs), in the response filter (src/lib.rs).           *)
(*                                                                         *)
(* The assembly is modelled segment by segment: a field's dotted name      *)
(* moves a cursor down the object, creating objects on the way, and the    *)
(* value goes under the last segment.                                      *)
(***************************************************************************)
EXTENDS Selectors

CONSTANTS
  Roots,   \* A2A results: trees
  Fields,  \* responseFields entries: [name, selector]
  MaxFields

(* str::split: a name has a segment, if only an empty one. *)
ASSUME FieldsAssumption ==
  /\ \A r \in Roots : IsTree(r)
  /\ \A f \in Fields : f.name \in Path \ {<<>>} /\ f.selector \in Seq(Lexeme)
  /\ MaxFields \in Nat

VARIABLES
  root,        \* the parsed A2A result
  fields,      \* config.response_fields
  built,       \* BuiltFields: name and selected value; <<>> before selection
  field,       \* number of the field being assembled
  depth,       \* segments of its name already walked
  cursor,      \* path of the object the walk has reached
  object,      \* the object assembled so far
  collisions,  \* names of the fields skipped
  placed,      \* numbers of the fields placed
  before       \* object and collisions when the current field was begun

vars == <<root, fields, built, field, depth, cursor, object, collisions, placed, before>>

Assembling == built # <<>> /\ field <= Len(built)

Name == built[field].name

-----------------------------------------------------------------------------
(* lib.rs: the values are all selected before the first is placed *)

Select ==
  /\ built = <<>>
  /\ built' = [j \in DOMAIN fields |->
                 [name |-> fields[j].name, value |-> Selected(root, fields[j].selector)]]
  /\ UNCHANGED <<root, fields, field, depth, cursor, object, collisions, placed, before>>

-----------------------------------------------------------------------------
(* response_build.rs *)

NextField ==
  /\ field' = field + 1
  /\ depth' = 0
  /\ cursor' = <<>>
  /\ before' = [object |-> object', collisions |-> collisions']

Skip ==
  /\ collisions' = Append(collisions, Name)
  /\ UNCHANGED <<root, fields, built, object, placed>>
  /\ NextField

ValidName(name) == \A j \in DOMAIN name : name[j] # ""

(* Slip of RejectName: an invalid name is passed over without a word. *)
RejectNameSilently ==
  /\ Assembling
  /\ ~ValidName(Name)
  /\ UNCHANGED <<root, fields, built, object, collisions, placed>>
  /\ NextField

RejectName ==
  /\ Assembling
  /\ ~ValidName(Name)
  /\ Skip

(* Slip of Descend: the inner loop is continued, not the loop over fields. *)
DescendOn ==
  /\ Assembling
  /\ ValidName(Name)
  /\ depth < Len(Name) - 1
  /\ LET slot == Append(cursor, Name[depth + 1]) IN
     \/ /\ slot \in DOMAIN object /\ object[slot] # "object"
        /\ collisions' = Append(collisions, Name)
        /\ UNCHANGED <<cursor, object>>
     \/ /\ slot \in DOMAIN object => object[slot] = "object"
        /\ object' = IF slot \in DOMAIN object THEN object ELSE Graft(object, slot, EmptyObject)
        /\ cursor' = slot
        /\ UNCHANGED collisions
  /\ depth' = depth + 1
  /\ UNCHANGED <<root, fields, built, field, placed, before>>

(* Slip of Descend: a scalar in the way is replaced by an object. *)
DescendThrough ==
  /\ Assembling
  /\ ValidName(Name)
  /\ depth < Len(Name) - 1
  /\ LET slot == Append(cursor, Name[depth + 1]) IN
     /\ object' = IF slot \in DOMAIN object /\ object[slot] = "object" THEN object
                  ELSE Graft(object, slot, EmptyObject)
     /\ cursor' = slot
  /\ depth' = depth + 1
  /\ UNCHANGED <<root, fields, built, field, collisions, placed, before>>

(* One intermediate segment. *)
Descend ==
  LET slot == Append(cursor, Name[depth + 1]) IN
  /\ Assembling
  /\ ValidName(Name)
  /\ depth < Len(Name) - 1
  /\ \/ /\ slot \in DOMAIN object /\ object[slot] # "object"
        /\ Skip
     \/ /\ slot \in DOMAIN object => object[slot] = "object"
        /\ object' = IF slot \in DOMAIN object THEN object ELSE Graft(object, slot, EmptyObject)
        /\ cursor' = slot
        /\ depth' = depth + 1
        /\ UNCHANGED <<root, fields, built, field, collisions, placed, before>>

(* Slip of PlaceLeaf: the leaf is looked up at the top of the object. *)
PlaceLeafByTop ==
  LET leaf == Append(cursor, Name[Len(Name)]) IN
  /\ Assembling
  /\ ValidName(Name)
  /\ depth = Len(Name) - 1
  /\ \/ <<Name[Len(Name)]>> \in DOMAIN object /\ Skip
     \/ /\ <<Name[Len(Name)]>> \notin DOMAIN object
        /\ object' = Graft(object, leaf, built[field].value)
        /\ placed' = placed \cup {field}
        /\ UNCHANGED <<root, fields, built, collisions>>
        /\ NextField

(* The last segment. *)
PlaceLeaf ==
  LET leaf == Append(cursor, Name[Len(Name)]) IN
  /\ Assembling
  /\ ValidName(Name)
  /\ depth = Len(Name) - 1
  /\ \/ leaf \in DOMAIN object /\ Skip
     \/ /\ leaf \notin DOMAIN object
        /\ object' = Graft(object, leaf, built[field].value)
        /\ placed' = placed \cup {field}
        /\ UNCHANGED <<root, fields, built, collisions>>
        /\ NextField

-----------------------------------------------------------------------------
Init ==
  /\ root \in Roots
  /\ fields \in UNION {[1..n -> Fields] : n \in 1..MaxFields}
  /\ built = <<>>
  /\ field = 1
  /\ depth = 0
  /\ cursor = <<>>
  /\ object = EmptyObject
  /\ collisions = <<>>
  /\ placed = {}
  /\ before = [object |-> EmptyObject, collisions |-> <<>>]

Next == Select \/ RejectName \/ Descend \/ PlaceLeaf

Spec == Init /\ [][Next]_vars

-----------------------------------------------------------------------------
(* Properties *)

Begun == 1..(field - 1)

(* response_build.rs:43-45: a field that is skipped leaves nothing behind, *)
(* not even the objects its name would have gone through.                  *)
SkippedLeavesNoTrace ==
  [][field' # field /\ collisions' # before.collisions => object' = before.object]_vars

(* response_build.rs:44: earlier fields win.  Whatever comes later, the    *)
(* value of a placed field can be read at its path.                        *)
PlacedValuesStay ==
  \A j \in placed : \A q \in DOMAIN built[j].value :
    /\ built[j].name \o q \in DOMAIN object
    /\ object[built[j].name \o q] = built[j].value[q]

(* response_build.rs:43-48: only an invalid name or a conflict with an     *)
(* earlier, placed field costs a field its place.                          *)
SkipsAreJustified ==
  \A j \in Begun \ placed :
    \/ ~ValidName(built[j].name)
    \/ \E l \in placed : /\ l < j
                         /\ \/ IsPrefix(built[l].name, built[j].name)
                            \/ IsPrefix(built[j].name, built[l].name)

(* response_build.rs:34-41, 47-48: every field is placed or reported, in   *)
(* the order of the configuration.                                         *)
NothingSilentlyDropped ==
  \E skipped \in [DOMAIN collisions -> Begun \ placed] :
    /\ Range(skipped) = Begun \ placed
    /\ \A m, n \in DOMAIN collisions : m < n => skipped[m] < skipped[n]
    /\ \A n \in DOMAIN collisions : collisions[n] = built[skipped[n]].name

(* select.rs:15-22: whatever the agent answered with, every value in it    *)
(* whose path can be written is selected by each spelling of the path.     *)
SelectorsReach ==
  built = <<>> =>
    \A p \in DOMAIN root : Spellable(p) =>
      \A text \in Spellings(p) : Selected(root, text) = Subtree(root, p)

(* response_build.rs:43-48: the walk, segment by segment, is of no account: *)
(* each field is placed whole or reported, by what the earlier ones left.  *)
Atomic == INSTANCE AtomicAssembly WITH object <- before.object

ImplementsAssembly == Atomic!Spec

(* response_build.rs:22-23: "Each value is whatever the selector returned, *)
(* placed verbatim at its (possibly nested) path."                         *)
PlacedVerbatim ==
  \A j \in placed : Subtree(object, built[j].name) = built[j].value

=============================================================================
