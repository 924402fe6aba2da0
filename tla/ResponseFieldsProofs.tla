------------------------ MODULE ResponseFieldsProofs ------------------------
(***************************************************************************)
(* How the fields of a reply share one object, for every result, every     *)
(* list of fields and every name, and how a selector finds what it names,  *)
(* for every result and every path.                                        *)
(***************************************************************************)
EXTENDS ResponseFields, JsonTreeProofs

-----------------------------------------------------------------------------
(* The inductive invariant *)

(* What has been selected is a list of named trees. *)
TypeInv ==
  /\ root \in Roots
  /\ fields \in Seq(Fields)
  /\ built \in Seq(Range(built))
  /\ \A j \in 1..Len(built) : built[j].name \in Path \ {<<>>} /\ IsTree(built[j].value)
  /\ field \in 1..Len(built) + 1
  /\ collisions \in Seq(Path)
  /\ placed \subseteq Begun
  /\ before = [object |-> before.object, collisions |-> before.collisions]

(* The walk has followed the name as far as depth, from object to object.  *)
(* Where it has created one, nothing is below: the rest of the walk cannot *)
(* collide, so a field is skipped before it has changed anything.          *)
WalkInv ==
  /\ IsTree(object)
  /\ object[<<>>] = "object"
  /\ Assembling => /\ depth \in 0..Len(Name) - 1
                   /\ depth # 0 => ValidName(Name)
                   /\ cursor = SubSeq(Name, 1, depth)
  /\ ~Assembling => depth = 0 /\ cursor = <<>>
  /\ cursor \in DOMAIN object /\ object[cursor] = "object"
  /\ collisions = before.collisions
  /\ depth = 0 => object = before.object
  /\ object # before.object => \A d \in DOMAIN object : IsPrefix(cursor, d) => d = cursor

(* Whatever is in the object is there for a field that was placed, or has  *)
(* been created by this walk.                                              *)
InTheWay(d) ==
  \E l \in placed : \/ IsPrefix(d, built[l].name) /\ object[d] = "object"
                    \/ IsPrefix(built[l].name, d)

OriginInv ==
  /\ DOMAIN before.object \subseteq DOMAIN object
  /\ \A d \in DOMAIN object :
       \/ d = <<>>
       \/ InTheWay(d)
       \/ d \notin DOMAIN before.object /\ IsPrefix(d, cursor) /\ object[d] = "object"

IInv ==
  /\ TypeInv
  /\ WalkInv
  /\ OriginInv
  /\ PlacedValuesStay
  /\ SkipsAreJustified
  /\ NothingSilentlyDropped

-----------------------------------------------------------------------------
(* What a step meets *)

LEMMA AssemblingFacts ==
  ASSUME TypeInv, WalkInv, Assembling
  PROVE  /\ field \in 1..Len(built) /\ Len(built) \in Nat
         /\ Name \in Path /\ Name # <<>> /\ Len(Name) \in Nat \ {0}
         /\ IsTree(built[field].value)
         /\ depth \in 0..Len(Name) - 1
         /\ cursor \in Path /\ cursor = SubSeq(Name, 1, depth) /\ IsPrefix(cursor, Name)
<1>1. Len(built) \in Nat /\ field \in 1..Len(built)
  BY DEF TypeInv, Assembling
<1>2. Name \in Path /\ Name # <<>> /\ IsTree(built[field].value)
  BY <1>1 DEF TypeInv, Name
<1>3. Len(Name) \in Nat \ {0}
  BY <1>2, EmptySeq DEF Path
<1>4. depth \in 0..Len(Name) - 1 /\ cursor = SubSeq(Name, 1, depth)
  BY DEF WalkInv
<1>5. QED
  BY <1>1, <1>2, <1>3, <1>4, WalkPath

(* After a field the walk starts anew. *)
LEMMA NextFieldWalks ==
  ASSUME TypeInv, Assembling, NextField, built' = built,
         IsTree(object'), object'[<<>>] = "object"
  PROVE  WalkInv'
<1>1. before'.object = object' /\ before'.collisions = collisions' /\ field' = field + 1
  BY DEF NextField
<1>2. depth' = 0 /\ cursor' = <<>>
  BY DEF NextField
<1>3. Assembling' => depth' \in 0..Len(Name') - 1 /\ cursor' = SubSeq(Name', 1, depth')
  <2>1. ASSUME Assembling' PROVE Len(Name') \in Nat \ {0}
    <3>1. field + 1 \in 1..Len(built)
      BY <1>1, <2>1 DEF Assembling, TypeInv
    <3>2. Name' \in Path /\ Name' # <<>>
      BY <1>1, <3>1 DEF Name, TypeInv
    <3>3. QED
      BY <3>2, EmptySeq DEF Path
  <2>2. QED
    BY <1>2, <2>1, EmptyPath
<1>4. <<>> \in DOMAIN object'
  BY TreePaths
<1>5. QED
  BY <1>1, <1>2, <1>3, <1>4 DEF WalkInv

-----------------------------------------------------------------------------
(* A field is skipped *)

(* What excuses a field for not being placed. *)
Excused(name) ==
  \/ ~ValidName(name)
  \/ \E l \in placed : IsPrefix(built[l].name, name) \/ IsPrefix(name, built[l].name)

LEMMA SkipTypes ==
  ASSUME IInv, Assembling, Skip
  PROVE  TypeInv'
<1>1. /\ UNCHANGED <<root, fields, built, object, placed>>
      /\ field' = field + 1
      /\ collisions' = Append(collisions, Name)
      /\ before' = [object |-> object', collisions |-> collisions']
  BY DEF Skip, NextField
<1>2. field \in 1..Len(built) /\ Len(built) \in Nat /\ Name \in Path /\ collisions \in Seq(Path)
  BY AssemblingFacts DEF IInv, TypeInv
<1>3. field' \in 1..Len(built) + 1 /\ placed \subseteq Begun'
  BY <1>1, <1>2 DEF IInv, TypeInv, Begun
<1>4. collisions' \in Seq(Path)
  BY <1>1, <1>2
<1>5. QED
  BY <1>1, <1>3, <1>4 DEF IInv, TypeInv

LEMMA SkipReports ==
  ASSUME IInv, Assembling, Skip
  PROVE  NothingSilentlyDropped'
<1>1. /\ built' = built /\ placed' = placed /\ field' = field + 1
      /\ collisions' = Append(collisions, Name)
  BY DEF Skip, NextField
<1>2. field \in 1..Len(built) /\ Len(built) \in Nat /\ Name \in Path /\ collisions \in Seq(Path)
  BY AssemblingFacts DEF IInv, TypeInv
<1>3. /\ Len(collisions) \in Nat
      /\ DOMAIN collisions = 1..Len(collisions)
      /\ DOMAIN collisions' = 1..Len(collisions) + 1
      /\ \A n \in 1..Len(collisions) : collisions'[n] = collisions[n]
      /\ collisions'[Len(collisions) + 1] = Name
  BY <1>1, <1>2
<1>4. /\ Begun \ placed \subseteq 1..(field - 1)
      /\ (Begun \ placed)' = (Begun \ placed) \cup {field}
  BY <1>1, <1>2 DEF IInv, TypeInv, Begun
<1>5. PICK skipped \in [DOMAIN collisions -> Begun \ placed] :
        /\ Range(skipped) = Begun \ placed
        /\ \A m, n \in DOMAIN collisions : m < n => skipped[m] < skipped[n]
        /\ \A n \in DOMAIN collisions : collisions[n] = built[skipped[n]].name
  BY DEF IInv, NothingSilentlyDropped
<1> DEFINE now == [n \in DOMAIN collisions' |->
                     IF n = Len(collisions) + 1 THEN field ELSE skipped[n]]
<1>6. /\ DOMAIN now = DOMAIN collisions'
      /\ now[Len(collisions) + 1] = field
      /\ \A n \in DOMAIN collisions : n \in 1..Len(collisions) /\ now[n] = skipped[n]
  BY <1>3
<1> HIDE DEF now
<1>7. now \in [DOMAIN collisions' -> (Begun \ placed)']
  <2>1. ASSUME NEW n \in DOMAIN collisions' PROVE now[n] \in (Begun \ placed) \cup {field}
    BY <1>3, <1>5, <1>6
  <2>2. now = [n \in DOMAIN collisions' |-> now[n]]
    BY DEF now
  <2>3. QED
    BY <1>4, <2>1, <2>2
<1>8. Range(now) = (Begun \ placed)'
  <2>1. ASSUME NEW x \in (Begun \ placed) \cup {field} PROVE \E n \in DOMAIN now : now[n] = x
    <3>1. CASE x = field
      BY <1>3, <1>6, <3>1
    <3>2. CASE x # field
      <4>1. PICK n \in DOMAIN collisions : skipped[n] = x
        BY <1>5, <3>2 DEF Range
      <4>2. n \in DOMAIN now /\ now[n] = x
        BY <1>3, <1>6, <4>1
      <4>3. QED
        BY <4>2
    <3>3. QED
      BY <3>1, <3>2
  <2>2. QED
    BY <1>4, <1>6, <1>7, <2>1 DEF Range
<1>9. ASSUME NEW m \in DOMAIN collisions', NEW n \in DOMAIN collisions', m < n
      PROVE  now[m] < now[n]
  <2>1. m \in DOMAIN collisions
    BY <1>3, <1>9
  <2>2. CASE n = Len(collisions) + 1
    <3>1. skipped[m] \in 1..(field - 1)
      BY <1>4, <1>5, <2>1
    <3>2. QED
      BY <1>2, <1>6, <2>1, <2>2, <3>1
  <2>3. CASE n # Len(collisions) + 1
    <3>1. n \in DOMAIN collisions
      BY <1>3, <2>3
    <3>2. QED
      BY <1>5, <1>6, <1>9, <2>1, <3>1
  <2>4. QED
    BY <2>2, <2>3
<1>10. ASSUME NEW n \in DOMAIN collisions' PROVE collisions'[n] = built[now[n]].name
  <2>1. CASE n = Len(collisions) + 1
    BY <1>3, <1>6, <2>1 DEF Name
  <2>2. CASE n # Len(collisions) + 1
    <3>1. n \in DOMAIN collisions
      BY <1>3, <2>2
    <3>2. QED
      BY <1>3, <1>5, <1>6, <3>1
  <2>3. QED
    BY <2>1, <2>2
<1>11. QED
  BY <1>1, <1>7, <1>8, <1>9, <1>10 DEF NothingSilentlyDropped

LEMMA SkipKeeps ==
  ASSUME IInv, Assembling, Skip, object = before.object, Excused(Name)
  PROVE  IInv'
<1>1. /\ built' = built /\ placed' = placed /\ object' = object /\ field' = field + 1
      /\ cursor' = <<>>
  BY DEF Skip, NextField
<1>2. TypeInv' /\ NothingSilentlyDropped'
  BY SkipTypes, SkipReports
<1>3. WalkInv'
  <2>1. IsTree(object') /\ object'[<<>>] = "object" /\ NextField
    BY <1>1 DEF Skip, IInv, WalkInv
  <2>2. QED
    BY <1>1, <2>1, NextFieldWalks DEF IInv
<1>4. OriginInv'
  <2>1. before'.object = object'
    BY DEF Skip, NextField
  <2>2. \A d \in DOMAIN object : d = <<>> \/ InTheWay(d)
    BY DEF IInv, OriginInv
  <2>3. \A d \in DOMAIN object' : d = <<>> \/ InTheWay(d)'
    BY <1>1, <2>2 DEF InTheWay
  <2>4. QED
    BY <2>1, <2>3 DEF OriginInv
<1>5. PlacedValuesStay'
  BY <1>1 DEF IInv, PlacedValuesStay
<1>6. SkipsAreJustified'
  <2>1. ASSUME NEW j \in (Begun \ placed)'
        PROVE  \/ ~ValidName(built[j].name)
               \/ \E l \in placed : /\ l < j
                                    /\ \/ IsPrefix(built[l].name, built[j].name)
                                       \/ IsPrefix(built[j].name, built[l].name)
    <3>1. CASE j \in Begun
      BY <1>1, <2>1, <3>1 DEF IInv, SkipsAreJustified
    <3>2. CASE j \notin Begun
      <4>1. j = field /\ \A l \in placed : l < j
        BY <1>1, <2>1, <3>2, AssemblingFacts DEF IInv, TypeInv, Begun
      <4>2. QED
        BY <4>1 DEF Excused, Name
    <3>3. QED
      BY <3>1, <3>2
  <2>2. QED
    BY <1>1, <2>1 DEF SkipsAreJustified
<1>7. QED
  BY <1>2, <1>3, <1>4, <1>5, <1>6 DEF IInv

-----------------------------------------------------------------------------
(* The walk goes on *)

DescendOnce(slot) ==
  /\ Assembling
  /\ ValidName(Name)
  /\ depth < Len(Name) - 1
  /\ slot \in DOMAIN object => object[slot] = "object"
  /\ object' = IF slot \in DOMAIN object THEN object ELSE Graft(object, slot, EmptyObject)
  /\ cursor' = slot
  /\ depth' = depth + 1
  /\ UNCHANGED <<root, fields, built, field, collisions, placed, before>>

(* The next object, found or created. *)
LEMMA DescendExtends ==
  ASSUME IInv, NEW slot, slot = Append(cursor, Name[depth + 1]), DescendOnce(slot)
  PROVE  /\ slot \in Path /\ slot # <<>> /\ slot = SubSeq(Name, 1, depth + 1)
         /\ IsPrefix(cursor, slot) /\ cursor # slot
         /\ IsTree(object')
         /\ DOMAIN object' = DOMAIN object \cup {slot}
         /\ \A d \in DOMAIN object : object'[d] = object[d]
         /\ object'[slot] = "object"
         /\ slot \notin DOMAIN object =>
              \A d \in DOMAIN object' : IsPrefix(slot, d) => d = slot
<1>1. /\ Name \in Path /\ depth \in 0..Len(Name) - 1
      /\ cursor \in Path /\ cursor = SubSeq(Name, 1, depth)
  BY AssemblingFacts DEF IInv, DescendOnce
<1>2. Name[depth + 1] \in Step /\ slot = SubSeq(Name, 1, depth + 1)
  BY <1>1, WalkPath
<1>3. slot = cursor \o <<Name[depth + 1]>> /\ <<Name[depth + 1]>> \in Path
      /\ slot \in Path /\ Len(slot) = Len(cursor) + 1 /\ Len(cursor) \in Nat
  BY <1>1, <1>2, AppendPath DEF Path
<1>4. slot # <<>> /\ cursor # slot /\ IsPrefix(cursor, slot)
  <2>1. slot # <<>> /\ cursor # slot
    BY <1>3, EmptyPath
  <2>2. IsPrefix(cursor, cursor \o <<Name[depth + 1]>>)
    BY <1>1, <1>3, PrefixOfConcat
  <2>3. QED
    BY <1>3, <2>1, <2>2
<1>5. IsTree(object) /\ cursor \in DOMAIN object
  BY DEF IInv, WalkInv
<1>6. CASE slot \in DOMAIN object
  BY <1>2, <1>3, <1>4, <1>5, <1>6 DEF DescendOnce
<1>7. CASE slot \notin DOMAIN object
  <2>1. object' = Graft(object, slot, EmptyObject)
    BY <1>7 DEF DescendOnce
  <2>2. slot \in Path /\ \A n \in 0..Len(slot) - 1 : SubSeq(slot, 1, n) \in DOMAIN object
    BY <1>2, <1>5, StepsAbove
  <2>3. /\ IsTree(Graft(object, slot, EmptyObject))
        /\ DOMAIN Graft(object, slot, EmptyObject) = DOMAIN object \cup {slot}
        /\ \A d \in DOMAIN object : Graft(object, slot, EmptyObject)[d] = object[d]
        /\ Graft(object, slot, EmptyObject)[slot] = "object"
        /\ \A d \in DOMAIN object \cup {slot} : IsPrefix(slot, d) => d = slot
    BY <1>5, <1>7, <2>2, GraftEmpty
  <2>4. QED
    BY <1>2, <1>3, <1>4, <1>7, <2>1, <2>3
<1>8. QED
  BY <1>6, <1>7

LEMMA DescendKeeps ==
  ASSUME IInv, NEW slot, slot = Append(cursor, Name[depth + 1]), DescendOnce(slot)
  PROVE  IInv'
<1>1. /\ slot \in Path /\ slot # <<>> /\ slot = SubSeq(Name, 1, depth + 1)
      /\ IsPrefix(cursor, slot) /\ cursor # slot
      /\ IsTree(object')
      /\ DOMAIN object' = DOMAIN object \cup {slot}
      /\ \A d \in DOMAIN object : object'[d] = object[d]
      /\ object'[slot] = "object"
      /\ slot \notin DOMAIN object => \A d \in DOMAIN object' : IsPrefix(slot, d) => d = slot
  BY DescendExtends
<1>2. /\ Assembling /\ ValidName(Name) /\ depth < Len(Name) - 1
      /\ object' = IF slot \in DOMAIN object THEN object ELSE Graft(object, slot, EmptyObject)
      /\ cursor' = slot /\ depth' = depth + 1
      /\ UNCHANGED <<root, fields, built, field, collisions, placed, before>>
  BY DEF DescendOnce
<1>3. /\ Len(Name) \in Nat \ {0} /\ depth \in 0..Len(Name) - 1 /\ cursor \in Path
      /\ IsTree(object)
  BY <1>2, AssemblingFacts DEF IInv, WalkInv
<1>4. TypeInv'
  BY <1>2 DEF IInv, TypeInv, Begun
<1>5. WalkInv'
  <2>1. object'[<<>>] = "object"
    BY <1>1, <1>3, TreePaths DEF IInv, WalkInv
  <2>2. Assembling' /\ Name' = Name
    BY <1>2 DEF Assembling, Name
  <2>3. depth' \in 0..Len(Name') - 1 /\ depth' # 0 /\ ValidName(Name') /\ cursor' = SubSeq(Name', 1, depth')
    BY <1>1, <1>2, <1>3, <2>2
  <2>4. object' # before'.object => \A d \in DOMAIN object' : IsPrefix(slot, d) => d = slot
    <3>1. CASE slot \in DOMAIN object
      <4>1. object' = object /\ before' = before
        BY <1>2, <3>1
      <4>2. object = before.object
        BY <1>1, <3>1 DEF IInv, WalkInv
      <4>3. QED
        BY <4>1, <4>2
    <3>2. CASE slot \notin DOMAIN object
      BY <1>1, <3>2
    <3>3. QED
      BY <3>1, <3>2
  <2>5. QED
    BY <1>1, <1>2, <2>1, <2>2, <2>3, <2>4 DEF IInv, WalkInv
<1>6. OriginInv'
  <2>1. ASSUME NEW d \in DOMAIN object'
        PROVE  \/ d = <<>>
               \/ InTheWay(d)'
               \/ d \notin DOMAIN before.object /\ IsPrefix(d, slot) /\ object'[d] = "object"
    <3>1. CASE d \in DOMAIN object
      <4>1. d \in Path /\ object'[d] = object[d]
        BY <1>1, <1>3, <3>1, TreePaths
      <4>2. InTheWay(d) => InTheWay(d)'
        BY <1>2, <4>1 DEF InTheWay
      <4>3. IsPrefix(d, cursor) => IsPrefix(d, slot)
        BY <1>1, <1>3, <4>1, PrefixTransitive
      <4>4. QED
        BY <3>1, <4>1, <4>2, <4>3 DEF IInv, OriginInv
    <3>2. CASE d \notin DOMAIN object
      <4>1. d = slot
        BY <1>1, <3>2
      <4>2. IsPrefix(slot, slot)
        BY <1>1, EmptyPath, PrefixOfConcat
      <4>3. QED
        BY <1>1, <3>2, <4>1, <4>2 DEF IInv, OriginInv
    <3>3. QED
      BY <3>1, <3>2
  <2>2. DOMAIN before.object \subseteq DOMAIN object'
    BY <1>1 DEF IInv, OriginInv
  <2>3. QED
    BY <1>2, <2>1, <2>2 DEF OriginInv
<1>7. PlacedValuesStay'
  BY <1>1, <1>2 DEF IInv, PlacedValuesStay
<1>8. SkipsAreJustified' /\ NothingSilentlyDropped'
  BY <1>2 DEF IInv, SkipsAreJustified, NothingSilentlyDropped, Begun
<1>9. QED
  BY <1>4, <1>5, <1>6, <1>7, <1>8 DEF IInv

-----------------------------------------------------------------------------
(* The value is placed *)

PlaceOnce ==
  /\ Assembling
  /\ depth = Len(Name) - 1
  /\ Name \notin DOMAIN object
  /\ object' = Graft(object, Name, built[field].value)
  /\ placed' = placed \cup {field}
  /\ UNCHANGED <<root, fields, built, collisions>>
  /\ NextField

(* The end of the walk is the name. *)
LEMMA LeafIsName ==
  ASSUME IInv, Assembling, depth = Len(Name) - 1
  PROVE  /\ Append(cursor, Name[Len(Name)]) = Name
         /\ cursor # Name
         /\ \A n \in 0..Len(Name) - 1 : SubSeq(Name, 1, n) \in DOMAIN object
<1>1. /\ Name \in Path /\ Len(Name) \in Nat \ {0} /\ depth \in 0..Len(Name) - 1
      /\ cursor = SubSeq(Name, 1, depth) /\ cursor \in Path
  BY AssemblingFacts DEF IInv
<1>2. depth + 1 = Len(Name)
  BY <1>1
<1>3. Name[Len(Name)] \in Step /\ Append(cursor, Name[Len(Name)]) = Name
  BY <1>1, <1>2, WalkPath
<1>4. IsTree(object) /\ cursor \in DOMAIN object
  BY DEF IInv, WalkInv
<1>5. \A n \in 0..Len(Append(cursor, Name[Len(Name)])) - 1 :
        SubSeq(Append(cursor, Name[Len(Name)]), 1, n) \in DOMAIN object
  BY <1>3, <1>4, StepsAbove
<1>6. Len(cursor) = depth
  BY <1>1, SplitPath
<1>7. cursor # Name
  BY <1>1, <1>2, <1>6
<1>8. \A n \in 0..Len(Name) - 1 : SubSeq(Name, 1, n) \in DOMAIN object
  BY <1>3, <1>5, Zenon
<1>9. QED
  BY <1>3, <1>7, <1>8, Zenon

LEMMA PlaceKeeps ==
  ASSUME IInv, PlaceOnce
  PROVE  IInv'
<1> DEFINE value == built[field].value
<1>1. /\ Assembling /\ depth = Len(Name) - 1 /\ Name \notin DOMAIN object
      /\ object' = Graft(object, Name, value)
      /\ placed' = placed \cup {field}
      /\ UNCHANGED <<root, fields, built, collisions>>
      /\ field' = field + 1 /\ depth' = 0 /\ cursor' = <<>>
      /\ before' = [object |-> object', collisions |-> collisions']
      /\ NextField
  BY DEF PlaceOnce, NextField
<1>2. /\ field \in 1..Len(built) /\ Len(built) \in Nat
      /\ Name \in Path /\ Len(Name) \in Nat \ {0} /\ IsTree(value)
      /\ cursor \in Path /\ IsPrefix(cursor, Name)
  BY <1>1, AssemblingFacts DEF IInv
<1>3. /\ cursor # Name
      /\ \A n \in 0..Len(Name) - 1 : SubSeq(Name, 1, n) \in DOMAIN object
  BY <1>1, LeafIsName
<1>4. IsTree(object) /\ object[<<>>] = "object"
  BY DEF IInv, WalkInv
<1>5. /\ IsTree(object')
      /\ DOMAIN object \subseteq DOMAIN object'
      /\ \A d \in DOMAIN object : object'[d] = object[d]
      /\ \A d \in DOMAIN object' : d \in DOMAIN object \/ IsPrefix(Name, d)
      /\ \A q \in Path : /\ Name \o q \in DOMAIN object' <=> q \in DOMAIN value
                         /\ q \in DOMAIN value => object'[Name \o q] = value[q]
  BY <1>1, <1>2, <1>3, <1>4, GraftExtends
<1>6. TypeInv'
  <2>1. field' \in 1..Len(built) + 1 /\ placed' \subseteq Begun'
    BY <1>1, <1>2 DEF IInv, TypeInv, Begun
  <2>2. QED
    BY <1>1, <2>1 DEF IInv, TypeInv
<1>7. WalkInv'
  <2>1. object'[<<>>] = "object"
    BY <1>4, <1>5, TreePaths
  <2>2. QED
    BY <1>1, <1>5, <2>1, NextFieldWalks DEF IInv
<1>8. OriginInv'
  <2>1. ASSUME NEW d \in DOMAIN object' PROVE d = <<>> \/ InTheWay(d)'
    <3>1. field \in placed' /\ built'[field].name = Name /\ placed \subseteq placed' /\ built' = built
      BY <1>1 DEF Name
    <3>2. CASE d \in DOMAIN object
      <4>1. d \in Path /\ object'[d] = object[d]
        BY <1>4, <1>5, <3>2, TreePaths
      <4>2. InTheWay(d) => InTheWay(d)'
        BY <3>1, <4>1 DEF InTheWay
      <4>3. ASSUME IsPrefix(d, cursor), object[d] = "object" PROVE InTheWay(d)'
        <5>1. IsPrefix(d, Name)
          BY <1>2, <4>1, <4>3, PrefixTransitive
        <5>2. QED
          BY <3>1, <4>1, <4>3, <5>1 DEF InTheWay
      <4>4. QED
        BY <3>2, <4>2, <4>3 DEF IInv, OriginInv
    <3>3. CASE d \notin DOMAIN object
      BY <1>5, <3>1, <3>3 DEF InTheWay
    <3>4. QED
      BY <3>2, <3>3
  <2>2. before'.object = object'
    BY <1>1
  <2>3. QED
    BY <2>1, <2>2 DEF OriginInv
<1>9. PlacedValuesStay'
  <2>1. ASSUME NEW j \in placed', NEW q \in DOMAIN built[j].value
        PROVE  /\ built[j].name \o q \in DOMAIN object'
               /\ object'[built[j].name \o q] = built[j].value[q]
    <3>1. CASE j \in placed
      BY <1>5, <3>1 DEF IInv, PlacedValuesStay
    <3>2. CASE j \notin placed
      <4>1. j = field /\ built[j].name = Name /\ built[j].value = value
        BY <1>1, <3>2 DEF Name
      <4>2. q \in Path /\ q \in DOMAIN value
        BY <1>2, <4>1, TreePaths
      <4>3. QED
        BY <1>5, <4>1, <4>2
    <3>3. QED
      BY <3>1, <3>2
  <2>2. QED
    BY <1>1, <2>1 DEF PlacedValuesStay
<1>10. (Begun \ placed)' = Begun \ placed
  BY <1>1, <1>2 DEF Begun
<1>11. SkipsAreJustified'
  BY <1>1, <1>10 DEF IInv, SkipsAreJustified
<1>12. NothingSilentlyDropped'
  BY <1>1, <1>10 DEF IInv, NothingSilentlyDropped
<1>13. QED
  BY <1>6, <1>7, <1>8, <1>9, <1>11, <1>12 DEF IInv

-----------------------------------------------------------------------------
(* Each action *)

LEMMA RejectNameKeeps ==
  ASSUME IInv, RejectName
  PROVE  Assembling /\ Skip /\ object = before.object /\ Excused(Name)
  BY DEF RejectName, IInv, WalkInv, Excused

(* The next segment leads on towards the name. *)
LEMMA SlotFacts ==
  ASSUME IInv, Assembling, depth < Len(Name) - 1
  PROVE  /\ Append(cursor, Name[depth + 1]) \in Path
         /\ IsPrefix(Append(cursor, Name[depth + 1]), Name)
         /\ IsPrefix(cursor, Append(cursor, Name[depth + 1]))
         /\ Append(cursor, Name[depth + 1]) # cursor
         /\ Append(cursor, Name[depth + 1]) # <<>>
<1>1. /\ Name \in Path /\ Len(Name) \in Nat \ {0} /\ depth \in 0..Len(Name) - 1
      /\ cursor = SubSeq(Name, 1, depth) /\ cursor \in Path
  BY AssemblingFacts DEF IInv
<1>2. Name[depth + 1] \in Step /\ Append(cursor, Name[depth + 1]) = SubSeq(Name, 1, depth + 1)
  BY <1>1, WalkPath
<1>3. /\ Append(cursor, Name[depth + 1]) = cursor \o <<Name[depth + 1]>>
      /\ <<Name[depth + 1]>> \in Path
      /\ Append(cursor, Name[depth + 1]) \in Path
      /\ Len(Append(cursor, Name[depth + 1])) = Len(cursor) + 1
  BY <1>1, <1>2, AppendPath
<1>4. IsPrefix(cursor, cursor \o <<Name[depth + 1]>>)
  BY <1>1, <1>3, PrefixOfConcat
<1>5. depth + 1 \in 0..Len(Name) - 1
  BY <1>1
<1>6. IsPrefix(SubSeq(Name, 1, depth + 1), Name)
  BY <1>1, <1>5, WalkPath
<1>7. Len(cursor) \in Nat
  BY <1>1, LenProperties DEF Path
<1>8. Append(cursor, Name[depth + 1]) # cursor /\ Append(cursor, Name[depth + 1]) # <<>>
  BY <1>3, <1>7, EmptyPath
<1>9. QED
  BY <1>2, <1>3, <1>4, <1>6, <1>8, Zenon

(* A scalar in the way belongs to an earlier field. *)
LEMMA DescendSkips ==
  ASSUME IInv, Assembling,
         NEW slot \in DOMAIN object, object[slot] # "object",
         slot \in Path, slot # cursor, slot # <<>>, IsPrefix(cursor, slot), IsPrefix(slot, Name)
  PROVE  object = before.object /\ Excused(Name)
<1>1. object = before.object
  BY DEF IInv, WalkInv
<1>2. PICK l \in placed : IsPrefix(built[l].name, slot)
  BY <1>1 DEF IInv, OriginInv, InTheWay
<1>3. built[l].name \in Path /\ Name \in Path
  BY AssemblingFacts DEF IInv, TypeInv, Begun
<1>4. IsPrefix(built[l].name, Name)
  BY <1>2, <1>3, PrefixTransitive
<1>5. QED
  BY <1>1, <1>4 DEF Excused

(* What has the name already belongs to an earlier field, or leads to one. *)
LEMMA LeafSkips ==
  ASSUME IInv, Assembling, depth = Len(Name) - 1, Name \in DOMAIN object
  PROVE  object = before.object /\ Excused(Name)
<1>1. /\ Name \in Path /\ Name # <<>> /\ cursor \in Path /\ IsPrefix(cursor, Name) /\ cursor # Name
  BY AssemblingFacts, LeafIsName DEF IInv
<1>2. object = before.object
  BY <1>1 DEF IInv, WalkInv
<1>3. QED
  BY <1>1, <1>2 DEF IInv, OriginInv, InTheWay, Excused

LEMMA SelectKeeps ==
  ASSUME IInv, Select
  PROVE  IInv'
<1>1. /\ built = <<>>
      /\ built' = [j \in DOMAIN fields |->
                     [name |-> fields[j].name, value |-> Selected(root, fields[j].selector)]]
      /\ UNCHANGED <<root, fields, field, depth, cursor, object, collisions, placed, before>>
  BY DEF Select
<1>2. /\ root \in Roots /\ fields \in Seq(Fields)
      /\ field = 1 /\ placed = {} /\ Begun = {}
  BY <1>1, EmptySeq DEF IInv, TypeInv, Begun
<1>3. ASSUME NEW text PROVE IsTree(Selected(root, text))
  BY <1>2, FieldsAssumption, SubtreeTree, ScalarTree DEF Selected, Null
<1>4. Len(fields) \in Nat /\ DOMAIN fields = 1..Len(fields)
  BY <1>2
<1>5. \A j \in 1..Len(fields) : fields[j] \in Fields
  BY <1>2
<1>6. built' \in Seq(Range(built')) /\ Len(built') = Len(fields)
  <2>1. DOMAIN built' = 1..Len(fields) /\ built' = [j \in 1..Len(fields) |-> built'[j]]
    BY <1>1, <1>4
  <2>2. \A j \in 1..Len(fields) : built'[j] \in Range(built')
    BY <2>1 DEF Range
  <2>3. built' \in [1..Len(fields) -> Range(built')]
    BY <2>1, <2>2
  <2>4. built' \in Seq(Range(built'))
    BY <1>4, <2>3, SeqDef
  <2>5. QED
    BY <1>4, <2>1, <2>4, LenProperties
<1>7. \A j \in 1..Len(fields) : built'[j].name \in Path \ {<<>>} /\ IsTree(built'[j].value)
  BY <1>1, <1>3, <1>4, <1>5, FieldsAssumption
<1>8. TypeInv'
  BY <1>1, <1>2, <1>4, <1>6, <1>7 DEF IInv, TypeInv, Begun
<1>9. ~Assembling
  BY <1>1 DEF Assembling
<1>10. WalkInv'
  <2>1. depth = 0 /\ cursor = <<>> /\ object = before.object
    BY <1>9 DEF IInv, WalkInv
  <2>2. Assembling' => depth' \in 0..Len(Name') - 1 /\ cursor' = SubSeq(Name', 1, depth')
    <3>1. ASSUME Assembling' PROVE Len(Name') \in Nat \ {0}
      <4>1. field' = 1 /\ 1 \in 1..Len(fields)
        BY <1>1, <1>2, <1>4, <1>6, <3>1 DEF Assembling
      <4>2. Name' = built'[1].name
        BY <4>1 DEF Name
      <4>3. Name' \in Path /\ Name' # <<>>
        BY <1>7, <4>1, <4>2
      <4>4. QED
        BY <4>3, EmptySeq DEF Path
    <3>2. QED
      BY <1>1, <2>1, <3>1, EmptyPath
  <2>3. QED
    BY <1>1, <2>1, <2>2 DEF IInv, WalkInv
<1>11. OriginInv'
  BY <1>1, <1>2 DEF IInv, OriginInv, InTheWay
<1>12. PlacedValuesStay' /\ SkipsAreJustified'
  BY <1>1, <1>2 DEF PlacedValuesStay, SkipsAreJustified, Begun
<1>13. NothingSilentlyDropped'
  <2>1. \A n \in DOMAIN collisions : FALSE
    BY <1>2 DEF IInv, NothingSilentlyDropped
  <2>2. QED
    BY <1>1, <1>2, <2>1 DEF IInv, NothingSilentlyDropped, Begun
<1>14. QED
  BY <1>8, <1>10, <1>11, <1>12, <1>13 DEF IInv

LEMMA DescendStep ==
  ASSUME IInv, Descend
  PROVE  \/ Skip /\ Assembling /\ object = before.object /\ Excused(Name)
         \/ DescendOnce(Append(cursor, Name[depth + 1]))
<1>1. Assembling /\ ValidName(Name) /\ depth < Len(Name) - 1
  BY DEF Descend
<1>2. /\ Append(cursor, Name[depth + 1]) \in Path
      /\ IsPrefix(Append(cursor, Name[depth + 1]), Name)
      /\ IsPrefix(cursor, Append(cursor, Name[depth + 1]))
      /\ Append(cursor, Name[depth + 1]) # cursor
      /\ Append(cursor, Name[depth + 1]) # <<>>
  BY <1>1, SlotFacts
<1>3. CASE /\ Append(cursor, Name[depth + 1]) \in DOMAIN object
           /\ object[Append(cursor, Name[depth + 1])] # "object"
           /\ Skip
  BY <1>1, <1>2, <1>3, DescendSkips
<1>4. CASE ~ /\ Append(cursor, Name[depth + 1]) \in DOMAIN object
             /\ object[Append(cursor, Name[depth + 1])] # "object"
             /\ Skip
  BY <1>1, <1>4, Zenon DEF Descend, DescendOnce
<1>5. QED
  BY <1>3, <1>4

LEMMA PlaceLeafStep ==
  ASSUME IInv, PlaceLeaf
  PROVE  \/ Skip /\ Assembling /\ object = before.object /\ Excused(Name)
         \/ PlaceOnce
<1>1. Assembling /\ ValidName(Name) /\ depth = Len(Name) - 1
  BY DEF PlaceLeaf
<1>2. Append(cursor, Name[Len(Name)]) = Name
  BY <1>1, LeafIsName
<1>3. \/ Name \in DOMAIN object /\ Skip
      \/ PlaceOnce
  BY <1>1, <1>2, Zenon DEF PlaceLeaf, PlaceOnce
<1>4. QED
  BY <1>1, <1>3, LeafSkips

-----------------------------------------------------------------------------
(* The invariant holds *)

LEMMA InitIInv ==
  ASSUME Init
  PROVE  IInv
<1>1. /\ root \in Roots /\ built = <<>> /\ field = 1 /\ depth = 0 /\ cursor = <<>>
      /\ object = EmptyObject /\ collisions = <<>> /\ placed = {}
      /\ before = [object |-> EmptyObject, collisions |-> <<>>]
  BY DEF Init
<1>2. IsTree(object) /\ DOMAIN object = {<<>>} /\ object[<<>>] = "object"
  BY <1>1, ScalarTree DEF EmptyObject
<1>3. Begun = {}
  BY <1>1 DEF Begun
<1>4. fields \in Seq(Fields)
  <2>1. PICK n \in 1..MaxFields : fields \in [1..n -> Fields]
    BY DEF Init
  <2>2. n \in Nat
    BY FieldsAssumption
  <2>3. QED
    BY <2>1, <2>2, SeqDef
<1>5. built \in Seq(Range(built)) /\ Len(built) = 0 /\ collisions \in Seq(Path)
  BY <1>1, EmptySeq
<1>6. TypeInv
  BY <1>1, <1>3, <1>4, <1>5 DEF TypeInv
<1>7. WalkInv
  BY <1>1, <1>2 DEF WalkInv, Assembling
<1>8. OriginInv
  BY <1>1, <1>2 DEF OriginInv
<1>9. PlacedValuesStay /\ SkipsAreJustified
  BY <1>1, <1>3 DEF PlacedValuesStay, SkipsAreJustified
<1>10. NothingSilentlyDropped
  <2>1. DOMAIN collisions = {}
    BY <1>1
  <2> DEFINE skipped == [n \in {} |-> 0]
  <2>2. skipped \in [DOMAIN collisions -> Begun \ placed] /\ Range(skipped) = Begun \ placed
    BY <1>1, <1>3, <2>1 DEF Range
  <2>3. QED
    BY <2>1, <2>2 DEF NothingSilentlyDropped
<1>11. QED
  BY <1>6, <1>7, <1>8, <1>9, <1>10 DEF IInv

LEMMA NextIInv ==
  ASSUME IInv, [Next]_vars
  PROVE  IInv'
<1>1. CASE Select
  BY <1>1, SelectKeeps
<1>2. CASE RejectName
  BY <1>2, RejectNameKeeps, SkipKeeps
<1>3. CASE Descend
  BY <1>3, DescendStep, SkipKeeps, DescendKeeps
<1>4. CASE PlaceLeaf
  BY <1>4, PlaceLeafStep, SkipKeeps, PlaceKeeps
<1>5. CASE UNCHANGED vars
  <2>1. TypeInv' /\ WalkInv' /\ OriginInv'
    BY <1>5 DEF vars, IInv, TypeInv, WalkInv, OriginInv, InTheWay, Begun, Assembling, Name
  <2>2. PlacedValuesStay' /\ SkipsAreJustified' /\ NothingSilentlyDropped'
    BY <1>5 DEF vars, IInv, PlacedValuesStay, SkipsAreJustified, NothingSilentlyDropped, Begun
  <2>3. QED
    BY <2>1, <2>2 DEF IInv
<1>6. QED
  BY <1>1, <1>2, <1>3, <1>4, <1>5 DEF Next

(* However far an assembly has come: what is in the object is there for a  *)
(* placed field or by the walk under way, and the walk collides only       *)
(* before it has changed anything.                                         *)
THEOREM FieldsInvariant == Spec => []IInv
<1>1. Init => IInv
  BY InitIInv
<1>2. IInv /\ [Next]_vars => IInv'
  BY NextIInv
<1>3. QED
  BY <1>1, <1>2, PTL DEF Spec

(* response_build.rs:44: earlier fields win.  Whatever comes later, every   *)
(* value of a placed field can be read at its path.                        *)
THEOREM EarlierFieldsWin == Spec => []PlacedValuesStay
<1>1. IInv => PlacedValuesStay
  BY DEF IInv
<1>2. QED
  BY <1>1, FieldsInvariant, PTL

(* response_build.rs:43-48: a field that is not placed has an invalid name *)
(* or lies on the path of an earlier, placed field.                        *)
THEOREM SkippedForAReason == Spec => []SkipsAreJustified
<1>1. IInv => SkipsAreJustified
  BY DEF IInv
<1>2. QED
  BY <1>1, FieldsInvariant, PTL

(* response_build.rs:34-41, 47-48: the names reported are those of the     *)
(* fields not placed, one report a field, in the order of the              *)
(* configuration.                                                          *)
THEOREM PlacedOrReported == Spec => []NothingSilentlyDropped
<1>1. IInv => NothingSilentlyDropped
  BY DEF IInv
<1>2. QED
  BY <1>1, FieldsInvariant, PTL

(* response_build.rs:43-45: a field that is skipped leaves the object as   *)
(* it was when the field was begun.                                        *)
THEOREM SkipsLeaveNoTrace == Spec => SkippedLeavesNoTrace
<1> DEFINE Kept == field' # field /\ collisions' # before.collisions => object' = before.object
<1>1. IInv /\ [Next]_vars => [Kept]_vars
  <2> SUFFICES ASSUME IInv, Next, field' # field, collisions' # before.collisions
               PROVE  object' = before.object
    OBVIOUS
  <2>1. collisions = before.collisions
    BY DEF IInv, WalkInv
  <2>2. CASE Select
    BY <2>2 DEF Select
  <2>3. CASE RejectName
    BY <2>3, RejectNameKeeps DEF Skip
  <2>4. CASE Descend
    <3>1. ~DescendOnce(Append(cursor, Name[depth + 1]))
      BY DEF DescendOnce
    <3>2. QED
      BY <2>4, <3>1, DescendStep DEF Skip
  <2>5. CASE PlaceLeaf
    <3>1. ~PlaceOnce
      BY <2>1 DEF PlaceOnce
    <3>2. QED
      BY <2>5, <3>1, PlaceLeafStep DEF Skip
  <2>6. QED
    BY <2>2, <2>3, <2>4, <2>5 DEF Next
<1>2. QED
  BY <1>1, FieldsInvariant, PTL DEF Spec, SkippedLeavesNoTrace

-----------------------------------------------------------------------------
(* The assembly, one step a field *)

(* From tree s to tree o the first n segments of a name have been walked:  *)
(* the objects that were missing have been added and nothing else, and all *)
(* there is on the way is objects.                                         *)
IsTrail(s, o, name, n) ==
  /\ IsTree(s)
  /\ \A d \in DOMAIN s : d \in DOMAIN o /\ o[d] = s[d]
  /\ \A d \in DOMAIN o : d \in DOMAIN s \/ \E m \in 0..n : d = SubSeq(name, 1, m)
  /\ \A m \in 0..n : SubSeq(name, 1, m) \in DOMAIN o /\ o[SubSeq(name, 1, m)] = "object"

TrailInv == IsTrail(before.object, object, Name, depth)

(* Between two fields there is no trail. *)
LEMMA TrailBegins ==
  ASSUME NEW o, IsTree(o), o[<<>>] = "object", NEW name
  PROVE  IsTrail(o, o, name, 0)
<1>1. \A m \in 0..0 : SubSeq(name, 1, m) = <<>>
  <2>1. \A m \in 0..0 : m = 0
    OBVIOUS
  <2>2. QED
    BY <2>1, EmptyPath
<1>2. <<>> \in DOMAIN o
  BY TreePaths
<1>3. QED
  BY <1>1, <1>2 DEF IsTrail

LEMMA TrailGoesOn ==
  ASSUME IInv, TrailInv, NEW slot, slot = Append(cursor, Name[depth + 1]), DescendOnce(slot)
  PROVE  TrailInv'
<1>1. /\ slot = SubSeq(Name, 1, depth + 1)
      /\ DOMAIN object' = DOMAIN object \cup {slot}
      /\ \A d \in DOMAIN object : object'[d] = object[d]
      /\ object'[slot] = "object"
  BY DescendExtends
<1>2. depth' = depth + 1 /\ UNCHANGED <<built, field, before>> /\ Assembling
  BY DEF DescendOnce
<1>3. Name' = Name
  BY <1>2 DEF Name
<1>4. depth \in Nat
  BY <1>2, AssemblingFacts DEF IInv
<1>5. \A n \in 0..depth + 1 : n \in 0..depth \/ n = depth + 1
  BY <1>4
<1>6. 0..depth \subseteq 0..depth + 1 /\ depth + 1 \in 0..depth + 1
  BY <1>4
<1>7. \A d \in DOMAIN object' :
        d \in DOMAIN before.object \/ \E n \in 0..depth + 1 : d = SubSeq(Name, 1, n)
  BY <1>1, <1>6 DEF TrailInv, IsTrail
<1>8. \A n \in 0..depth + 1 : SubSeq(Name, 1, n) \in DOMAIN object'
                              /\ object'[SubSeq(Name, 1, n)] = "object"
  BY <1>1, <1>5 DEF TrailInv, IsTrail
<1>9. QED
  BY <1>1, <1>2, <1>3, <1>7, <1>8 DEF TrailInv, IsTrail

LEMMA TrailKept ==
  ASSUME IInv, TrailInv, [Next]_vars
  PROVE  TrailInv'
<1>1. IInv'
  BY NextIInv
<1>2. IsTree(object') /\ object'[<<>>] = "object"
  BY <1>1 DEF IInv, WalkInv
<1>3. ASSUME NextField PROVE TrailInv'
  <2>1. depth' = 0 /\ before'.object = object'
    BY <1>3 DEF NextField
  <2>2. QED
    BY <1>2, <2>1, TrailBegins DEF TrailInv
<1>4. CASE Select
  <2>1. depth = 0 /\ object = before.object
    BY <1>4 DEF Select, IInv, WalkInv, Assembling
  <2>2. UNCHANGED <<depth, object, before>>
    BY <1>4 DEF Select
  <2>3. QED
    BY <1>2, <2>1, <2>2, TrailBegins DEF TrailInv
<1>5. CASE RejectName
  BY <1>3, <1>5 DEF RejectName, Skip
<1>6. CASE Descend
  BY <1>3, <1>6, DescendStep, TrailGoesOn DEF Skip
<1>7. CASE PlaceLeaf
  BY <1>3, <1>7, PlaceLeafStep DEF Skip, PlaceOnce
<1>8. CASE UNCHANGED vars
  BY <1>8 DEF vars, TrailInv, Name
<1>9. QED
  BY <1>4, <1>5, <1>6, <1>7, <1>8 DEF Next

-----------------------------------------------------------------------------
(* Each step of a walk is a step of the abstract assembly, or none *)

(* Trees are trees in both modules. *)
LEMMA SameTrees ==
  /\ Atomic!Path = Path /\ \A t : Atomic!IsTree(t) <=> IsTree(t)
  /\ Atomic!EmptyObject = EmptyObject
  /\ \A s : Atomic!Range(s) = Range(s)
  BY DEF Atomic!Path, Path, Atomic!IsTree, IsTree, Atomic!EmptyObject, EmptyObject,
         Atomic!Scalar, Scalar, Atomic!Range, Range

(* The paths on the way to a name. *)
LEMMA AboveName ==
  ASSUME NEW name \in Path
  PROVE  /\ \A d \in Atomic!Above(name) : \E n \in 0..Len(name) - 1 : d = SubSeq(name, 1, n)
         /\ \A n \in 0..Len(name) - 1 : SubSeq(name, 1, n) \in Atomic!Above(name)
         /\ \A q \in Path : name \o q \notin Atomic!Above(name)
<1>1. ASSUME NEW n \in 0..Len(name) - 1, NEW q \in Path PROVE name \o q # SubSeq(name, 1, n)
  <2>1. Len(name) \in Nat /\ n \in 0..Len(name)
    BY DEF Path
  <2>2. Len(SubSeq(name, 1, n)) = n /\ Len(name \o q) = Len(name) + Len(q) /\ Len(q) \in Nat
    BY <2>1, SplitPath, ConcatPaths DEF Path
  <2>3. QED
    BY <2>1, <2>2
<1>2. QED
  BY <1>1 DEF Atomic!Above

IsMap(t) == t = [d \in DOMAIN t |-> t[d]]

(* What is where in an object with one more field. *)
LEMMA WithParts ==
  ASSUME NEW o, IsTree(o), NEW name \in Path, name \notin DOMAIN o, NEW value, IsTree(value),
         NEW t, t = Atomic!With(o, name, value)
  PROVE  /\ IsMap(t)
         /\ \A d \in DOMAIN t : \/ d \in DOMAIN o \cup Atomic!Above(name)
                               \/ \E q \in DOMAIN value : d = name \o q
         /\ DOMAIN o \cup Atomic!Above(name) \subseteq DOMAIN t
         /\ \A q \in DOMAIN value : name \o q \in DOMAIN t
         /\ \A d \in DOMAIN o : t[d] = o[d]
         /\ \A d \in Atomic!Above(name) \ DOMAIN o : t[d] = "object"
         /\ \A q \in DOMAIN value : t[name \o q] = value[q]
<1> DEFINE made == Atomic!Above(name) \ DOMAIN o
           new  == {name \o q : q \in DOMAIN value}
           node(d) == CASE d \in DOMAIN o -> o[d]
                        [] d \in made     -> "object"
                        [] OTHER          -> value[SubSeq(d, Len(name) + 1, Len(d))]
<1>1. t = [d \in DOMAIN o \cup made \cup new |-> node(d)]
  BY DEF Atomic!With
<1>2. ASSUME NEW q \in DOMAIN value
      PROVE  /\ name \o q \in new /\ name \o q \notin DOMAIN o /\ name \o q \notin made
             /\ SubSeq(name \o q, Len(name) + 1, Len(name \o q)) = q
  <2>1. q \in Path
    BY TreePaths
  <2>2. QED
    BY <2>1, TreePaths, AboveName, ConcatPaths
<1>3. DOMAIN o \cup made \cup new = DOMAIN o \cup Atomic!Above(name) \cup new
  OBVIOUS
<1>4. \A d \in Atomic!Above(name) \ DOMAIN o : d \in made
  OBVIOUS
<1>5. /\ \A d \in DOMAIN o : node(d) = o[d]
      /\ \A d \in made : node(d) = "object"
      /\ \A d : d \notin DOMAIN o /\ d \notin made =>
           node(d) = value[SubSeq(d, Len(name) + 1, Len(d))]
  BY DEF made
<1> HIDE DEF made, new, node
<1>6. DOMAIN t = DOMAIN o \cup made \cup new /\ \A d \in DOMAIN t : t[d] = node(d)
  BY <1>1
<1>7. IsMap(t)
  BY <1>1 DEF IsMap
<1>8. \A q \in DOMAIN value : t[name \o q] = value[q]
  BY <1>2, <1>5, <1>6
<1>9. QED
  BY <1>3, <1>4, <1>5, <1>6, <1>7, <1>8 DEF new

(* A field is skipped for what the earlier ones left. *)
LEMMA SkipIsReport ==
  ASSUME Assembling, Skip, object = before.object, ~Atomic!Free(object, Name)
  PROVE  Atomic!Report
<1>1. /\ collisions' = Append(collisions, Name) /\ UNCHANGED <<built, object>>
      /\ field' = field + 1 /\ before'.object = object'
  BY DEF Skip, NextField
<1>2. QED
  BY <1>1 DEF Atomic!Report, Assembling, Name

LEMMA RejectNameMaps ==
  ASSUME IInv, RejectName
  PROVE  Atomic!Report
<1>1. Assembling /\ Skip /\ object = before.object
  BY RejectNameKeeps
<1>2. ~Atomic!Free(object, Name)
  BY DEF RejectName, ValidName, Atomic!Free
<1>3. QED
  BY <1>1, <1>2, SkipIsReport

(* A walk that goes on has placed nothing yet. *)
LEMMA DescendMaps ==
  ASSUME IInv, Descend
  PROVE  Atomic!Report \/ UNCHANGED Atomic!vars
<1> DEFINE slot == Append(cursor, Name[depth + 1])
<1>1. Assembling /\ depth < Len(Name) - 1
  BY DEF Descend
<1>2. CASE Skip
  <2>1. object = before.object
    BY <1>2, DescendStep DEF DescendOnce, Skip, NextField
  <2>2. slot \in DOMAIN object /\ object[slot] # "object"
    BY <1>2 DEF Descend, Skip, NextField
  <2>3. slot \in Atomic!Above(Name)
    <3>1. /\ Name \in Path /\ Len(Name) \in Nat /\ depth \in 0..Len(Name) - 1
          /\ cursor = SubSeq(Name, 1, depth)
      BY <1>1, AssemblingFacts DEF IInv
    <3>2. slot = SubSeq(Name, 1, depth + 1) /\ depth + 1 \in 0..Len(Name) - 1
      BY <1>1, <3>1, WalkPath
    <3>3. QED
      BY <3>1, <3>2, AboveName
  <2>4. ~Atomic!Free(object, Name)
    BY <2>2, <2>3 DEF Atomic!Free
  <2>5. QED
    BY <1>1, <1>2, <2>1, <2>4, SkipIsReport
<1>3. CASE DescendOnce(slot)
  BY <1>3 DEF DescendOnce, Atomic!vars
<1>4. QED
  BY <1>2, <1>3, DescendStep

(* At the end of the walk all that leads to the name is there. *)
LEMMA TrailIsAbove ==
  ASSUME IInv, TrailInv, Assembling, depth = Len(Name) - 1
  PROVE  /\ \A d \in DOMAIN object : d \in DOMAIN before.object \/ d \in Atomic!Above(Name)
         /\ \A d \in Atomic!Above(Name) : d \in DOMAIN object /\ object[d] = "object"
<1>1. Name \in Path
  BY AssemblingFacts DEF IInv
<1>2. /\ \A d \in Atomic!Above(Name) : \E n \in 0..depth : d = SubSeq(Name, 1, n)
      /\ \A n \in 0..depth : SubSeq(Name, 1, n) \in Atomic!Above(Name)
  BY <1>1, AboveName
<1>3. \A d \in DOMAIN object :
        d \in DOMAIN before.object \/ \E n \in 0..depth : d = SubSeq(Name, 1, n)
  BY DEF TrailInv, IsTrail
<1>4. \A n \in 0..depth : SubSeq(Name, 1, n) \in DOMAIN object
                          /\ object[SubSeq(Name, 1, n)] = "object"
  BY DEF TrailInv, IsTrail
<1>5. \A d \in DOMAIN object : d \in DOMAIN before.object \/ d \in Atomic!Above(Name)
  BY <1>2, <1>3
<1>6. \A d \in Atomic!Above(Name) : d \in DOMAIN object /\ object[d] = "object"
  BY <1>2, <1>4
<1>7. QED
  BY <1>5, <1>6

(* The graft at the end of the walk makes of the object before it the      *)
(* object with one more field.                                             *)
LEMMA GraftIsWith ==
  ASSUME IInv, TrailInv, Assembling, depth = Len(Name) - 1, Name \notin DOMAIN object
  PROVE  Graft(object, Name, built[field].value)
           = Atomic!With(before.object, Name, built[field].value)
<1> DEFINE value == built[field].value
           g == Graft(object, Name, value)
           w == Atomic!With(before.object, Name, value)
<1>1. Name \in Path /\ Len(Name) \in Nat \ {0} /\ IsTree(value)
  BY AssemblingFacts DEF IInv
<1>2. /\ IsTree(object) /\ IsTree(before.object)
      /\ \A d \in DOMAIN before.object : d \in DOMAIN object /\ object[d] = before.object[d]
  BY DEF IInv, WalkInv, TrailInv, IsTrail
<1>3. /\ \A d \in DOMAIN object : d \in DOMAIN before.object \/ d \in Atomic!Above(Name)
      /\ \A d \in Atomic!Above(Name) : d \in DOMAIN object /\ object[d] = "object"
  BY TrailIsAbove
<1>4. Name \notin DOMAIN before.object
  BY <1>2
<1>5. /\ IsTree(g)
      /\ DOMAIN object \subseteq DOMAIN g
      /\ \A d \in DOMAIN object : g[d] = object[d]
      /\ \A d \in DOMAIN g : d \in DOMAIN object \/ IsPrefix(Name, d)
      /\ \A q \in Path : /\ Name \o q \in DOMAIN g <=> q \in DOMAIN value
                         /\ q \in DOMAIN value => g[Name \o q] = value[q]
  BY <1>1, <1>2, LeafIsName, GraftExtends
<1>6. /\ IsMap(w)
      /\ \A d \in DOMAIN w : \/ d \in DOMAIN before.object \cup Atomic!Above(Name)
                            \/ \E q \in DOMAIN value : d = Name \o q
      /\ DOMAIN before.object \cup Atomic!Above(Name) \subseteq DOMAIN w
      /\ \A q \in DOMAIN value : Name \o q \in DOMAIN w
      /\ \A d \in DOMAIN before.object : w[d] = before.object[d]
      /\ \A d \in Atomic!Above(Name) \ DOMAIN before.object : w[d] = "object"
      /\ \A q \in DOMAIN value : w[Name \o q] = value[q]
  BY <1>1, <1>2, <1>4, WithParts
<1> HIDE DEF value, g, w
<1>7. \A q \in DOMAIN value : q \in Path
  BY <1>1, TreePaths
<1>8. ASSUME NEW d \in DOMAIN g PROVE d \in DOMAIN w /\ g[d] = w[d]
  <2>1. CASE d \in DOMAIN object
    BY <1>2, <1>3, <1>5, <1>6, <2>1
  <2>2. CASE d \notin DOMAIN object
    <3>1. d \in Path /\ IsPrefix(Name, d)
      BY <1>5, <2>2, TreePaths
    <3>2. PICK q \in Path : d = Name \o q
      BY <1>1, <3>1, PrefixSplits
    <3>3. QED
      BY <1>5, <1>6, <3>2
  <2>3. QED
    BY <2>1, <2>2
<1>9. ASSUME NEW d \in DOMAIN w PROVE d \in DOMAIN g
  <2>1. CASE d \in DOMAIN before.object \cup Atomic!Above(Name)
    BY <1>2, <1>3, <1>5, <2>1
  <2>2. CASE \E q \in DOMAIN value : d = Name \o q
    BY <1>5, <1>7, <2>2
  <2>3. QED
    BY <1>6, <2>1, <2>2
<1>10. g = [d \in DOMAIN g |-> g[d]]
  BY <1>5 DEF IsTree
<1>11. g = w
  BY <1>6, <1>8, <1>9, <1>10 DEF IsMap
<1>12. QED
  BY <1>11 DEF g, w, value

LEMMA PlaceLeafMaps ==
  ASSUME IInv, TrailInv, PlaceLeaf
  PROVE  Atomic!Report \/ Atomic!Place
<1>1. Assembling /\ ValidName(Name) /\ depth = Len(Name) - 1
  BY DEF PlaceLeaf
<1>2. Append(cursor, Name[Len(Name)]) = Name
  BY <1>1, LeafIsName
<1>3. (Name \in DOMAIN object /\ Skip) \/ PlaceOnce
  BY <1>1, <1>2, Zenon DEF PlaceLeaf, PlaceOnce
<1>4. CASE Name \in DOMAIN object /\ Skip
  <2>1. object = before.object
    BY <1>1, <1>4, LeafSkips
  <2>2. ~Atomic!Free(object, Name)
    BY <1>4 DEF Atomic!Free
  <2>3. QED
    BY <1>1, <1>4, <2>1, <2>2, SkipIsReport
<1>5. CASE PlaceOnce
  <2>1. /\ Name \notin DOMAIN object
        /\ object' = Graft(object, Name, built[field].value)
        /\ UNCHANGED <<built, collisions>>
        /\ field' = field + 1 /\ before'.object = object'
    BY <1>5 DEF PlaceOnce, NextField
  <2>2. object' = Atomic!With(before.object, Name, built[field].value)
    BY <1>1, <2>1, GraftIsWith
  <2>3. Atomic!Free(before.object, Name)
    <3>1. \A d \in Atomic!Above(Name) \cap DOMAIN before.object : before.object[d] = "object"
      <4>1. \A d \in Atomic!Above(Name) : object[d] = "object"
        BY <1>1, TrailIsAbove
      <4>2. \A d \in DOMAIN before.object : object[d] = before.object[d]
        BY DEF TrailInv, IsTrail
      <4>3. QED
        BY <4>1, <4>2
    <3>2. Name \notin DOMAIN before.object
      BY <2>1 DEF TrailInv, IsTrail
    <3>3. QED
      BY <1>1, <3>1, <3>2 DEF Atomic!Free, ValidName
  <2>4. QED
    BY <1>1, <2>1, <2>2, <2>3 DEF Atomic!Place, Assembling, Name
<1>6. QED
  BY <1>3, <1>4, <1>5

LEMMA SelectMaps ==
  ASSUME IInv, Select
  PROVE  Atomic!Receive
<1>1. built = <<>> /\ UNCHANGED <<field, collisions, before>>
  BY DEF Select
<1>2. TypeInv'
  BY SelectKeeps DEF IInv
<1>3. ASSUME NEW f \in Range(built') PROVE Atomic!IsField(f)
  <2>1. PICK j \in DOMAIN built' : f = built'[j]
    BY DEF Range
  <2>2. j \in 1..Len(built')
    BY <1>2 DEF TypeInv
  <2>3. QED
    BY <1>2, <2>1, <2>2, SameTrees DEF TypeInv, Atomic!IsField
<1>4. built' \in Seq(Range(built'))
  BY <1>2 DEF TypeInv
<1>5. QED
  BY <1>1, <1>3, <1>4, SameTrees DEF Atomic!Receive

(* response_build.rs:43-48: the assembly is one step a field.  What a walk *)
(* has done half-way is never seen, and what a field gets depends on what  *)
(* the earlier ones have been given and on nothing else.                   *)
THEOREM FieldsAreAtomic == Spec => ImplementsAssembly
<1>1. Init => Atomic!Init /\ TrailInv
  <2> SUFFICES ASSUME Init PROVE Atomic!Init /\ TrailInv
    OBVIOUS
  <2>1. depth = 0 /\ object = before.object /\ before.object = EmptyObject
    BY DEF Init
  <2>2. IsTree(object) /\ object[<<>>] = "object"
    BY <2>1, ScalarTree DEF EmptyObject
  <2>3. TrailInv
    BY <2>1, <2>2, TrailBegins DEF TrailInv
  <2>4. QED
    BY <2>1, <2>3, SameTrees DEF Init, Atomic!Init
<1>2. IInv /\ TrailInv /\ [Next]_vars => TrailInv'
  BY TrailKept
<1>3. IInv /\ TrailInv /\ [Next]_vars => [Atomic!Next]_Atomic!vars
  <2> SUFFICES ASSUME IInv, TrailInv, [Next]_vars PROVE [Atomic!Next]_Atomic!vars
    OBVIOUS
  <2>1. CASE Select
    BY <2>1, SelectMaps DEF Atomic!Next
  <2>2. CASE RejectName
    BY <2>2, RejectNameMaps DEF Atomic!Next
  <2>3. CASE Descend
    BY <2>3, DescendMaps DEF Atomic!Next
  <2>4. CASE PlaceLeaf
    BY <2>4, PlaceLeafMaps DEF Atomic!Next
  <2>5. CASE UNCHANGED vars
    BY <2>5 DEF vars, Atomic!vars
  <2>6. QED
    BY <2>1, <2>2, <2>3, <2>4, <2>5 DEF Next
<1>4. QED
  BY <1>1, <1>2, <1>3, FieldsInvariant, PTL DEF Spec, ImplementsAssembly, Atomic!Spec

-----------------------------------------------------------------------------
(* Selectors: what Tokens, PathOf and Spelling are, step by step           *)

(* The tokens of a text, lexeme by lexeme. *)
LEMMA TokensDef ==
  /\ Tokens \in [Seq(Lexeme) -> Seq(Seq(Lexeme)) \ {<<>>}]
  /\ Tokens[<<>>] = << <<>> >>
  /\ \A t \in Seq(Lexeme), x \in Lexeme :
       Tokens[Append(t, x)] =
         IF x = Dot THEN Append(Tokens[t], <<>>)
         ELSE Append(Front(Tokens[t]), Append(Last(Tokens[t]), x))
<1> DEFINE S == Seq(Seq(Lexeme)) \ {<<>>}
           Further(tokens, x) == IF x = Dot THEN Append(tokens, <<>>)
                              ELSE Append(Front(tokens), Append(Last(tokens), x))
           step == [r \in S \X Lexeme |-> Further(r[1], r[2])]
           IsTokens(g) == g = [t \in Seq(Lexeme) |->
                            IF t = <<>> THEN << <<>> >> ELSE Further(g[Front(t)], Last(t))]
<1>1. << <<>> >> \in S
  OBVIOUS
<1>2. ASSUME NEW tokens \in S, NEW x \in Lexeme PROVE Further(tokens, x) \in S
  <2>1. Append(tokens, <<>>) \in S
    <3>1. tokens \in Seq(Seq(Lexeme)) /\ <<>> \in Seq(Lexeme)
      BY EmptySeq
    <3>2. QED
      BY <3>1, AppendProperties
  <2>2. Front(tokens) \in Seq(Seq(Lexeme)) /\ Last(tokens) \in Seq(Lexeme)
    BY FrontLastSplit
  <2>3. Append(Last(tokens), x) \in Seq(Lexeme)
    BY <2>2, AppendProperties
  <2>4. Append(Front(tokens), Append(Last(tokens), x)) \in S
    <3> DEFINE a == Front(tokens)
               b == Append(Last(tokens), x)
    <3>1. a \in Seq(Seq(Lexeme)) /\ b \in Seq(Lexeme)
      BY <2>2, <2>3
    <3> HIDE DEF a, b
    <3>2. Append(a, b) \in S
      BY <3>1, AppendProperties
    <3>3. QED
      BY <3>2 DEF a, b
  <2>5. QED
    BY <2>1, <2>4
<1> HIDE DEF S, Further
<1>3. step \in [S \X Lexeme -> S]
  BY <1>2
<1>4. \A s \in S, x \in Lexeme : step[<<s, x>>] = Further(s, x)
  OBVIOUS
<1> HIDE DEF step
<1>5. PICK f \in [Seq(Lexeme) -> S] :
        /\ f[<<>>] = << <<>> >>
        /\ \A t \in Seq(Lexeme), x \in Lexeme : f[Append(t, x)] = step[<<f[t], x>>]
  <2> DEFINE start == << <<>> >>
  <2>1. start \in S
    BY <1>1
  <2> HIDE DEF start
  <2>2. \E f \in [Seq(Lexeme) -> S] : IsFold(f, Lexeme, start, step)
    BY <2>1, <1>3, FoldExists, Zenon
  <2>3. QED
    BY <2>2 DEF start, IsFold
<1>6. \A t \in Seq(Lexeme), x \in Lexeme : f[Append(t, x)] = Further(f[t], x)
  BY <1>4, <1>5
<1>7. IsTokens(f)
  <2>1. ASSUME NEW t \in Seq(Lexeme), t # <<>>
        PROVE  f[t] = Further(f[Front(t)], Last(t))
    BY <1>6, <2>1, FrontLastSplit
  <2>2. QED
    BY <1>5, <2>1
<1>8. Tokens = CHOOSE g : IsTokens(g)
  BY DEF Tokens, Further
<1>9. IsTokens(Tokens)
  <2> HIDE DEF IsTokens
  <2>1. QED
    BY <1>7, <1>8
<1>10. ASSUME NEW t \in Seq(Lexeme), NEW x \in Lexeme
       PROVE  Tokens[Append(t, x)] = Further(Tokens[t], x)
  <2>1. Append(t, x) \in Seq(Lexeme) /\ Append(t, x) # <<>>
        /\ Front(Append(t, x)) = t /\ Last(Append(t, x)) = x
    BY FrontLast
  <2>2. QED
    BY <1>9, <2>1
<1>11. Tokens[<<>>] = << <<>> >>
  BY <1>9, EmptySeq
<1>12. Seq(Lexeme) \subseteq {t \in Seq(Lexeme) : Tokens[t] \in S}
  <2> DEFINE T == {t \in Seq(Lexeme) : Tokens[t] \in S}
  <2>1. <<>> \in T
    BY <1>1, <1>11, EmptySeq
  <2>2. \A t \in Seq(Lexeme), x \in Lexeme : t \in T => Append(t, x) \in T
    BY <1>2, <1>10, FrontLast
  <2>3. QED
    <3> HIDE DEF T
    <3>1. Seq(Lexeme) \subseteq T
      BY <2>1, <2>2, SequencesAll
    <3>2. QED
      BY <3>1 DEF T
<1>13. Tokens \in [Seq(Lexeme) -> S]
  BY <1>9, <1>12
<1>14. QED
  BY <1>10, <1>11, <1>13 DEF S, Further

(* A token is a key and brackets, of the same lexemes. *)
LEMMA KeyTyped ==
  ASSUME NEW token \in Seq(Lexeme)
  PROVE  KeyOf(token) \in Seq(Lexeme) /\ BracketsOf(token) \in Seq(Lexeme)
<1> DEFINE B == {j \in DOMAIN token : token[j] \in Indices \cup Broken} \cup {Len(token) + 1}
<1>1. B \subseteq 1..(Len(token) + 1) /\ B # {} /\ Len(token) \in Nat
      /\ \A j \in 1..Len(token) : token[j] \in Lexeme
  BY LenProperties, ElementOfSeq
<1>2. Min(B) \in 1..(Len(token) + 1)
  <2> HIDE DEF B
  <2>1. B \subseteq Nat
    BY <1>1
  <2>2. QED
    BY <2>1, <1>1, MinOf
<1>3. KeyOf(token) = SubSeq(token, 1, Min(B) - 1)
  BY DEF KeyOf
<1> HIDE DEF B
<1>4. KeyOf(token) \in Seq(Lexeme) /\ Len(KeyOf(token)) = Min(B) - 1
  BY <1>1, <1>2, <1>3
<1>5. BracketsOf(token) \in Seq(Lexeme)
  BY <1>1, <1>2, <1>4 DEF BracketsOf
<1>6. QED
  BY <1>4, <1>5

(* So are the steps of a token. *)
LEMMA StepsTyped ==
  ASSUME NEW token \in Seq(Lexeme)
  PROVE  StepsOf(token) \in Seq(Lexeme)
<1> DEFINE b == BracketsOf(token)
           steps == [j \in DOMAIN b |-> IndexOf(b[j])]
<1>1. \A x \in Lexeme : IndexOf(x) \in Lexeme
  BY DEF IndexOf, Lexeme, Indices
<1>2. b \in Seq(Lexeme)
  BY KeyTyped
<1>3. steps \in Seq(Lexeme)
  <2> HIDE DEF b
  <2>1. \A j \in 1..Len(b) : IndexOf(b[j]) \in Lexeme
    BY <1>1, <1>2, ElementOfSeq
  <2>2. DOMAIN b = 1..Len(b) /\ Len(b) \in Nat
    BY <1>2
  <2>3. QED
    BY <2>1, <2>2
<1>4. StepsOf(token) = KeyOf(token) \o steps
  BY DEF StepsOf
<1>5. QED
  BY <1>3, <1>4, KeyTyped, ConcatProperties

(* The path of the tokens, token by token. *)
LEMMA PathOfDef ==
  /\ PathOf \in [Seq(Seq(Lexeme)) -> Seq(Lexeme)]
  /\ PathOf[<<>>] = <<>>
  /\ \A ts \in Seq(Seq(Lexeme)), t \in Seq(Lexeme) :
       PathOf[Append(ts, t)] = PathOf[ts] \o StepsOf(t)
<1> DEFINE S == Seq(Lexeme)
           Further(path, token) == path \o StepsOf(token)
           step == [r \in S \X Seq(Lexeme) |-> Further(r[1], r[2])]
           IsIt(g) == g = [t \in Seq(Seq(Lexeme)) |->
                            IF t = <<>> THEN <<>> ELSE Further(g[Front(t)], Last(t))]
<1>1. <<>> \in S
  BY EmptySeq
<1>2. ASSUME NEW path \in S, NEW x \in Seq(Lexeme) PROVE Further(path, x) \in S
  BY StepsTyped, ConcatProperties
<1> HIDE DEF S, Further
<1>3. step \in [S \X Seq(Lexeme) -> S]
  BY <1>2
<1>4. \A s \in S, x \in Seq(Lexeme) : step[<<s, x>>] = Further(s, x)
  OBVIOUS
<1> HIDE DEF step
<1>5. PICK f \in [Seq(Seq(Lexeme)) -> S] :
        /\ f[<<>>] = <<>>
        /\ \A t \in Seq(Seq(Lexeme)), x \in Seq(Lexeme) : f[Append(t, x)] = step[<<f[t], x>>]
  <2> DEFINE start == <<>>
  <2>1. start \in S
    BY <1>1
  <2> HIDE DEF start
  <2>2. \E f \in [Seq(Seq(Lexeme)) -> S] : IsFold(f, Seq(Lexeme), start, step)
    BY <2>1, <1>3, FoldExists, Zenon
  <2>3. QED
    BY <2>2 DEF start, IsFold
<1>6. \A t \in Seq(Seq(Lexeme)), x \in Seq(Lexeme) : f[Append(t, x)] = Further(f[t], x)
  BY <1>4, <1>5
<1>7. IsIt(f)
  <2>1. ASSUME NEW t \in Seq(Seq(Lexeme)), t # <<>>
        PROVE  f[t] = Further(f[Front(t)], Last(t))
    BY <1>6, <2>1, FrontLastSplit
  <2>2. QED
    BY <1>5, <2>1
<1>8. PathOf = CHOOSE g : IsIt(g)
  BY DEF PathOf, Further
<1>9. IsIt(PathOf)
  <2> HIDE DEF IsIt
  <2>1. QED
    BY <1>7, <1>8
<1>10. ASSUME NEW t \in Seq(Seq(Lexeme)), NEW x \in Seq(Lexeme)
       PROVE  PathOf[Append(t, x)] = Further(PathOf[t], x)
  <2>1. Append(t, x) \in Seq(Seq(Lexeme)) /\ Append(t, x) # <<>>
        /\ Front(Append(t, x)) = t /\ Last(Append(t, x)) = x
    BY FrontLast
  <2>2. QED
    BY <1>9, <2>1
<1>11. PathOf[<<>>] = <<>>
  BY <1>9, EmptySeq
<1>12. Seq(Seq(Lexeme)) \subseteq {t \in Seq(Seq(Lexeme)) : PathOf[t] \in S}
  <2> DEFINE T == {t \in Seq(Seq(Lexeme)) : PathOf[t] \in S}
  <2>1. <<>> \in T
    BY <1>1, <1>11, EmptySeq
  <2>2. \A t \in Seq(Seq(Lexeme)), x \in Seq(Lexeme) : t \in T => Append(t, x) \in T
    BY <1>2, <1>10, FrontLast
  <2>3. QED
    <3> HIDE DEF T
    <3>1. Seq(Seq(Lexeme)) \subseteq T
      BY <2>1, <2>2, SequencesAll
    <3>2. QED
      BY <3>1 DEF T
<1>13. PathOf \in [Seq(Seq(Lexeme)) -> S]
  BY <1>9, <1>12
<1>14. QED
  BY <1>10, <1>11, <1>13 DEF S, Further

(* The spelling of a path, step by step. *)
LEMMA SpellingDef ==
  /\ Spelling \in [Seq(Step) -> Seq(Lexeme)]
  /\ Spelling[<<>>] = <<>>
  /\ \A p \in Seq(Step), e \in Step :
       Spelling[Append(p, e)] =
         Spelling[p] \o IF Spelling[p] = <<>> \/ e \in Indices THEN <<e>> ELSE <<Dot, e>>
<1> DEFINE S == Seq(Lexeme)
           Further(text, e) == text \o IF text = <<>> \/ e \in Indices THEN <<e>> ELSE <<Dot, e>>
           step == [r \in S \X Step |-> Further(r[1], r[2])]
           IsIt(g) == g = [t \in Seq(Step) |->
                            IF t = <<>> THEN <<>> ELSE Further(g[Front(t)], Last(t))]
<1>1. <<>> \in S
  BY EmptySeq
<1>2. ASSUME NEW text \in S, NEW x \in Step PROVE Further(text, x) \in S
  <2>1. <<x>> \in Seq(Lexeme) /\ <<Dot, x>> \in Seq(Lexeme)
    BY DEF Lexeme
  <2>2. QED
    BY <2>1, ConcatProperties
<1> HIDE DEF S, Further
<1>3. step \in [S \X Step -> S]
  BY <1>2
<1>4. \A s \in S, x \in Step : step[<<s, x>>] = Further(s, x)
  OBVIOUS
<1> HIDE DEF step
<1>5. PICK f \in [Seq(Step) -> S] :
        /\ f[<<>>] = <<>>
        /\ \A t \in Seq(Step), x \in Step : f[Append(t, x)] = step[<<f[t], x>>]
  <2> DEFINE start == <<>>
  <2>1. start \in S
    BY <1>1
  <2> HIDE DEF start
  <2>2. \E f \in [Seq(Step) -> S] : IsFold(f, Step, start, step)
    BY <2>1, <1>3, FoldExists, Zenon
  <2>3. QED
    BY <2>2 DEF start, IsFold
<1>6. \A t \in Seq(Step), x \in Step : f[Append(t, x)] = Further(f[t], x)
  BY <1>4, <1>5
<1>7. IsIt(f)
  <2>1. ASSUME NEW t \in Seq(Step), t # <<>>
        PROVE  f[t] = Further(f[Front(t)], Last(t))
    BY <1>6, <2>1, FrontLastSplit
  <2>2. QED
    BY <1>5, <2>1
<1>8. Spelling = CHOOSE g : IsIt(g)
  BY DEF Spelling, Further, Path
<1>9. IsIt(Spelling)
  <2> HIDE DEF IsIt
  <2>1. QED
    BY <1>7, <1>8
<1>10. ASSUME NEW t \in Seq(Step), NEW x \in Step
       PROVE  Spelling[Append(t, x)] = Further(Spelling[t], x)
  <2>1. Append(t, x) \in Seq(Step) /\ Append(t, x) # <<>>
        /\ Front(Append(t, x)) = t /\ Last(Append(t, x)) = x
    BY FrontLast
  <2>2. QED
    BY <1>9, <2>1
<1>11. Spelling[<<>>] = <<>>
  BY <1>9, EmptySeq
<1>12. Seq(Step) \subseteq {t \in Seq(Step) : Spelling[t] \in S}
  <2> DEFINE T == {t \in Seq(Step) : Spelling[t] \in S}
  <2>1. <<>> \in T
    BY <1>1, <1>11, EmptySeq
  <2>2. \A t \in Seq(Step), x \in Step : t \in T => Append(t, x) \in T
    BY <1>2, <1>10, FrontLast
  <2>3. QED
    <3> HIDE DEF T
    <3>1. Seq(Step) \subseteq T
      BY <2>1, <2>2, SequencesAll
    <3>2. QED
      BY <3>1 DEF T
<1>13. Spelling \in [Seq(Step) -> S]
  BY <1>9, <1>12
<1>14. QED
  BY <1>10, <1>11, <1>13 DEF S, Further

(* What the tokens of a spelling are: a member name, if any, and indices. *)
Plain == {IndexOf(x) : x \in Indices}
Keys  == {<<>>} \cup {<<w>> : w \in Word}
Token == {k \o s : k \in Keys, s \in Seq(Plain)}
Writable == Step \cap (Word \cup Plain)

(* Words, indices, dots and blanks are told apart. *)
LEMMA Kinds ==
  /\ Plain \subseteq Indices /\ \A x \in Plain : IndexOf(x) = x
  /\ Word \cap Indices = {} /\ Word \cap Broken = {} /\ Plain \cap Broken = {}
  /\ Dot \notin Word \cup Plain /\ Blank \notin Word \cup Plain
  /\ Word \subseteq Lexeme /\ Plain \subseteq Lexeme
BY DEF Plain, IndexOf, Indices, Word, Broken, Dot, Blank, Lexeme

(* Token, in the form the provers use. *)
LEMMA TokenIs == \A t : t \in Token <=> \E k \in Keys, s \in Seq(Plain) : t = k \o s
BY DEF Token

(* The key of a token ends where its indices begin. *)
LEMMA TokenParts ==
  ASSUME NEW k \in Keys, NEW s \in Seq(Plain)
  PROVE  /\ k \in Seq(Word) /\ Len(k) \in 0..1
         /\ k \in Seq(Lexeme) /\ s \in Seq(Lexeme) /\ k \o s \in Seq(Lexeme)
         /\ KeyOf(k \o s) = k /\ BracketsOf(k \o s) = s
<1> DEFINE t == k \o s
           B == {j \in DOMAIN t : t[j] \in Indices \cup Broken} \cup {Len(t) + 1}
<1>1. k \in Seq(Word) /\ Len(k) \in 0..1
  <2>1. CASE k = <<>>
    BY <2>1
  <2>2. CASE \E w \in Word : k = <<w>>
    BY <2>2
  <2>3. QED
    BY <2>1, <2>2 DEF Keys
<1>2. k \in Seq(Lexeme) /\ s \in Seq(Lexeme)
  BY <1>1, Kinds, SeqMonotonic
<1>3. /\ t \in Seq(Lexeme) /\ Len(t) = Len(k) + Len(s) /\ DOMAIN t = 1..Len(t)
      /\ Len(k) \in Nat /\ Len(s) \in Nat /\ Len(t) \in Nat
  BY <1>2, ConcatProperties, LenProperties
<1>4. \A j \in 1..Len(k) : t[j] = k[j] /\ k[j] \in Word
  BY <1>1, <1>2
<1>5. \A j \in Len(k) + 1..Len(t) : t[j] \in Plain
  <2>1. ASSUME NEW j \in Len(k) + 1..Len(t) PROVE t[j] \in Plain
    <3>1. t[j] = s[j - Len(k)] /\ j - Len(k) \in 1..Len(s)
      BY <1>2, <1>3, ConcatProperties
    <3>2. QED
      BY <3>1, ElementOfSeq
  <2>2. QED
    BY <2>1
<1>6. SubSeq(t, 1, Len(k)) = k /\ SubSeq(t, Len(k) + 1, Len(t)) = s
  BY <1>2, <1>3
<1> HIDE DEF t
<1>7. Len(k) + 1 \in B /\ \A j \in B : Len(k) + 1 <= j
  BY <1>3, <1>4, <1>5, Kinds
<1>8. B \subseteq Nat /\ B # {}
  BY <1>3
<1>9. Min(B) = Len(k) + 1
  <2> HIDE DEF B
  <2>1. Min(B) \in B /\ Min(B) <= Len(k) + 1 /\ Len(k) + 1 <= Min(B)
    BY <1>7, <1>8, MinOf
  <2>2. Min(B) \in Nat
    BY <1>8, <2>1
  <2> DEFINE m == Min(B)
  <2> HIDE DEF m
  <2>3. m \in Nat /\ m <= Len(k) + 1 /\ Len(k) + 1 <= m
    BY <2>1, <2>2 DEF m
  <2>4. m = Len(k) + 1
    BY <1>3, <2>3
  <2>5. QED
    BY <2>4 DEF m
<1>10. KeyOf(t) = k
  <2>1. Min(B) - 1 = Len(k)
    BY <1>3, <1>9
  <2>2. KeyOf(t) = SubSeq(t, 1, Min(B) - 1)
    BY DEF KeyOf
  <2>3. QED
    BY <1>6, <2>1, <2>2
<1>11. BracketsOf(t) = s
  BY <1>6, <1>10 DEF BracketsOf
<1>12. QED
  BY <1>1, <1>2, <1>3, <1>10, <1>11 DEF t

(* Such a token is well formed and stands for its own lexemes. *)
LEMMA TokenSteps ==
  ASSUME NEW t \in Token
  PROVE  t \in Seq(Lexeme) /\ WellFormed(t) /\ StepsOf(t) = t
<1>1. PICK k \in Keys, s \in Seq(Plain) : t = k \o s
  BY DEF Token
<1>2. /\ Len(k) <= 1 /\ t \in Seq(Lexeme) /\ KeyOf(t) = k /\ BracketsOf(t) = s
  <2>1. Len(k) \in 0..1
    BY TokenParts
  <2>2. QED
    BY <1>1, <2>1, TokenParts
<1>3. /\ DOMAIN s = 1..Len(s) /\ Len(s) \in Nat /\ \A j \in 1..Len(s) : s[j] \in Plain
      /\ s = [j \in DOMAIN s |-> s[j]]
  OBVIOUS
<1>4. [j \in DOMAIN s |-> IndexOf(s[j])] = s
  BY <1>3, Kinds
<1>5. Range(s) \subseteq Indices
  BY <1>3, Kinds DEF Range
<1>6. WellFormed(t)
  <2>1. Len(KeyOf(t)) <= 1
    BY <1>2, Zenon
  <2>2. Range(BracketsOf(t)) \subseteq Indices
    BY <1>2, <1>5, Zenon
  <2>3. QED
    BY <2>1, <2>2, Zenon DEF WellFormed
<1>7. StepsOf(t) = t
  BY <1>1, <1>2, <1>4 DEF StepsOf
<1>8. QED
  BY <1>2, <1>6, <1>7

(* An index lengthens a token, and a word makes one. *)
LEMMA TokenGrows ==
  /\ <<>> \in Token
  /\ \A w \in Word : <<w>> \in Token
  /\ \A t \in Token, i \in Plain : Append(t, i) \in Token
<1>1. \A k \in Keys : k \in Token
  <2> TAKE k \in Keys
  <2>1. <<>> \in Seq(Plain) /\ k \o <<>> = k
    BY TokenParts, ConcatEmptySeq, EmptySeq
  <2>2. k \o <<>> \in Token
    BY <2>1, TokenIs, Zenon
  <2>3. QED
    BY <2>1, <2>2
<1>2. ASSUME NEW t \in Token, NEW i \in Plain PROVE Append(t, i) \in Token
  <2>1. PICK k \in Keys, s \in Seq(Plain) : t = k \o s
    BY DEF Token
  <2>2. k \in Seq(Lexeme) /\ s \in Seq(Lexeme) /\ <<i>> \in Seq(Lexeme) /\ i \in Lexeme
        /\ t \in Seq(Lexeme)
    BY <2>1, TokenParts, Kinds
  <2>3. Append(t, i) = t \o <<i>> /\ Append(s, i) = s \o <<i>> /\ Append(s, i) \in Seq(Plain)
    BY <2>2, AppendIsConcat, AppendProperties
  <2>4. Append(t, i) = k \o Append(s, i)
    BY <2>1, <2>2, <2>3, ConcatAssociative
  <2>5. k \o Append(s, i) \in Token
    BY <2>3, TokenIs, Zenon
  <2>6. QED
    BY <2>4, <2>5
<1>3. QED
  BY <1>1, <1>2 DEF Keys

(* What reading the spelling of a path gives, as far as the end of it. *)
Reads(p) ==
  LET text   == Spelling[p]
      tokens == Tokens[text]
  IN  /\ text \in Seq(Lexeme)
      /\ \A j \in 1..Len(text) : text[j] # Blank
      /\ text = <<>> <=> p = <<>>
      /\ p # <<>> => text[1] = p[1]
      /\ tokens \in Seq(Token) \ {<<>>}
      /\ PathOf[tokens] = p

(* Tokens are text. *)
LEMMA TokensType == Seq(Token) \subseteq Seq(Seq(Lexeme))
BY TokenSteps, SeqMonotonic

(* A lexeme that lengthens the last token adds a step. *)
LEMMA TokenLengthened ==
  ASSUME NEW p \in Seq(Writable), NEW ts \in Seq(Token) \ {<<>>}, PathOf[ts] = p,
         NEW e \in Writable, Append(Last(ts), e) \in Token
  PROVE  /\ Append(Front(ts), Append(Last(ts), e)) \in Seq(Token) \ {<<>>}
         /\ PathOf[Append(Front(ts), Append(Last(ts), e))] = Append(p, e)
<1> DEFINE f == Front(ts)
           l == Last(ts)
           m == Append(l, e)
<1>1. f \in Seq(Token) /\ l \in Token /\ ts = Append(f, l)
  BY FrontLastSplit
<1>2. m \in Token
  OBVIOUS
<1>3. f \in Seq(Seq(Lexeme)) /\ l \in Seq(Lexeme) /\ m \in Seq(Lexeme)
      /\ StepsOf(l) = l /\ StepsOf(m) = m /\ e \in Lexeme
  BY <1>1, <1>2, TokenSteps, TokensType, Kinds DEF Writable
<1> HIDE DEF f, l
<1>4. PathOf[Append(f, l)] = PathOf[f] \o l
  BY <1>3, PathOfDef
<1>5. PathOf[Append(f, m)] = PathOf[f] \o m
  BY <1>3, PathOfDef
<1>6. PathOf[f] \in Seq(Lexeme)
  BY <1>3, PathOfDef
<1>7. m = l \o <<e>> /\ <<e>> \in Seq(Lexeme)
  BY <1>3, AppendIsConcat
<1>8. PathOf[f] \o m = (PathOf[f] \o l) \o <<e>>
  <2> DEFINE w == <<e>>
             g == PathOf[f]
  <2>1. w \in Seq(Lexeme) /\ g \in Seq(Lexeme) /\ l \in Seq(Lexeme) /\ m = l \o w
    BY <1>3, <1>6, <1>7
  <2> HIDE DEF w, g, m
  <2>2. (g \o l) \o w = g \o (l \o w)
    BY <2>1, ConcatAssociative
  <2>3. QED
    BY <2>1, <2>2 DEF w, g
<1>9. (PathOf[f] \o l) \o <<e>> = Append(p, e)
  BY <1>1, <1>4, AppendIsConcat
<1>10. Append(f, m) \in Seq(Token) \ {<<>>}
  <2> HIDE DEF m
  <2>1. QED
    BY <1>1, <1>2, AppendProperties
<1>11. QED
  BY <1>5, <1>8, <1>9, <1>10 DEF f, l

(* A step that is read with what has been read before it. *)
LEMMA StepRead ==
  ASSUME NEW p \in Seq(Writable), Reads(p), NEW e \in Writable
  PROVE  Reads(Append(p, e))
<1> DEFINE t == Spelling[p]
           ts == Tokens[t]
           u == Spelling[Append(p, e)]
<1>1. /\ t \in Seq(Lexeme) /\ \A j \in 1..Len(t) : t[j] # Blank
      /\ t = <<>> <=> p = <<>>
      /\ p # <<>> => t[1] = p[1]
      /\ ts \in Seq(Token) \ {<<>>} /\ PathOf[ts] = p
  BY DEF Reads
<1>2. /\ p \in Seq(Step) /\ e \in Step /\ e \in Lexeme /\ Dot \in Lexeme
      /\ e # Dot /\ e # Blank /\ Dot # Blank
      /\ e \in Word \/ e \in Plain
  BY SeqMonotonic, Kinds DEF Writable, Lexeme, Dot, Blank
<1>3. u = t \o IF t = <<>> \/ e \in Indices THEN <<e>> ELSE <<Dot, e>>
  BY <1>2, SpellingDef
<1>4. /\ Append(p, e) \in Seq(Writable) /\ Append(p, e) # <<>>
      /\ Append(p, e)[1] = IF p = <<>> THEN e ELSE p[1]
  BY AppendProperties
<1>5. ts \in Seq(Seq(Lexeme))
  BY <1>1, TokensType
<1> HIDE DEF t, ts, u
<1>6. ASSUME t = <<>> \/ e \in Indices PROVE Reads(Append(p, e))
  <2>1. u = Append(t, e)
    BY <1>1, <1>2, <1>3, <1>6, AppendIsConcat
  <2>2. Tokens[u] = Append(Front(ts), Append(Last(ts), e))
    BY <1>1, <1>2, <2>1, TokensDef DEF ts
  <2>3. Append(Last(ts), e) \in Token
    <3>1. CASE e \in Plain
      BY <1>1, <3>1, FrontLastSplit, TokenGrows
    <3>2. CASE e \notin Plain
      <4>1. e \in Word /\ t = <<>>
        BY <1>2, <1>6, <3>2, Kinds DEF Plain, IndexOf, Indices, Word
      <4>2. ts = << <<>> >>
        BY <4>1, TokensDef DEF ts
      <4>3. Append(Last(ts), e) = <<e>>
        BY <4>2 DEF Last
      <4>4. QED
        BY <4>1, <4>3, TokenGrows
    <3>3. QED
      BY <3>1, <3>2
  <2>4. Tokens[u] \in Seq(Token) \ {<<>>} /\ PathOf[Tokens[u]] = Append(p, e)
    <3>1. ts \in Seq(Token) \ {<<>>} /\ PathOf[ts] = p
      BY <1>1
    <3>2. /\ Append(Front(ts), Append(Last(ts), e)) \in Seq(Token) \ {<<>>}
          /\ PathOf[Append(Front(ts), Append(Last(ts), e))] = Append(p, e)
      BY <2>3, <3>1, TokenLengthened
    <3>3. QED
      BY <2>2, <3>2
  <2>5. u \in Seq(Lexeme) /\ u # <<>> /\ Len(u) = Len(t) + 1 /\ Len(t) \in Nat
        /\ (\A j \in 1..Len(t) : u[j] = t[j]) /\ u[Len(t) + 1] = e
    BY <1>1, <1>2, <2>1, AppendProperties, LenProperties
  <2>6. \A j \in 1..Len(u) : u[j] # Blank
    BY <1>1, <1>2, <2>5
  <2>7. u[1] = Append(p, e)[1]
    <3>1. CASE p = <<>>
      BY <1>1, <1>4, <2>5, <3>1
    <3>2. CASE p # <<>>
      <4>1. 1 \in 1..Len(t)
        BY <1>1, <3>2, EmptySeq
      <4>2. QED
        BY <1>1, <1>4, <2>5, <3>2, <4>1
    <3>3. QED
      BY <3>1, <3>2
  <2>8. QED
    BY <1>4, <2>4, <2>5, <2>6, <2>7 DEF Reads, u
<1>7. ASSUME ~(t = <<>> \/ e \in Indices) PROVE Reads(Append(p, e))
  <2> DEFINE v == Append(t, Dot)
             vs == Append(ts, <<>>)
  <2>1. /\ v \in Seq(Lexeme) /\ Len(v) = Len(t) + 1 /\ Len(t) \in Nat
        /\ (\A j \in 1..Len(t) : v[j] = t[j]) /\ v[Len(t) + 1] = Dot
    BY <1>1, <1>2, AppendProperties, LenProperties
  <2>2. u = Append(v, e)
    BY <1>1, <1>2, <1>3, <1>7
  <2>3. e \in Word
    BY <1>2, <1>7, Kinds
  <2>4. Tokens[v] = vs
    BY <1>1, <1>2, TokensDef DEF ts
  <2>5. Front(vs) = ts /\ Last(vs) = <<>>
    <3> DEFINE w == <<>>
    <3>1. w \in Seq(Lexeme)
      BY EmptySeq
    <3> HIDE DEF w
    <3>2. Front(Append(ts, w)) = ts /\ Last(Append(ts, w)) = w
      BY <1>5, <3>1, FrontLast
    <3>3. QED
      BY <3>2 DEF w
  <2> HIDE DEF v, vs
  <2>6. Tokens[u] = Append(ts, <<e>>)
    <3>1. Tokens[u] = Append(Front(vs), Append(Last(vs), e))
      BY <1>2, <2>1, <2>2, <2>4, TokensDef
    <3>2. Append(<<>>, e) = <<e>>
      OBVIOUS
    <3>3. QED
      BY <2>5, <3>1, <3>2
  <2>7. <<e>> \in Token
    BY <2>3, TokenGrows
  <2> DEFINE w == <<e>>
  <2>8. w \in Seq(Lexeme) /\ StepsOf(w) = w /\ w \in Token
    BY <2>7, TokenSteps
  <2>9. PathOf[Tokens[u]] = Append(p, e)
    <3>1. PathOf[Append(ts, w)] = PathOf[ts] \o w
      <4> HIDE DEF w
      <4>1. QED
        BY <1>5, <2>8, PathOfDef
    <3>2. Append(p, e) = p \o <<e>>
      BY AppendIsConcat
    <3>3. QED
      BY <1>1, <2>6, <3>1, <3>2
  <2>10. Tokens[u] \in Seq(Token) \ {<<>>}
    <3> HIDE DEF w
    <3>1. Append(ts, w) \in Seq(Token) /\ Append(ts, w) # <<>>
      BY <1>1, <2>8, AppendProperties
    <3>2. QED
      BY <2>6, <3>1 DEF w
  <2>11. u \in Seq(Lexeme) /\ u # <<>> /\ Len(u) = Len(v) + 1
        /\ (\A j \in 1..Len(v) : u[j] = v[j]) /\ u[Len(v) + 1] = e
    BY <1>2, <2>1, <2>2, AppendProperties
  <2>12. \A j \in 1..Len(u) : u[j] # Blank
    <3>1. ASSUME NEW j \in 1..Len(u) PROVE u[j] # Blank
      <4>1. j \in 1..Len(t) \/ j = Len(t) + 1 \/ j = Len(v) + 1
        BY <2>1, <2>11
      <4>2. CASE j \in 1..Len(t)
        BY <1>1, <2>1, <2>11, <4>2
      <4>3. CASE j = Len(t) + 1
        BY <1>2, <2>1, <2>11, <4>3
      <4>4. CASE j = Len(v) + 1
        BY <1>2, <2>11, <4>4
      <4>5. QED
        BY <4>1, <4>2, <4>3, <4>4
    <3>2. QED
      BY <3>1
  <2>13. u[1] = Append(p, e)[1]
    <3>1. t # <<>> /\ p # <<>>
      BY <1>1, <1>7
    <3>2. 1 \in 1..Len(t)
      BY <1>1, <3>1, EmptySeq
    <3>3. QED
      BY <1>1, <1>4, <2>1, <2>11, <3>1, <3>2
  <2>14. QED
    BY <1>4, <2>9, <2>10, <2>11, <2>12, <2>13 DEF Reads, u
<1>8. QED
  BY <1>6, <1>7

(* Every path that can be written is read back from its spelling. *)
LEMMA SpellingReads ==
  ASSUME NEW p \in Seq(Writable)
  PROVE  Reads(p)
<1> DEFINE T == {q \in Seq(Writable) : Reads(q)}
<1>1. <<>> \in T
  <2>1. Spelling[<<>>] = <<>> /\ Tokens[<<>>] = << <<>> >>
    BY SpellingDef, TokensDef
  <2> DEFINE e == <<>>
  <2>2. e \in Token /\ e \in Seq(Lexeme) /\ StepsOf(e) = e /\ e \in Seq(Seq(Lexeme))
    BY TokenGrows, TokenSteps, EmptySeq
  <2>3. Append(<<>>, <<>>) = << <<>> >>
    OBVIOUS
  <2>4. PathOf[<<>>] = <<>> /\ PathOf[Append(e, e)] = PathOf[e] \o StepsOf(e)
    <3>1. PathOf[<<>>] = <<>>
      BY PathOfDef
    <3> HIDE DEF e
    <3>2. PathOf[Append(e, e)] = PathOf[e] \o StepsOf(e)
      BY <2>2, PathOfDef
    <3>3. QED
      BY <3>1, <3>2
  <2>5. PathOf[<< <<>> >>] = <<>>
    BY <2>2, <2>3, <2>4
  <2>6. << <<>> >> \in Seq(Token) \ {<<>>}
    BY <2>2
  <2>7. Reads(<<>>)
    BY <2>1, <2>2, <2>5, <2>6 DEF Reads
  <2>8. QED
    BY <2>7, EmptySeq
<1>2. \A q \in Seq(Writable), e \in Writable : q \in T => Append(q, e) \in T
  BY StepRead, AppendProperties
<1>3. Seq(Writable) \subseteq T
  <2> HIDE DEF T
  <2>1. QED
    BY <1>1, <1>2, SequencesAll
<1>4. QED
  BY <1>3

(* White space goes from both ends, as far as the first ink. *)
LEMMA TrimTo ==
  ASSUME NEW S, NEW text \in Seq(S), NEW a \in 1..Len(text), NEW b \in a..Len(text),
         text[a] # Blank, text[b] # Blank,
         \A j \in 1..Len(text) : j < a \/ j > b => text[j] = Blank
  PROVE  Trim(text) = SubSeq(text, a, b)
<1> DEFINE ink == {j \in DOMAIN text : text[j] # Blank}
<1>1. DOMAIN text = 1..Len(text) /\ Len(text) \in Nat
  BY LenProperties
<1>2. /\ a \in ink /\ b \in ink /\ ink # {}
      /\ \A j \in ink : j \in Nat /\ a <= j /\ j <= b
  BY <1>1
<1> HIDE DEF ink
<1>3. Min(ink) = a
  <2>1. \A x \in ink : (\A y \in ink : x <= y) <=> x = a
    BY <1>2
  <2>2. QED
    BY <1>2, <2>1 DEF Min
<1>4. Max(ink) = b
  <2>1. \A x \in ink : (\A y \in ink : x >= y) <=> x = b
    BY <1>2
  <2>2. QED
    BY <1>2, <2>1 DEF Max
<1>5. Trim(text) = IF ink = {} THEN <<>> ELSE SubSeq(text, Min(ink), Max(ink))
  BY DEF Trim, ink
<1>6. QED
  BY <1>2, <1>3, <1>4, <1>5

(* Of white space alone nothing is left. *)
LEMMA TrimBlank ==
  ASSUME NEW S, NEW text \in Seq(S), \A j \in 1..Len(text) : text[j] = Blank
  PROVE  Trim(text) = <<>>
BY LenProperties DEF Trim

(* A text that begins and ends with ink is not trimmed. *)
LEMMA TrimNothing ==
  ASSUME NEW text \in Seq(Lexeme), \A j \in 1..Len(text) : text[j] # Blank
  PROVE  Trim(text) = text
<1>1. CASE text = <<>>
  <2>1. \A j \in 1..Len(text) : text[j] = Blank
    BY <1>1, EmptySeq
  <2>2. QED
    BY <1>1, <2>1, TrimBlank
<1>2. CASE text # <<>>
  <2>1. Len(text) \in Nat \ {0}
    BY <1>2, EmptySeq
  <2>2. Trim(text) = SubSeq(text, 1, Len(text))
    <3> DEFINE a == 1
               b == Len(text)
    <3>1. /\ a \in 1..Len(text) /\ b \in a..Len(text) /\ text[a] # Blank /\ text[b] # Blank
          /\ \A j \in 1..Len(text) : j < a \/ j > b => text[j] = Blank
      BY <2>1
    <3> HIDE DEF a, b
    <3>2. Trim(text) = SubSeq(text, a, b)
      BY <3>1, TrimTo
    <3>3. QED
      BY <3>2 DEF a, b
  <2>3. QED
    BY <2>2, SubSeqFull
<1>3. QED
  BY <1>1, <1>2

(* White space around a text without any is trimmed. *)
LEMMA TrimBoth ==
  ASSUME NEW text \in Seq(Lexeme), \A j \in 1..Len(text) : text[j] # Blank
  PROVE  Trim(<<Blank>> \o text \o <<Blank>>) = text
<1> DEFINE t == <<Blank>> \o text \o <<Blank>>
<1>1. Len(text) \in Nat /\ DOMAIN text = 1..Len(text)
  BY LenProperties
<1>2. /\ t \in Seq(Lexeme) /\ Len(t) = Len(text) + 2
      /\ t[1] = Blank /\ t[Len(text) + 2] = Blank
      /\ \A j \in 1..Len(text) : t[j + 1] = text[j]
  BY DEF Lexeme
<1> HIDE DEF t
<1>3. CASE text = <<>>
  <2>1. \A j \in 1..Len(t) : t[j] = Blank
    BY <1>2, <1>3
  <2>2. QED
    BY <1>2, <1>3, <2>1, TrimBlank DEF t
<1>4. CASE text # <<>>
  <2>1. Len(text) \in Nat \ {0}
    BY <1>4, EmptySeq
  <2> DEFINE n == Len(text) + 1
  <2>2. n \in 2..Len(t) /\ 2 \in 1..Len(t)
    BY <1>2, <2>1
  <2>3. t[2] # Blank /\ t[n] # Blank
    <3>1. t[1 + 1] # Blank /\ t[Len(text) + 1] # Blank
      BY <1>2, <2>1
    <3>2. QED
      BY <3>1
  <2>4. \A j \in 1..Len(t) : j < 2 \/ j > n => t[j] = Blank
    BY <1>1, <1>2
  <2> HIDE DEF n
  <2>5. Trim(t) = SubSeq(t, 2, n)
    BY <1>2, <2>2, <2>3, <2>4, TrimTo
  <2> DEFINE s == SubSeq(t, 2, n)
  <2>6. s \in Seq(Lexeme) /\ Len(s) = Len(text) /\ \A j \in 1..Len(text) : s[j] = t[j + 1]
    BY <1>1, <1>2, <2>2 DEF n
  <2>7. s = text
    <3> HIDE DEF s
    <3>1. QED
      BY <1>2, <2>6, SeqEqual
  <2>8. QED
    BY <2>5, <2>7 DEF t
<1>5. QED
  BY <1>3, <1>4

(* The prefix is stripped once. *)
LEMMA PayloadStripped ==
  ASSUME NEW text \in Seq(Lexeme)
  PROVE  WithoutPayload(<<"payload", Dot>> \o text) = text
<1> DEFINE front == <<"payload", Dot>>
           t == front \o text
<1>1. front \in Seq(Lexeme) /\ Len(front) = 2
  BY DEF Lexeme
<1>2. t \in Seq(Lexeme) /\ Len(t) = 2 + Len(text) /\ Len(text) \in Nat
  BY <1>1, ConcatProperties, LenProperties
<1>3. SubSeq(t, 1, 2) = front /\ SubSeq(front, 1, 2) = front
  <2>1. SubSeq(front, 1, 2) = front
    BY <1>1, SubSeqFull
  <2>2. t[1] = "payload" /\ t[2] = Dot
    BY <1>1
  <2>3. SubSeq(t, 1, 2) = <<t[1], t[2]>>
    <3> HIDE DEF t
    <3>1. Len(t) >= 2
      BY <1>2
    <3>2. QED
      BY <1>2, <3>1, FirstTwo
  <2>4. QED
    BY <2>1, <2>2, <2>3
<1>4. SubSeq(t, 3, Len(t)) = text
  BY <1>1, <1>2
<1> HIDE DEF t, front
<1>5. IsPrefix(front, t)
  BY <1>1, <1>2, <1>3 DEF IsPrefix
<1>6. t # <<"payload">>
  <2>1. Len(<<"payload">>) = 1 /\ Len(t) # 1
    BY <1>2
  <2>2. QED
    BY <2>1
<1>7. WithoutPayload(t) = SubSeq(t, 3, Len(t))
  BY <1>5, <1>6 DEF WithoutPayload, front
<1>8. QED
  BY <1>4, <1>7 DEF t, front

(* What does not begin with payload is left alone. *)
LEMMA PayloadAbsent ==
  ASSUME NEW text \in Seq(Lexeme), text = <<>> \/ text[1] # "payload"
  PROVE  WithoutPayload(text) = text
<1> DEFINE front == <<"payload", Dot>>
<1>1. ~IsPrefix(front, text)
  <2>1. ASSUME IsPrefix(front, text) PROVE FALSE
    <3>1. Len(front) = 2 /\ Len(front) <= Len(text)
          /\ SubSeq(front, 1, 2) = SubSeq(text, 1, 2)
      BY <2>1 DEF IsPrefix
    <3>2. text # <<>>
      BY <3>1
    <3>3. SubSeq(front, 1, 2)[1] = "payload" /\ SubSeq(text, 1, 2)[1] = text[1]
      BY <3>1
    <3>4. QED
      BY <3>1, <3>2, <3>3
  <2>2. QED
    BY <2>1
<1>2. text # <<"payload">>
  BY EmptySeq
<1>3. QED
  BY <1>1, <1>2 DEF WithoutPayload

(* What comes down to the spelling of a path selects the value there. *)
LEMMA SelectedAt ==
  ASSUME NEW r, NEW p \in Seq(Writable), p \in DOMAIN r, NEW text,
         WithoutPayload(Trim(text)) = Spelling[p]
  PROVE  Selected(r, text) = Subtree(r, p)
<1> DEFINE ts == Tokens[Spelling[p]]
<1>1. ts \in Seq(Token) /\ PathOf[ts] = p
  BY SpellingReads DEF Reads
<1> HIDE DEF ts
<1>2. \A j \in DOMAIN ts : WellFormed(ts[j])
  BY <1>1, LenProperties, ElementOfSeq, TokenSteps
<1>3. QED
  BY <1>1, <1>2 DEF Selected, ts

(* Each spelling of a path comes down to the one without prefix or blanks. *)
LEMMA EverySpelling ==
  ASSUME NEW r, NEW p \in Path, Spellable(p), p \in DOMAIN r, NEW text \in Spellings(p)
  PROVE  Selected(r, text) = Subtree(r, p)
<1> DEFINE t == Spelling[p]
<1>1. p \in Seq(Writable)
  <2>1. \A j \in 1..Len(p) : p[j] \in Writable
    BY DEF Path, Spellable, Writable, Plain
  <2>2. p \in [1..Len(p) -> Writable] /\ Len(p) \in Nat
    BY <2>1 DEF Path
  <2>3. QED
    BY <2>2
<1>2. /\ t \in Seq(Lexeme) /\ \A j \in 1..Len(t) : t[j] # Blank
      /\ t = <<>> <=> p = <<>>
      /\ p # <<>> => t[1] = p[1]
  BY <1>1, SpellingReads DEF Reads
<1> HIDE DEF t
<1>3. CASE text = <<"payload", Dot>> \o t
  <2> DEFINE front == <<"payload", Dot>>
  <2>1. /\ text \in Seq(Lexeme) /\ Len(text) = 2 + Len(t)
        /\ text[1] = "payload" /\ text[2] = Dot
        /\ \A j \in 1..Len(t) : text[2 + j] = t[j]
    BY <1>2, <1>3 DEF Lexeme
  <2>2. \A j \in 1..Len(text) : text[j] # Blank
    <3>1. ASSUME NEW j \in 1..Len(text) PROVE text[j] # Blank
      <4>1. CASE j \in 1..2
        <5>1. j = 1 \/ j = 2
          BY <4>1
        <5>2. "payload" # Blank /\ Dot # Blank
          BY DEF Dot, Blank
        <5>3. QED
          BY <2>1, <5>1, <5>2
      <4>2. CASE j \notin 1..2
        <5>1. j - 2 \in 1..Len(t) /\ 2 + (j - 2) = j
          BY <1>2, <2>1, <4>2
        <5>2. QED
          BY <1>2, <2>1, <5>1
      <4>3. QED
        BY <4>1, <4>2
    <3>2. QED
      BY <3>1
  <2>3. Trim(text) = text
    BY <2>1, <2>2, TrimNothing
  <2>4. WithoutPayload(Trim(text)) = t
    BY <1>2, <1>3, <2>3, PayloadStripped
  <2>5. QED
    BY <1>1, <2>4, SelectedAt DEF t
<1>4. CASE ~IsPrefix(<<"payload">>, p) /\ text \in {t, <<Blank>> \o t \o <<Blank>>}
  <2>1. Trim(text) = t
    BY <1>2, <1>4, TrimNothing, TrimBoth
  <2>2. t = <<>> \/ t[1] # "payload"
    <3>1. ASSUME p # <<>>, p[1] = "payload" PROVE IsPrefix(<<"payload">>, p)
      <4>1. Len(p) \in Nat \ {0} /\ p \in Seq(Step)
        BY <3>1, EmptySeq DEF Path
      <4>2. SubSeq(p, 1, 1) = <<p[1]>>
        BY <3>1, <4>1, FirstOne
      <4>3. SubSeq(<<"payload">>, 1, 1) = <<"payload">> /\ Len(<<"payload">>) = 1
        <5> DEFINE w == <<"payload">>
        <5>1. w \in Seq({"payload"}) /\ Len(w) = 1
          OBVIOUS
        <5> HIDE DEF w
        <5>2. SubSeq(w, 1, 1) = w
          BY <5>1, SubSeqFull
        <5>3. QED
          BY <5>1, <5>2 DEF w
      <4>4. QED
        BY <3>1, <4>1, <4>2, <4>3 DEF IsPrefix
    <3>2. QED
      BY <1>2, <1>4, <3>1
  <2>3. WithoutPayload(Trim(text)) = t
    BY <1>2, <2>1, <2>2, PayloadAbsent
  <2>4. QED
    BY <1>1, <2>3, SelectedAt DEF t
<1>5. CASE p = <<>> /\ text = <<"payload">>
  <2>1. /\ text \in Seq(Lexeme) /\ Len(text) = 1 /\ text[1] = "payload"
        /\ "payload" # Blank
    BY <1>5 DEF Lexeme, Blank
  <2>2. Trim(text) = text
    BY <2>1, TrimNothing
  <2>3. ~IsPrefix(<<"payload", Dot>>, text)
    BY <2>1 DEF IsPrefix
  <2>4. WithoutPayload(Trim(text)) = t
    BY <1>2, <1>5, <2>2, <2>3 DEF WithoutPayload
  <2>5. QED
    BY <1>1, <2>4, SelectedAt DEF t
<1>6. \/ text = <<"payload", Dot>> \o t
      \/ ~IsPrefix(<<"payload">>, p) /\ text \in {t, <<Blank>> \o t \o <<Blank>>}
      \/ p = <<>> /\ text = <<"payload">>
  BY DEF Spellings, t
<1>7. QED
  BY <1>3, <1>4, <1>5, <1>6

(* select.rs:15-22: every value whose path can be written is selected by   *)
(* each spelling of its path, in any result and at any depth.              *)
THEOREM EveryValueIsReached == Spec => []SelectorsReach
<1>1. IInv => SelectorsReach
  <2> SUFFICES ASSUME IInv, NEW p \in DOMAIN root, Spellable(p), NEW text \in Spellings(p)
               PROVE  Selected(root, text) = Subtree(root, p)
    BY DEF SelectorsReach
  <2>1. p \in Path
    BY FieldsAssumption, TreePaths DEF IInv, TypeInv
  <2>2. QED
    BY <2>1, EverySpelling
<1>2. QED
  BY <1>1, FieldsInvariant, PTL

=============================================================================
