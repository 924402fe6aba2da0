----------------------------- MODULE JsonTree -----------------------------
(***************************************************************************)
(* JSON values (serde_json::Value) as trees.  A tree is a function on a    *)
(* prefix-closed set of paths; a path is a sequence of steps, a step an    *)
(* object key or an array index.  Each node is "object", "array" or a      *)
(* scalar.                                                                 *)
(***************************************************************************)
EXTENDS Naturals, Sequences, SequencesExt

CONSTANT Step  \* object keys and array indices

ASSUME StepAssumption == "[0]" \in Step

Scalar(v)   == [p \in {<<>>} |-> v]
Null        == Scalar("null")
EmptyObject == Scalar("object")

(* No value: the member does not exist. *)
Absent == Scalar("absent")

(* What is a value at all. *)
Path == Seq(Step)

IsTree(t) ==
  /\ t = [d \in DOMAIN t |-> t[d]]
  /\ <<>> \in DOMAIN t
  /\ \A d \in DOMAIN t : d \in Path /\ \A n \in 0..Len(d) : SubSeq(d, 1, n) \in DOMAIN t

IsObject(t) == t[<<>>] = "object"

(* The paths of tree t at and below p, seen from p. *)
Below(t, p) == {SubSeq(d, Len(p) + 1, Len(d)) : d \in {d \in DOMAIN t : IsPrefix(p, d)}}

Subtree(t, p) == [q \in Below(t, p) |-> t[p \o q]]

(* Value::get along p. *)
ValueAt(t, p) == IF p \in DOMAIN t THEN Subtree(t, p) ELSE Absent

(* Tree t with tree v put at p. *)
Graft(t, p, v) ==
  LET kept == {d \in DOMAIN t : ~IsPrefix(p, d)}
      new  == {p \o q : q \in DOMAIN v}
  IN  [d \in kept \cup new |->
         IF d \in kept THEN t[d] ELSE v[SubSeq(d, Len(p) + 1, Len(d))]]

(* The tree with the given node at its root and the trees of f below it. *)
Node(node, f) ==
  LET below == UNION {{<<k>> \o q : q \in DOMAIN f[k]} : k \in DOMAIN f}
  IN  [p \in {<<>>} \cup below |-> IF p = <<>> THEN node ELSE f[Head(p)][Tail(p)]]

(* The object whose members are those of the record f that are not Absent. *)
Object(f) == Node("object", Restrict(f, {k \in DOMAIN f : f[k] # Absent}))

(* The array with the one element t. *)
Singleton(t) == Node("array", [k \in {"[0]"} |-> t])

=============================================================================
