------------------------------ MODULE FieldMap ------------------------------
(***************************************************************************)
(* What a protobuf message promises its user: it is a partial function     *)
(* from field names to values, whatever object it lives in and whatever    *)
(* that object held before.                                                *)
(***************************************************************************)
CONSTANTS Objects,      \* message objects
          Fields,       \* the fields of their class
          Values(_)     \* what each field may hold

VARIABLE fields         \* the fields each object has, with their values

With(m, f, v) == [g \in DOMAIN m \cup {f} |-> IF g = f THEN v ELSE m[g]]
Without(m, f) == [g \in DOMAIN m \ {f} |-> m[g]]
Overlay(m, n) == [g \in DOMAIN m \cup DOMAIN n |-> IF g \in DOMAIN n THEN n[g] ELSE m[g]]
Nothing == [f \in {} |-> f]

Init == fields = [o \in Objects |-> Nothing]

Put(o)       == \E f \in Fields : \E v \in Values(f) :
                    fields' = [fields EXCEPT ![o] = With(@, f, v)]
Drop(o)      == \E f \in Fields : fields' = [fields EXCEPT ![o] = Without(@, f)]
Empty(o)     == fields' = [fields EXCEPT ![o] = Nothing]
Copy(o, p)   == fields' = [fields EXCEPT ![o] = fields[p]]
Merge(o, p)  == fields' = [fields EXCEPT ![o] = Overlay(@, fields[p])]
Trade(o, p)  == fields' = [fields EXCEPT ![o] = fields[p], ![p] = fields[o]]

Next == \/ \E o \in Objects : Put(o) \/ Drop(o) \/ Empty(o)
        \/ \E o, p \in Objects : Copy(o, p) \/ Merge(o, p) \/ Trade(o, p)

Spec == Init /\ [][Next]_fields
=============================================================================
