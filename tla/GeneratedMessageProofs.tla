----------------------- MODULE GeneratedMessageProofs -----------------------
(***************************************************************************)
(* Proofs about GeneratedMessage, for every class protoc may be given: an  *)
(* enum field holds a number of its enum whatever was parsed, and a field  *)
(* that is not set holds its default.                                      *)
(*                                                                         *)
(* Neither is inductive alone: Clear restores a default only because the   *)
(* string without a bit has it already.  Both are stated of one object     *)
(* (Sound) and of the bits it has or will have when the parse is done;     *)
(* every operation keeps a sound record sound, and every action applies an *)
(* operation to one object, or exchanges two.  What a parse makes of the   *)
(* bytes a serialization wrote (RoundTrips) and what a field holds after   *)
(* any calls (ImplementsFieldMap) rest on the same step lemmas.  That the  *)
(* size of a message is what is written of it (KnowsItsSize) is then a     *)
(* matter of sums: the fields of an object are the items of its wire.      *)
(***************************************************************************)
EXTENDS GeneratedMessage, SequenceTheorems, FiniteSetTheorems, WellFoundedInduction, TLAPS

Shape(m) == m = [bits |-> m.bits, value |-> m.value, unknown |-> m.unknown]

Sound(m, B) ==
    /\ Shape(m) /\ Legal(m)
    /\ \A f \in class : f \notin m.bits \cup B => m.value[f] = Default(f)

Objs(M) == M = [o \in Objects |-> M[o]]

IInv ==
    /\ class \in Classes /\ touched \subseteq class
    /\ Objs(msg) /\ target \in Objects /\ has_bits \subseteq class
    /\ parsing \in {"no", "items", "broken", "true", "false"}
    /\ \A o \in Objects : Sound(msg[o], Pending(o))
    /\ AtRest => has_bits = {}

\* The first number of an enum is one of the enum's.
LEMMA DefaultLegal ==
    ASSUME class \in Classes, NEW f \in class, f.kind = "enum"
    PROVE  Default(f) \in f.valid /\ Values(f) = f.valid
  BY MessageAssumption DEF MessageAssumption, Values

\* A new object is sound.
LEMMA NewSound == ASSUME class \in Classes PROVE Sound(new, {})
  BY DefaultLegal DEF Sound, Shape, Legal, new

\* Clear leaves a sound object with nothing set.
LEMMA ClearSound ==
    ASSUME class \in Classes, NEW m, Sound(m, {})
    PROVE  Sound(Clear(m), {}) /\ Clear(m).bits = {}
  <1>1. \A f \in class : Clear(m).value[f] = Default(f)
    <2> SUFFICES ASSUME NEW f \in class PROVE Clear(m).value[f] = Default(f)
      OBVIOUS
    <2>1. f \notin m.bits => m.value[f] = Default(f)
      BY DEF Sound
    <2>2. CASE f \in Texts(class)
      BY <2>1, <2>2 DEF Clear
    <2>3. CASE f \notin Texts(class)
      <3>1. f \in Scalars(class)
        BY <2>3 DEF Scalars
      <3> QED BY <2>1, <2>3, <3>1 DEF Clear
    <2> QED BY <2>2, <2>3
  <1>2. /\ Clear(m).bits = {} /\ Shape(Clear(m))
        /\ Clear(m).value = [f \in class |-> Clear(m).value[f]]
    BY DEF Clear, Shape
  <1> QED BY <1>1, <1>2, DefaultLegal DEF Sound, Legal

\* set_field, with a number the enum has, keeps an object sound.
LEMMA SetSound ==
    ASSUME NEW m, NEW B, NEW f \in class, NEW v, Sound(m, B), f.kind = "enum" => v \in f.valid
    PROVE  Sound(set(m, f, v), B)
  <1>1. m.value = [g \in class |-> m.value[g]] /\ Shape(m)
    BY DEF Sound, Legal
  <1>2. /\ set(m, f, v).bits = m.bits \cup {f} /\ Shape(set(m, f, v))
        /\ set(m, f, v).value = [m.value EXCEPT ![f] = v]
    BY <1>1 DEF set, Shape
  <1>3. set(m, f, v).value = [g \in class |-> IF g = f THEN v ELSE m.value[g]]
    BY <1>1, <1>2
  <1> QED BY <1>2, <1>3 DEF Sound, Legal

\* clear_field keeps an object sound.
LEMMA ClearFieldSound ==
    ASSUME class \in Classes, NEW m, NEW f \in class, Sound(m, {})
    PROVE  Sound(clear(m, f), {})
  <1>1. m.value = [g \in class |-> m.value[g]] /\ Shape(m)
    BY DEF Sound, Legal
  <1>2. /\ clear(m, f).bits = m.bits \ {f} /\ Shape(clear(m, f))
        /\ clear(m, f).value = [m.value EXCEPT ![f] = Default(f)]
    BY <1>1 DEF clear, Shape
  <1>3. clear(m, f).value = [g \in class |-> IF g = f THEN Default(f) ELSE m.value[g]]
    BY <1>1, <1>2
  <1> QED BY <1>2, <1>3, DefaultLegal DEF Sound, Legal

\* So does the copy constructor.
LEMMA CopySound ==
    ASSUME class \in Classes, NEW m, Sound(m, {}) PROVE Sound(copy(m), {})
  <1>1. \A f \in Texts(class) : Default(f) = << >> /\ f.kind # "enum"
    BY DEF Default, Texts
  <1> QED BY <1>1 DEF Sound, Shape, Legal, copy

\* So does MergeFrom.
LEMMA MergeSound ==
    ASSUME NEW m, NEW n, Sound(m, {}), Sound(n, {}) PROVE Sound(MergeFrom(m, n), {})
  BY DEF Sound, Shape, Legal, MergeFrom

-----------------------------------------------------------------------------
\* A call of the program that makes one object sound keeps the invariant.
LEMMA MakesKeeps ==
    ASSUME IInv, NEW o \in Objects, NEW m, Makes(o, m), Sound(m, {})
    PROVE  IInv'
  <1>1. has_bits = {} /\ \A p \in Objects : Pending(p) = {}
    BY DEF Makes, IInv, Pending
  <1>2. First \in Objects
    BY MessageAssumption DEF First, MessageAssumption
  <1>3. \A p \in Objects : Sound(msg'[p], {})
    BY <1>1 DEF Makes, IInv, Objs
  <1>4. Objs(msg')
    BY DEF Makes, IInv, Objs
  <1>5. class' = class /\ touched' = touched /\ parsing' = "no" /\ target' = First /\ has_bits' = {}
    BY DEF Makes, Rest
  <1>6. \A p \in Objects : Pending(p)' = {}
    BY <1>5 DEF Pending
  <1>7. \A p \in Objects : Sound(msg[p], Pending(p))'
    BY <1>3, <1>5, <1>6 DEF Sound, Legal
  <1> QED BY <1>2, <1>4, <1>5, <1>7 DEF IInv, Objs, AtRest

\* A step of the parser that leaves its object sound, with the bits it has
\* set or noted, keeps the invariant.
LEMMA ParserKeeps ==
    ASSUME IInv, NEW m, Into(m), Sound(m, has_bits'), has_bits' \subseteq class,
           UNCHANGED <<class, touched, target>>,
           parsing' \in {"items", "broken"} \/ (parsing' \in {"true", "false"} /\ has_bits' = {})
    PROVE  IInv'
  <1>1. \A p \in Objects : Sound(msg'[p], Pending(p)')
    BY DEF Into, IInv, Objs, Pending
  <1>2. \A p \in Objects : Sound(msg[p], Pending(p))'
    BY <1>1 DEF Sound, Legal
  <1>3. Objs(msg')
    BY DEF Into, IInv, Objs
  <1> QED BY <1>2, <1>3 DEF IInv, Objs, AtRest

\* Appending to the unknown items leaves the fields as they are.
LEMMA UnknownSound ==
    ASSUME NEW m, NEW B, NEW it, Sound(m, B)
    PROVE  Sound([m EXCEPT !.unknown = Append(@, it)], B)
  <1> DEFINE n == [m EXCEPT !.unknown = Append(@, it)]
  <1>1. n.bits = m.bits /\ n.value = m.value /\ Shape(n)
    BY DEF Sound, Shape
  <1> QED BY <1>1 DEF Sound, Legal

-----------------------------------------------------------------------------
\* The invariant is inductive.
LEMMA Inductive == Spec => []IInv
  <1>1. Init => IInv
    <2> SUFFICES ASSUME Init PROVE IInv
      OBVIOUS
    <2>1. First \in Objects
      BY MessageAssumption DEF First, MessageAssumption
    <2>2. class \in Classes /\ touched \subseteq class
      BY DEF Init
    <2> QED BY <2>1, <2>2, NewSound DEF Init, IInv, Objs, Pending, AtRest
  <1>2. IInv /\ [Next]_vars => IInv'
    <2> SUFFICES ASSUME IInv, [Next]_vars PROVE IInv'
      OBVIOUS
    <2>0. class \in Classes /\ touched \subseteq class /\ target \in Objects /\ has_bits \subseteq class
      BY DEF IInv
    <2>1. ASSUME AtRest, NEW o \in Objects PROVE Sound(msg[o], {})
      BY <2>1 DEF IInv, Pending
    <2>2. Sound(msg[target], has_bits)
      BY <2>0 DEF IInv, Pending
    <2>3. ASSUME NEW o \in Objects, construct(o) PROVE IInv'
      BY <2>0, <2>3, NewSound, MakesKeeps DEF construct
    <2>4. ASSUME NEW o \in Objects, set_field(o) PROVE IInv'
      <3>1. PICK f \in touched : \E v \in Used(f) : Makes(o, set(msg[o], f, v))
        BY <2>4 DEF set_field
      <3>2. PICK v \in Used(f) : Makes(o, set(msg[o], f, v))
        BY <3>1
      <3>3. f \in class /\ (f.kind = "enum" => v \in f.valid)
        BY <2>0, MessageAssumption DEF MessageAssumption, Values
      <3> QED BY <2>1, <3>2, <3>3, SetSound, MakesKeeps DEF Makes
    <2>5. ASSUME NEW o \in Objects, clear_field(o) PROVE IInv'
      <3>1. PICK f \in touched : Makes(o, clear(msg[o], f))
        BY <2>5 DEF clear_field
      <3> QED BY <2>0, <2>1, <3>1, ClearFieldSound, MakesKeeps DEF Makes
    <2>6. ASSUME NEW o \in Objects, clears(o) PROVE IInv'
      BY <2>0, <2>1, <2>6, ClearSound, MakesKeeps DEF clears, Makes
    <2>7. ASSUME NEW o \in Objects, NEW p \in Objects, copies(o, p) PROVE IInv'
      BY <2>0, <2>1, <2>7, CopySound, MakesKeeps DEF copies, Makes
    <2>8. ASSUME NEW o \in Objects, NEW p \in Objects, assigns(o, p) PROVE IInv'
      <3>1. Makes(o, CopyFrom(msg[o], msg[p])) /\ AtRest
        BY <2>8 DEF assigns, Makes
      <3>2. Sound(Clear(msg[o]), {}) /\ Sound(msg[p], {})
        BY <2>0, <2>1, <3>1, ClearSound
      <3>3. Sound(CopyFrom(msg[o], msg[p]), {})
        BY <3>2, MergeSound DEF CopyFrom
      <3> QED BY <3>1, <3>3, MakesKeeps
    <2>9. ASSUME NEW o \in Objects, NEW p \in Objects, merges(o, p) PROVE IInv'
      BY <2>1, <2>9, MergeSound, MakesKeeps DEF merges, Makes
    <2>10. ASSUME NEW o \in Objects, NEW p \in Objects, InternalSwap(o, p) PROVE IInv'
      <3>1. AtRest /\ o # p /\ msg' = [msg EXCEPT ![o] = msg[p], ![p] = msg[o]]
        BY <2>10 DEF InternalSwap
      <3>2. class' = class /\ touched' = touched /\ parsing' = "no" /\ target' = First /\ has_bits' = {}
        BY <2>10 DEF InternalSwap, Rest
      <3>3. First \in Objects
        BY MessageAssumption DEF First, MessageAssumption
      <3>4. Objs(msg') /\ \A q \in Objects : Sound(msg'[q], {})
        BY <2>1, <3>1 DEF IInv, Objs
      <3>5. \A q \in Objects : Sound(msg[q], Pending(q))'
        BY <3>2, <3>4 DEF Sound, Legal, Pending
      <3> QED BY <2>0, <3>2, <3>3, <3>4, <3>5 DEF IInv, Objs, AtRest
    <2>11. ASSUME NEW p \in Objects, NEW items, Parse(p, items) PROVE IInv'
      <3>1. AtRest /\ msg' = [msg EXCEPT ![p] = Clear(msg[p])]
        BY <2>11 DEF Parse
      <3>2. class' = class /\ touched' = touched /\ parsing' = "items" /\ target' = p /\ has_bits' = {}
        BY <2>11 DEF Parse
      <3>3. Sound(Clear(msg[p]), {})
        BY <2>0, <2>1, <3>1, ClearSound
      <3>4. Objs(msg') /\ \A q \in Objects : Sound(msg'[q], {})
        BY <2>1, <3>1, <3>3 DEF IInv, Objs
      <3>5. \A q \in Objects : Sound(msg[q], Pending(q))'
        BY <3>2, <3>4 DEF Sound, Legal, Pending
      <3> QED BY <2>0, <3>2, <3>4, <3>5 DEF IInv, Objs, AtRest
    <2>12. ASSUME NEW f \in class, parseEnum(f) PROVE IInv'
      <3>1. /\ f.kind = "enum" /\ has_bits' = has_bits /\ parsing' \in {"items", "broken"}
            /\ UNCHANGED <<class, touched, target>>
        BY <2>12 DEF parseEnum, Advances
      <3>2. CASE Head(input).cut
        <4>1. UNCHANGED msg
          BY <2>12, <3>2 DEF parseEnum
        <4>2. Into(msg[target])
          BY <2>0, <4>1 DEF Into, IInv, Objs
        <4> QED BY <2>0, <2>2, <3>1, <4>2, ParserKeeps
      <3>3. CASE ~Head(input).cut /\ Head(input).val \in f.valid
        <4>1. Into(set(msg[target], f, Head(input).val))
          BY <2>12, <3>3 DEF parseEnum
        <4> QED BY <2>0, <2>2, <3>1, <3>3, <4>1, SetSound, ParserKeeps
      <3>4. CASE ~Head(input).cut /\ Head(input).val \notin f.valid
        <4>1. AsUnknown(Head(input))
          BY <2>12, <3>4 DEF parseEnum
        <4> QED BY <2>0, <2>2, <3>1, <4>1, UnknownSound, ParserKeeps DEF AsUnknown
      <3> QED BY <3>2, <3>3, <3>4
    <2>13. ASSUME NEW f \in class, parseNumber(f) PROVE IInv'
      <3>1. /\ f.kind # "enum" /\ has_bits' = has_bits \cup {f} /\ parsing' \in {"items", "broken"}
            /\ UNCHANGED <<class, touched, target>>
        BY <2>13 DEF parseNumber, Advances
      <3>2. PICK v : Into([msg[target] EXCEPT !.value[f] = v])
        BY <2>13 DEF parseNumber
      <3> DEFINE m == msg[target]
                 n == [m EXCEPT !.value[f] = v]
      <3>3. m = [bits |-> m.bits, value |-> m.value, unknown |-> m.unknown]
        BY <2>2 DEF Sound, Shape
      <3>4. n.bits = m.bits /\ Shape(n) /\ n.value = [m.value EXCEPT ![f] = v]
        BY <3>3 DEF Shape
      <3>5. n.value = [g \in class |-> IF g = f THEN v ELSE m.value[g]]
        BY <2>2, <3>4 DEF Sound, Legal
      <3>6. Sound(n, has_bits')
        BY <2>2, <3>1, <3>4, <3>5 DEF Sound, Legal
      <3> QED BY <2>0, <3>1, <3>2, <3>6, ParserKeeps
    <2>14. ASSUME NEW f \in class, parseString(f) PROVE IInv'
      <3>1. /\ f.kind # "enum" /\ has_bits' = has_bits /\ parsing' \in {"items", "broken"}
            /\ UNCHANGED <<class, touched, target>>
        BY <2>14 DEF parseString, Advances
      <3>2. PICK v : Into(set(msg[target], f, v))
        BY <2>14 DEF parseString
      <3> QED BY <2>0, <2>2, <3>1, <3>2, SetSound, ParserKeeps
    <2>15. ASSUME handle_unusual PROVE IInv'
      <3>1. has_bits' = has_bits /\ parsing' \in {"items", "broken"} /\ UNCHANGED <<class, touched, target>>
        BY <2>15 DEF handle_unusual, Advances
      <3>2. CASE UNCHANGED msg
        <4>1. Into(msg[target])
          BY <2>0, <3>2 DEF Into, IInv, Objs
        <4> QED BY <2>0, <2>2, <3>1, <4>1, ParserKeeps
      <3>3. CASE AsUnknown(Head(input))
        BY <2>0, <2>2, <3>1, <3>3, UnknownSound, ParserKeeps DEF AsUnknown
      <3> QED BY <2>15, <3>2, <3>3 DEF handle_unusual
    <2>16. ASSUME message_done PROVE IInv'
      <3> DEFINE m == msg[target]
                 n == [m EXCEPT !.bits = @ \cup has_bits]
      <3>1. /\ Into(n) /\ has_bits' = {} /\ parsing' \in {"true", "false"}
            /\ UNCHANGED <<class, touched, target>>
        BY <2>16 DEF message_done
      <3>2. n.bits = m.bits \cup has_bits /\ n.value = m.value /\ Shape(n)
        BY <2>2 DEF Sound, Shape
      <3>3. Sound(n, {})
        BY <2>0, <2>2, <3>2 DEF Sound, Legal
      <3> QED BY <2>0, <3>1, <3>3, ParserKeeps
    <2>17. CASE UNCHANGED vars
      BY <2>17 DEF vars, parser, IInv, Objs, Sound, Legal, Pending, AtRest
    <2> QED BY <2>3, <2>4, <2>5, <2>6, <2>7, <2>8, <2>9, <2>10, <2>11, <2>12, <2>13, <2>14, <2>15, <2>16, <2>17
         DEF Next, ParseStep, receives, receivesStrange
  <1> QED BY <1>1, <1>2, PTL DEF Spec

-----------------------------------------------------------------------------
\* Whatever is parsed, an enum field of an object holds one of the numbers of
\* its enum (MessageType_IsValid, ErrorCode_IsValid in _InternalParse).
THEOREM TypeCorrect == Spec => []TypeOK
  <1>1. IInv => TypeOK
    BY DEF IInv, TypeOK, Objs, Sound, Shape
  <1> QED BY <1>1, Inductive, PTL

\* A field whose bit is not set holds its default, in every object and after
\* every operation, parses that fail among them.
THEOREM UnsetDefault == Spec => []UnsetIsDefault
  <1>1. IInv => UnsetIsDefault
    BY DEF IInv, UnsetIsDefault, Sound
  <1> QED BY <1>1, Inductive, PTL

-----------------------------------------------------------------------------
(***************************************************************************)
(* What is carried.  An item of a field that is not an enum has a value of *)
(* that field, unless it is cut off, and what an object keeps as unknown   *)
(* is unknown to every object of the class.                                *)
(***************************************************************************)
Items == (UNION {{Item(f, v) : v \in Values(f)} : f \in class}) \cup Strange
Unknowns == {it \in Items : IsUnknown(it)}

Full(m) == (\A f \in class : m.value[f] \in Values(f)) /\ m.unknown \in Seq(Unknowns)
Carried == (\A o \in Objects : Full(msg[o])) /\ input \in Seq(Items)

\* A number belongs to one field.
LEMMA OneNumber ==
    ASSUME class \in Classes, NEW f \in class
    PROVE  /\ f.number \in 1 .. 7 /\ \A g \in class : f.number = g.number => f = g
           /\ Default(f) \in Values(f) /\ Used(f) \subseteq Values(f)
  BY MessageAssumption DEF MessageAssumption

LEMMA ItemFits ==
    ASSUME class \in Classes, touched \subseteq class, NEW it \in Items, ~it.cut,
           NEW f \in class, f.number = it.number, Wire(f) = it.wire, f.kind # "enum"
    PROVE  it.val \in Values(f)
  <1>1. ASSUME NEW g \in class, NEW v \in Values(g), it = Item(g, v) PROVE it.val \in Values(f)
    BY <1>1, OneNumber DEF Item
  <1>3. ASSUME NEW g \in touched, NEW v \in Used(g), it = Item(g, v) PROVE it.val \in Values(f)
    BY <1>1, <1>3, OneNumber
  <1>4. ASSUME NEW g \in touched, it = [Item(g, Default(g)) EXCEPT !.cut = TRUE] PROVE FALSE
    BY <1>4 DEF Item
  <1>5. ASSUME NEW g \in touched,
               it = [Item(g, Default(g)) EXCEPT !.wire = IF @ = "fixed64" THEN "varint" ELSE "fixed64"]
        PROVE  FALSE
    <2>1. it.number = g.number /\ it.wire = IF Wire(g) = "fixed64" THEN "varint" ELSE "fixed64"
      BY <1>5 DEF Item
    <2>2. f = g
      BY <2>1, OneNumber
    <2> QED BY <2>1, <2>2
  <1>6. ASSUME NEW g \in {h \in touched : h.kind = "enum"}, it = Item(g, 9) PROVE FALSE
    <2>1. f = g
      BY <1>6, OneNumber DEF Item
    <2> QED BY <2>1
  <1>7. ASSUME NEW w \in {"varint", "end"}, it = [number |-> 15, wire |-> w, val |-> 9, cut |-> FALSE]
        PROVE  FALSE
    BY <1>7, OneNumber
  <1> DEFINE Made(g)  == {Item(g, v) : v \in Values(g)}
             Cut(g)   == [Item(g, Default(g)) EXCEPT !.cut = TRUE]
             Other(g) == [Item(g, Default(g)) EXCEPT !.wire = IF @ = "fixed64" THEN "varint" ELSE "fixed64"]
             Odd(g)   == {Item(g, v) : v \in Used(g)} \cup {Cut(g), Other(g)}
             Nines    == {Item(g, 9) : g \in {h \in touched : h.kind = "enum"}}
             Foreign  == {[number |-> 15, wire |-> w, val |-> 9, cut |-> FALSE] : w \in {"varint", "end"}}
  <1>2. it \in UNION {Made(g) : g \in class} \/ it \in UNION {Odd(g) : g \in touched}
           \/ it \in Nines \/ it \in Foreign
    BY DEF Items, Strange
  <1>8. ASSUME NEW g \in touched, it \in Odd(g) PROVE it.val \in Values(f)
    <2>1. it \in {Item(g, v) : v \in Used(g)} \/ it = Cut(g) \/ it = Other(g)
      BY <1>8
    <2> QED BY <2>1, <1>3, <1>4, <1>5
  <1>9. CASE it \in UNION {Made(g) : g \in class}
    BY <1>1, <1>9
  <1>10. CASE it \in UNION {Odd(g) : g \in touched}
    <2> HIDE DEF Odd
    <2> QED BY <1>8, <1>10
  <1> QED BY <1>2, <1>6, <1>7, <1>9, <1>10

\* The operations on a record leave it full.
LEMMA NewFull == ASSUME class \in Classes PROVE Full(new)
  <1>1. << >> \in Seq(Unknowns)
    OBVIOUS
  <1> QED BY <1>1, OneNumber DEF Full, new

LEMMA SetFull ==
    ASSUME NEW m, NEW B, NEW f \in class, NEW v \in Values(f), Sound(m, B), Full(m)
    PROVE  Full(set(m, f, v))
  <1>1. m.value = [g \in class |-> m.value[g]]
    BY DEF Sound, Legal
  <1>2. set(m, f, v).value = [g \in class |-> IF g = f THEN v ELSE m.value[g]]
    BY <1>1 DEF set
  <1>3. set(m, f, v).unknown = m.unknown
    BY DEF set
  <1> QED BY <1>2, <1>3 DEF Full

LEMMA ClearFieldFull ==
    ASSUME class \in Classes, NEW m, NEW f \in class, Sound(m, {}), Full(m)
    PROVE  Full(clear(m, f))
  <1>1. m.value = [g \in class |-> m.value[g]]
    BY DEF Sound, Legal
  <1>2. clear(m, f).value = [g \in class |-> IF g = f THEN Default(f) ELSE m.value[g]]
    BY <1>1 DEF clear
  <1>3. clear(m, f).unknown = m.unknown
    BY DEF clear
  <1> QED BY <1>2, <1>3, OneNumber DEF Full

LEMMA ClearFull ==
    ASSUME class \in Classes, NEW m, Full(m) PROVE Full(Clear(m))
  <1>1. << >> \in Seq(Unknowns)
    OBVIOUS
  <1>2. \A f \in class : Clear(m).value[f] \in {Default(f), m.value[f]}
    BY DEF Clear
  <1>3. Clear(m).unknown = << >>
    BY DEF Clear
  <1> QED BY <1>1, <1>2, <1>3, OneNumber DEF Full

LEMMA CopyFull ==
    ASSUME class \in Classes, NEW m, Sound(m, {}), Full(m) PROVE Full(copy(m))
  <1>1. \A f \in Texts(class) : << >> \in Values(f)
    BY MessageAssumption DEF Texts, Values, MessageAssumption
  <1>2. /\ copy(m).value = [f \in class |-> IF f \in Texts(class) \ m.bits THEN << >> ELSE m.value[f]]
        /\ copy(m).unknown = m.unknown
    BY DEF copy, Sound, Shape
  <1> QED BY <1>1, <1>2 DEF Full

LEMMA MergeFull ==
    ASSUME NEW m, NEW n, Full(m), Full(n) PROVE Full(MergeFrom(m, n))
  <1>1. m.unknown \o n.unknown \in Seq(Unknowns)
    BY ConcatProperties DEF Full
  <1>2. MergeFrom(m, n).unknown = m.unknown \o n.unknown
    BY DEF MergeFrom
  <1>3. \A f \in class : MergeFrom(m, n).value[f] \in {m.value[f], n.value[f]}
    BY DEF MergeFrom
  <1> QED BY <1>1, <1>2, <1>3 DEF Full

LEMMA UnknownFull ==
    ASSUME NEW m, NEW B, NEW it \in Unknowns, Sound(m, B), Full(m)
    PROVE  Full([m EXCEPT !.unknown = Append(@, it)])
  <1> DEFINE n == [m EXCEPT !.unknown = Append(@, it)]
  <1>1. n.value = m.value /\ n.unknown = Append(m.unknown, it)
    BY DEF Sound, Shape
  <1>2. Append(m.unknown, it) \in Seq(Unknowns)
    BY DEF Full
  <1> QED BY <1>1, <1>2 DEF Full

-----------------------------------------------------------------------------
(***************************************************************************)
(* What is serialized: the fields that are set, each once, and after them  *)
(* the unknown items.                                                      *)
(***************************************************************************)
\* s lists the numbers up to n of the fields that m has.
Lists(s, m, n) ==
    /\ s \in Seq(Nat)
    /\ \A i, j \in 1 .. Len(s) : s[i] = s[j] => i = j
    /\ \A i \in 1 .. Len(s) : s[i] \in 1 .. n /\ \E f \in m.bits : f.number = s[i]
    /\ \A f \in m.bits : f.number \in 1 .. n => \E i \in 1 .. Len(s) : s[i] = f.number

LEMMA ListsNext ==
    ASSUME NEW m, NEW n \in Nat, NEW s, Lists(s, m, n)
    PROVE  Lists(s \o IfSet(m, n + 1), m, n + 1)
  <1> DEFINE r == s \o IfSet(m, n + 1)
  <1>0. s \in Seq(Nat) /\ Len(s) \in Nat
    BY DEF Lists
  <1>1. CASE \E f \in m.bits : f.number = n + 1
    <2>1. IfSet(m, n + 1) = <<n + 1>>
      BY <1>1 DEF IfSet
    <2>2. <<n + 1>> \in Seq(Nat) /\ Len(<<n + 1>>) = 1 /\ <<n + 1>>[1] = n + 1
      OBVIOUS
    <2>3. /\ r \in Seq(Nat) /\ Len(r) = Len(s) + 1
          /\ \A i \in 1 .. Len(s) + 1 : r[i] = IF i <= Len(s) THEN s[i] ELSE <<n + 1>>[i - Len(s)]
      <3> DEFINE q == <<n + 1>>
      <3>1. q \in Seq(Nat) /\ Len(q) = 1 /\ r = s \o q
        BY <2>1, <2>2
      <3> HIDE DEF q, r
      <3>2. /\ r \in Seq(Nat) /\ Len(r) = Len(s) + 1
            /\ \A i \in 1 .. Len(s) + 1 : r[i] = IF i <= Len(s) THEN s[i] ELSE q[i - Len(s)]
        <4>1. /\ s \o q \in Seq(Nat) /\ Len(s \o q) = Len(s) + Len(q)
              /\ \A i \in 1 .. Len(s) + Len(q) :
                    (s \o q)[i] = IF i <= Len(s) THEN s[i] ELSE q[i - Len(s)]
          BY <1>0, <3>1, ConcatProperties, Zenon
        <4> QED BY <3>1, <4>1, Zenon
      <3> QED BY <3>2 DEF q
    <2>4. r[Len(s) + 1] = n + 1 /\ \A i \in 1 .. Len(s) : r[i] = s[i]
      BY <1>0, <2>2, <2>3
    <2> HIDE DEF r
    <2>5. \A i \in 1 .. Len(r) : i \in 1 .. Len(s) \/ i = Len(s) + 1
      BY <1>0, <2>3
    <2>6. \A i, j \in 1 .. Len(r) : r[i] = r[j] => i = j
      <3>1. \A i \in 1 .. Len(s) : s[i] # n + 1
        BY DEF Lists
      <3>2. \A i, j \in 1 .. Len(s) : s[i] = s[j] => i = j
        BY DEF Lists
      <3> QED BY <2>4, <2>5, <3>1, <3>2
    <2>7. \A i \in 1 .. Len(r) : r[i] \in 1 .. n + 1 /\ \E f \in m.bits : f.number = r[i]
      BY <1>1, <2>4, <2>5 DEF Lists
    <2>8. ASSUME NEW f \in m.bits, f.number \in 1 .. n + 1
          PROVE  \E i \in 1 .. Len(r) : r[i] = f.number
      <3>1. CASE f.number \in 1 .. n
        <4>1. PICK i \in 1 .. Len(s) : s[i] = f.number
          BY <3>1 DEF Lists
        <4> QED BY <1>0, <2>3, <2>4, <4>1
      <3>2. CASE f.number = n + 1
        BY <1>0, <2>3, <2>4, <3>2
      <3> QED BY <2>8, <3>1, <3>2
    <2> QED BY <2>3, <2>6, <2>7, <2>8 DEF Lists, r
  <1>2. CASE ~ \E f \in m.bits : f.number = n + 1
    <2>1. r = s
      BY <1>0, <1>2, ConcatEmptySeq DEF IfSet
    <2>2. \A i \in 1 .. n + 1 : i \in 1 .. n \/ i = n + 1
      OBVIOUS
    <2>3. \A i \in 1 .. n : i \in 1 .. n + 1
      OBVIOUS
    <2> HIDE DEF r
    <2>4. Lists(r, m, n + 1)
      BY <1>2, <2>1, <2>2, <2>3 DEF Lists
    <2> QED BY <2>4 DEF r
  <1> QED BY <1>1, <1>2

LEMMA PresentLists == ASSUME NEW m PROVE Lists(Present(m), m, 7)
  <1>0. Lists(<< >>, m, 0)
    <2>1. << >> \in Seq(Nat) /\ Len(<< >>) = 0
      OBVIOUS
    <2> QED BY <2>1 DEF Lists
  <1> DEFINE s1 == IfSet(m, 1)
             s2 == s1 \o IfSet(m, 2)
             s3 == s2 \o IfSet(m, 3)
             s4 == s3 \o IfSet(m, 4)
             s5 == s4 \o IfSet(m, 5)
             s6 == s5 \o IfSet(m, 6)
             s7 == s6 \o IfSet(m, 7)
  <1>a. Present(m) = s7
    BY DEF Present
  <1>1. Lists(s1, m, 1)
    <2>1. IfSet(m, 1) \in Seq(Nat)
      BY DEF IfSet
    <2>2. << >> \o IfSet(m, 1) = IfSet(m, 1)
      BY <2>1, ConcatEmptySeq
    <2>3. Lists(<< >> \o IfSet(m, 0 + 1), m, 0 + 1)
      BY <1>0, ListsNext
    <2> QED BY <2>2, <2>3
  <1> HIDE DEF s1
  <1>2. Lists(s2, m, 2)
    BY <1>1, ListsNext, 1 + 1 = 2
  <1> HIDE DEF s2
  <1>3. Lists(s3, m, 3)
    BY <1>2, ListsNext, 2 + 1 = 3
  <1> HIDE DEF s3
  <1>4. Lists(s4, m, 4)
    BY <1>3, ListsNext, 3 + 1 = 4
  <1> HIDE DEF s4
  <1>5. Lists(s5, m, 5)
    BY <1>4, ListsNext, 4 + 1 = 5
  <1> HIDE DEF s5
  <1>6. Lists(s6, m, 6)
    BY <1>5, ListsNext, 5 + 1 = 6
  <1> HIDE DEF s6
  <1>7. Lists(s7, m, 7)
    BY <1>6, ListsNext, 6 + 1 = 7
  <1> QED BY <1>a, <1>7

\* _InternalSerialize, of a sound and full record.
LEMMA Serialized ==
    ASSUME class \in Classes, NEW m, NEW B, Sound(m, B), Full(m)
    PROVE  LET s == Serialize(m)
               n == Len(Present(m))
           IN  /\ s \in Seq(Items) /\ n \in Nat /\ Len(s) = n + Len(m.unknown)
               /\ \A i \in 1 .. n : \E f \in m.bits : s[i] = Item(f, m.value[f])
               /\ \A f \in m.bits : \E i \in 1 .. n : s[i] = Item(f, m.value[f])
               /\ \A i, j \in 1 .. n : s[i].number = s[j].number => i = j
               /\ \A i \in n + 1 .. Len(s) : s[i] = m.unknown[i - n]
  <1> DEFINE ns == Present(m)
             n  == Len(ns)
             h  == [i \in DOMAIN ns |-> Item(FieldOf(ns[i]), m.value[FieldOf(ns[i])])]
             s  == Serialize(m)
  <1>1. Lists(ns, m, 7) /\ n \in Nat /\ DOMAIN ns = 1 .. n
    <2>1. Lists(ns, m, 7)
      BY PresentLists
    <2> HIDE DEF ns
    <2> QED BY <2>1 DEF Lists
  <1> HIDE DEF ns
  <1>2. m.bits \subseteq class /\ \A f \in m.bits : FieldOf(f.number) = f
    <2>1. m.bits \subseteq class
      BY DEF Sound, Legal
    <2> QED BY <2>1, OneNumber DEF FieldOf
  <1>3. \A i \in 1 .. n : FieldOf(ns[i]) \in m.bits /\ FieldOf(ns[i]).number = ns[i]
    BY <1>1, <1>2 DEF Lists
  <1>4. \A f \in m.bits : Item(f, m.value[f]) \in Items
    BY <1>2 DEF Full, Items
  <1>5. h \in Seq(Items) /\ Len(h) = n
    <2>1. h \in [1 .. n -> Items]
      BY <1>1, <1>3, <1>4
    <2> HIDE DEF h
    <2> QED BY <1>1, <2>1
  <1>6. m.unknown \in Seq(Items)
    BY DEF Full, Unknowns
  <1>7. /\ s \in Seq(Items) /\ Len(s) = n + Len(m.unknown)
        /\ \A i \in 1 .. n + Len(m.unknown) : s[i] = IF i <= n THEN h[i] ELSE m.unknown[i - n]
    <2>1. s = h \o m.unknown
      BY DEF Serialize, ns
    <2> HIDE DEF h, s
    <2>2. /\ h \o m.unknown \in Seq(Items) /\ Len(h \o m.unknown) = Len(h) + Len(m.unknown)
          /\ \A i \in 1 .. Len(h) + Len(m.unknown) :
                (h \o m.unknown)[i] = IF i <= Len(h) THEN h[i] ELSE m.unknown[i - Len(h)]
      BY <1>5, <1>6, ConcatProperties, Zenon
    <2> QED BY <1>5, <2>1, <2>2, Zenon
  <1> HIDE DEF s
  <1>8. Len(m.unknown) \in Nat
    BY <1>6
  <1>9. \A i \in 1 .. n : s[i] = Item(FieldOf(ns[i]), m.value[FieldOf(ns[i])])
    BY <1>1, <1>7, <1>8
  <1>10. \A f \in m.bits : \E i \in 1 .. n : s[i] = Item(f, m.value[f])
    <2> SUFFICES ASSUME NEW f \in m.bits PROVE \E i \in 1 .. n : s[i] = Item(f, m.value[f])
      OBVIOUS
    <2>1. PICK i \in 1 .. n : ns[i] = f.number
      BY <1>1, <1>2, OneNumber DEF Lists
    <2> QED BY <1>2, <1>9, <2>1
  <1>11. \A i \in 1 .. n : s[i].number = ns[i]
    <2>1. \A f, v : Item(f, v).number = f.number
      BY DEF Item
    <2> QED BY <1>3, <1>9, <2>1
  <1>12. \A i, j \in 1 .. n : s[i].number = s[j].number => i = j
    BY <1>1, <1>11 DEF Lists
  <1>13. \A i \in n + 1 .. Len(s) : s[i] = m.unknown[i - n]
    BY <1>1, <1>7, <1>8
  <1>14. \A i \in 1 .. n : \E f \in m.bits : s[i] = Item(f, m.value[f])
    BY <1>3, <1>9
  <1> QED BY <1>1, <1>7, <1>10, <1>12, <1>13, <1>14 DEF s, ns

-----------------------------------------------------------------------------
(***************************************************************************)
(* What is left of a message that is on its way.  s begins with n items,   *)
(* those of the fields of m that t, the object parsed into, does not have  *)
(* yet (done are those it has), and ends with the unknown items of m that  *)
(* t does not have.                                                        *)
(***************************************************************************)
Remains(m, n, t, done, s) ==
    /\ done \subseteq m.bits
    /\ \A f \in done : t.value[f] = m.value[f]
    /\ \A i \in 1 .. n : \E f \in m.bits \ done : s[i] = Item(f, m.value[f])
    /\ \A f \in m.bits \ done : \E i \in 1 .. n : s[i] = Item(f, m.value[f])
    /\ \A i, j \in 1 .. n : s[i].number = s[j].number => i = j
    /\ n > 0 => t.unknown = << >>
    /\ Len(m.unknown) = Len(t.unknown) + Len(s) - n
    /\ \A i \in 1 .. Len(t.unknown) : t.unknown[i] = m.unknown[i]
    /\ \A i \in n + 1 .. Len(s) : s[i] = m.unknown[Len(t.unknown) + i - n]

LEMMA ItemParts ==
    \A f, v : /\ Item(f, v).number = f.number /\ Item(f, v).wire = Wire(f)
              /\ Item(f, v).val = v /\ Item(f, v).cut = FALSE
  BY DEF Item

\* A field the first item is of is one the object does not have.
LEMMA HeadIsField ==
    ASSUME class \in Classes, NEW m, m.bits \subseteq class, NEW s \in Seq(Items),
           NEW n \in 1 .. Len(s), NEW t, NEW done, Remains(m, n, t, done, s)
    PROVE  \E f \in m.bits \ done : /\ Head(s) = Item(f, m.value[f])
                                    /\ \A g \in class : g.number = Head(s).number => g = f
  <1>1. Head(s) = s[1] /\ 1 \in 1 .. n
    OBVIOUS
  <1>2. PICK f \in m.bits \ done : Head(s) = Item(f, m.value[f])
    BY <1>1 DEF Remains
  <1>3. \A g \in class : g.number = Head(s).number => g = f
    BY <1>2, ItemParts, OneNumber
  <1> QED BY <1>2, <1>3

\* The object takes the field of the first item.
LEMMA FieldTaken ==
    ASSUME class \in Classes, NEW m, m.bits \subseteq class, NEW s \in Seq(Items),
           NEW n \in 1 .. Len(s), NEW t, NEW done, Remains(m, n, t, done, s),
           NEW f \in m.bits \ done, Head(s) = Item(f, m.value[f]),
           NEW u, u.unknown = t.unknown, u.value[f] = m.value[f],
           \A g \in done : u.value[g] = t.value[g]
    PROVE  Remains(m, n - 1, u, done \cup {f}, Tail(s))
  <1> DEFINE r == Tail(s)
             more == done \cup {f}
  <1>1. /\ Len(s) \in Nat /\ n \in Nat /\ n > 0 /\ Len(r) = Len(s) - 1 /\ s[1] = Head(s)
        /\ \A i \in 1 .. Len(s) - 1 : r[i] = s[i + 1]
    OBVIOUS
  <1>2. \A i \in 1 .. n - 1 : r[i] = s[i + 1] /\ i + 1 \in 1 .. n /\ i + 1 # 1
    BY <1>1
  <1>3. s[1].number = f.number /\ 1 \in 1 .. n
    BY <1>1, ItemParts
  <1> HIDE DEF r
  <1>4. more \subseteq m.bits /\ \A g \in more : u.value[g] = m.value[g]
    BY DEF Remains
  <1>5. \A i \in 1 .. n - 1 : \E g \in m.bits \ more : r[i] = Item(g, m.value[g])
    <2> SUFFICES ASSUME NEW i \in 1 .. n - 1
                 PROVE  \E g \in m.bits \ more : r[i] = Item(g, m.value[g])
      OBVIOUS
    <2>1. PICK g \in m.bits \ done : s[i + 1] = Item(g, m.value[g])
      BY <1>2 DEF Remains
    <2>2. s[i + 1].number # s[1].number
      BY <1>2, <1>3 DEF Remains
    <2>3. g # f
      BY <1>3, <2>1, <2>2, ItemParts
    <2> QED BY <1>2, <2>1, <2>3
  <1>6. \A g \in m.bits \ more : \E i \in 1 .. n - 1 : r[i] = Item(g, m.value[g])
    <2> SUFFICES ASSUME NEW g \in m.bits \ more
                 PROVE  \E i \in 1 .. n - 1 : r[i] = Item(g, m.value[g])
      OBVIOUS
    <2>1. PICK i \in 1 .. n : s[i] = Item(g, m.value[g])
      BY DEF Remains
    <2>2. i # 1
      <3>1. g.number # f.number
        BY OneNumber
      <3> QED BY <1>3, <2>1, <3>1, ItemParts
    <2>3. i - 1 \in 1 .. n - 1 /\ r[i - 1] = s[i]
      <3>1. i - 1 \in 1 .. n - 1 /\ (i - 1) + 1 = i
        BY <1>1, <2>2
      <3> QED BY <1>2, <3>1
    <2> QED BY <2>1, <2>3
  <1>7. \A i, j \in 1 .. n - 1 : r[i].number = r[j].number => i = j
    <2> SUFFICES ASSUME NEW i \in 1 .. n - 1, NEW j \in 1 .. n - 1, r[i].number = r[j].number
                 PROVE  i = j
      OBVIOUS
    <2>1. \A a, b \in 1 .. n : s[a].number = s[b].number => a = b
      BY DEF Remains
    <2>2. s[i + 1].number = s[j + 1].number /\ i + 1 \in 1 .. n /\ j + 1 \in 1 .. n
      BY <1>2
    <2>3. i + 1 = j + 1
      BY <2>1, <2>2
    <2> QED BY <2>3
  <1>8. t.unknown = << >> /\ u.unknown = << >> /\ Len(u.unknown) = 0
    BY <1>1 DEF Remains
  <1>9. Len(m.unknown) = Len(u.unknown) + Len(r) - (n - 1)
    <2>1. Len(m.unknown) = 0 + Len(s) - n
      BY <1>8 DEF Remains
    <2> QED BY <1>1, <1>8, <2>1
  <1>10. \A i \in (n - 1) + 1 .. Len(r) : r[i] = m.unknown[Len(u.unknown) + i - (n - 1)]
    <2> SUFFICES ASSUME NEW i \in n .. Len(s) - 1 PROVE r[i] = m.unknown[0 + i - (n - 1)]
      BY <1>1, <1>8
    <2>1. i + 1 \in n + 1 .. Len(s) /\ i \in 1 .. Len(s) - 1 /\ 0 + (i + 1) - n = 0 + i - (n - 1)
      BY <1>1
    <2>2. s[i + 1] = m.unknown[0 + (i + 1) - n]
      BY <1>8, <2>1 DEF Remains
    <2> QED BY <1>1, <2>1, <2>2
  <1>11. \A i \in 1 .. Len(u.unknown) : u.unknown[i] = m.unknown[i]
    BY <1>8
  <1> QED BY <1>4, <1>5, <1>6, <1>7, <1>8, <1>9, <1>10, <1>11 DEF Remains, r

\* The object takes an unknown item.
LEMMA UnknownTaken ==
    ASSUME NEW m, NEW s \in Seq(Items), s # << >>, NEW t, NEW done, Remains(m, 0, t, done, s),
           m.unknown \in Seq(Unknowns), t.unknown \in Seq(Unknowns),
           NEW u, u.unknown = Append(t.unknown, Head(s)), u.value = t.value
    PROVE  Head(s) \in Unknowns /\ Remains(m, 0, u, done, Tail(s))
  <1> DEFINE k == Len(t.unknown)
             r == Tail(s)
  <1>1. /\ k \in Nat /\ Len(s) \in Nat /\ Len(s) > 0 /\ Len(r) = Len(s) - 1 /\ s[1] = Head(s)
        /\ \A i \in 1 .. Len(s) - 1 : r[i] = s[i + 1]
    OBVIOUS
  <1>2. Len(m.unknown) = k + Len(s) - 0
    BY DEF Remains
  <1>3. Head(s) = m.unknown[k + 1]
    <2>1. 1 \in 0 + 1 .. Len(s)
      BY <1>1
    <2>2. s[1] = m.unknown[k + 1 - 0]
      BY <2>1 DEF Remains
    <2> QED BY <1>1, <2>2
  <1>4. Head(s) \in Unknowns
    <2>1. k + 1 \in 1 .. Len(m.unknown)
      BY <1>1, <1>2
    <2> QED BY <1>3, <2>1
  <1>5. /\ Len(u.unknown) = k + 1 /\ u.unknown[k + 1] = Head(s)
        /\ \A i \in 1 .. k : u.unknown[i] = t.unknown[i]
    BY <1>4, AppendProperties
  <1> HIDE DEF r, k
  <1>6. \A i \in 1 .. k + 1 : u.unknown[i] = m.unknown[i]
    <2>1. \A i \in 1 .. k : t.unknown[i] = m.unknown[i]
      BY DEF Remains, k
    <2>2. \A i \in 1 .. k + 1 : i \in 1 .. k \/ i = k + 1
      BY <1>1
    <2> QED BY <1>3, <1>5, <2>1, <2>2
  <1>7. \A i \in 0 + 1 .. Len(r) : r[i] = m.unknown[(k + 1) + i - 0]
    <2>0. 0 + 1 .. Len(r) = 1 .. Len(s) - 1
      BY <1>1
    <2> SUFFICES ASSUME NEW i \in 1 .. Len(s) - 1 PROVE r[i] = m.unknown[(k + 1) + i - 0]
      BY <2>0
    <2>1. i + 1 \in 0 + 1 .. Len(s) /\ k + (i + 1) - 0 = (k + 1) + i - 0
      BY <1>1
    <2>2. s[i + 1] = m.unknown[k + (i + 1) - 0]
      BY <2>1 DEF Remains, k
    <2> QED BY <1>1, <2>1, <2>2
  <1>8. Len(m.unknown) = (k + 1) + Len(r) - 0
    BY <1>1, <1>2
  <1>9. \A f \in m.bits \ done : \E i \in 1 .. 0 : r[i] = Item(f, m.value[f])
    BY DEF Remains
  <1>10. \A i \in 1 .. 0 : FALSE
    OBVIOUS
  <1>11. done \subseteq m.bits /\ \A f \in done : u.value[f] = m.value[f]
    BY DEF Remains
  <1>12. ~(0 > 0)
    OBVIOUS
  <1>13. Remains(m, 0, u, done, r)
    BY ONLY <1>5, <1>6, <1>7, <1>8, <1>9, <1>10, <1>11, <1>12 DEF Remains
  <1> QED BY <1>4, <1>13 DEF r

-----------------------------------------------------------------------------
\* While a message that was serialized is parsed, what the object has and
\* what is left make up the message; afterwards the object is the message.
Done(t) == t.bits \cup has_bits
SentInv ==
    \A m \in sent :
        /\ Sound(m, {}) /\ Full(m) /\ parsing # "broken"
        /\ parsing = "items" =>
              \E n \in 0 .. Len(input) : Remains(m, n, msg[target], Done(msg[target]), input)
        /\ parsing \in {"true", "false"} =>
              msg[target] = m /\ (parsing = "true" <=> IsInitialized(m))

LEMMA SameItems ==
    ASSUME UNCHANGED <<class, touched>>
    PROVE  /\ Items' = Items /\ Unknowns' = Unknowns
           /\ \A m, B : Sound(m, B)' <=> Sound(m, B)
           /\ \A m : (Full(m)' <=> Full(m)) /\ (IsInitialized(m)' <=> IsInitialized(m))
  <1>1. Items' = Items
    BY DEF Items, Strange
  <1>2. Unknowns' = Unknowns
    BY <1>1 DEF Unknowns, IsUnknown
  <1>3. \A m, B : Sound(m, B)' <=> Sound(m, B)
    BY DEF Sound, Legal
  <1>4. \A m : (Full(m)' <=> Full(m)) /\ (IsInitialized(m)' <=> IsInitialized(m))
    BY <1>2 DEF Full, IsInitialized, MissingRequiredFields, Required
  <1> QED BY <1>1, <1>2, <1>3, <1>4

\* A call that makes one object full.
LEMMA MakesCarries ==
    ASSUME IInv, Carried, NEW o \in Objects, NEW m, Makes(o, m), Full(m)
    PROVE  Carried' /\ SentInv'
  <1>1. UNCHANGED <<class, touched>> /\ input' = << >> /\ sent' = {}
    BY DEF Makes, Rest
  <1>2. \A p \in Objects : Full(msg'[p])
    BY DEF Makes, IInv, Objs, Carried
  <1>3. << >> \in Seq(Items')
    OBVIOUS
  <1>4. \A p \in Objects : Full(msg[p])'
    BY <1>1, <1>2, SameItems DEF Full
  <1> QED BY <1>1, <1>3, <1>4 DEF Carried, SentInv

\* A step of the parser that leaves its object full.
LEMMA ParserCarries ==
    ASSUME IInv, Carried, NEW m, Into(m), Full(m), input' \in Seq(Items),
           UNCHANGED <<class, touched>>
    PROVE  Carried' /\ msg'[target] = m
  <1>1. msg'[target] = m /\ \A p \in Objects : Full(msg'[p])
    BY DEF Into, IInv, Objs, Carried
  <1>2. \A p \in Objects : Full(msg[p])'
    BY <1>1, SameItems DEF Full
  <1>3. input' \in Seq(Items')
    BY SameItems
  <1> QED BY <1>1, <1>2, <1>3 DEF Carried

\* The first item of a message that was sent: a field the object does not
\* have, or something unknown.
LEMMA WhatComes ==
    ASSUME IInv, Carried, SentInv, parsing = "items", input # << >>, NEW m \in sent
    PROVE  \E n \in 0 .. Len(input) :
              /\ Remains(m, n, msg[target], Done(msg[target]), input)
              /\ n = 0 => Head(input) \in Unknowns
              /\ n # 0 => \E f \in m.bits \ Done(msg[target]) :
                             /\ Head(input) = Item(f, m.value[f])
                             /\ \A g \in class : g.number = Head(input).number => g = f
  <1>1. PICK n \in 0 .. Len(input) : Remains(m, n, msg[target], Done(msg[target]), input)
    BY DEF SentInv
  <1>2. /\ class \in Classes /\ m.bits \subseteq class /\ input \in Seq(Items)
        /\ m.unknown \in Seq(Unknowns) /\ msg[target].unknown \in Seq(Unknowns)
    BY DEF IInv, SentInv, Sound, Legal, Carried, Full
  <1>3. ASSUME n = 0 PROVE Head(input) \in Unknowns
    <2> DEFINE u == [value |-> msg[target].value,
                     unknown |-> Append(msg[target].unknown, Head(input))]
    <2>1. u.value = msg[target].value /\ u.unknown = Append(msg[target].unknown, Head(input))
      OBVIOUS
    <2> HIDE DEF u
    <2> QED BY <1>1, <1>2, <1>3, <2>1, UnknownTaken
  <1>4. ASSUME n # 0
        PROVE  \E f \in m.bits \ Done(msg[target]) :
                  /\ Head(input) = Item(f, m.value[f])
                  /\ \A g \in class : g.number = Head(input).number => g = f
    <2>1. n \in 1 .. Len(input)
      BY <1>2, <1>4
    <2> QED BY <1>1, <1>2, <2>1, HeadIsField
  <1> QED BY <1>1, <1>3, <1>4

\* Neither is cut off or ends a group.
LEMMA NothingStops ==
    ASSUME IInv, Carried, SentInv, parsing = "items", input # << >>, sent # {}
    PROVE  ~Head(input).cut /\ (Unusual(Head(input)) => ~Stops(Head(input)))
  <1>1. PICK m \in sent : TRUE
    OBVIOUS
  <1>2. CASE Head(input) \in Unknowns
    BY <1>2 DEF Unknowns, IsUnknown, Stops
  <1>3. ASSUME NEW f \in m.bits, Head(input) = Item(f, m.value[f])
        PROVE  ~Head(input).cut /\ ~Unusual(Head(input))
    <2>1. f \in class
      BY DEF SentInv, Sound, Legal
    <2> QED BY <1>3, <2>1, ItemParts DEF Unusual
  <1> QED BY <1>1, <1>2, <1>3, WhatComes

\* The object takes a field: SentInv holds after.
LEMMA FieldArrives ==
    ASSUME IInv, Carried, SentInv, NEW f \in class, Takes(f), NEW u, msg'[target] = u,
           Advances(Head(input).cut), Head(input) \notin Unknowns,
           ~Head(input).cut => /\ u.unknown = msg[target].unknown
                               /\ u.value[f] = Head(input).val
                               /\ \A g \in class \ {f} : u.value[g] = msg[target].value[g]
                               /\ u.bits \cup has_bits' = Done(msg[target]) \cup {f}
    PROVE  SentInv'
  <1>1. /\ input' = Tail(input) /\ UNCHANGED <<class, touched, target, sent>>
        /\ parsing = "items" /\ input # << >> /\ f.number = Head(input).number
        /\ parsing' = IF Head(input).cut THEN "broken" ELSE "items"
    BY DEF Advances, Takes
  <1> SUFFICES ASSUME NEW m \in sent
               PROVE  /\ parsing' = "items"
                      /\ \E n \in 0 .. Len(input') :
                            Remains(m, n, u, u.bits \cup has_bits', input')
    <2>1. \A m \in sent : (Sound(m, {}) /\ Full(m))'
      BY <1>1, SameItems DEF SentInv
    <2>2. Done(msg[target])' = u.bits \cup has_bits'
      BY <1>1 DEF Done
    <2> QED BY <1>1, <2>1, <2>2 DEF SentInv
  <1>2. ~Head(input).cut /\ parsing' = "items"
    BY <1>1, NothingStops
  <1>3. PICK n \in 0 .. Len(input) :
              /\ Remains(m, n, msg[target], Done(msg[target]), input)
              /\ n # 0 /\ f \in m.bits \ Done(msg[target])
              /\ Head(input) = Item(f, m.value[f])
    BY <1>1, WhatComes
  <1>4. /\ class \in Classes /\ m.bits \subseteq class /\ input \in Seq(Items)
        /\ n \in 1 .. Len(input) /\ n - 1 \in 0 .. Len(Tail(input))
    <2>1. class \in Classes /\ m.bits \subseteq class /\ input \in Seq(Items)
      BY DEF IInv, SentInv, Sound, Legal, Carried
    <2> QED BY <1>1, <1>3, <2>1
  <1>5. /\ u.unknown = msg[target].unknown /\ u.value[f] = m.value[f]
        /\ u.bits \cup has_bits' = Done(msg[target]) \cup {f}
        /\ \A g \in Done(msg[target]) : u.value[g] = msg[target].value[g]
    <2>1. u.value[f] = m.value[f]
      BY <1>2, <1>3, ItemParts
    <2>2. Done(msg[target]) \subseteq class \ {f}
      BY <1>3, <1>4 DEF Remains
    <2> QED BY <1>2, <2>1, <2>2
  <1>6. Remains(m, n - 1, u, Done(msg[target]) \cup {f}, Tail(input))
    <2>1. PICK s, t : s = input /\ t = msg[target]
      OBVIOUS
    <2>2. PICK d : d = Done(t)
      OBVIOUS
    <2>3. Remains(m, n - 1, u, d \cup {f}, Tail(s))
      <3>1. Remains(m, n, t, d, s) /\ f \in m.bits \ d /\ Head(s) = Item(f, m.value[f])
        BY <1>3, <2>1, <2>2
      <3>2. /\ class \in Classes /\ m.bits \subseteq class /\ s \in Seq(Items) /\ n \in 1 .. Len(s)
            /\ u.unknown = t.unknown /\ u.value[f] = m.value[f]
            /\ \A g \in d : u.value[g] = t.value[g]
        BY <1>4, <1>5, <2>1, <2>2
      <3> QED BY ONLY <3>1, <3>2, FieldTaken
    <2> QED BY <2>1, <2>2, <2>3
  <1> QED BY <1>1, <1>2, <1>4, <1>5, <1>6

\* The object takes an unknown item: SentInv holds after.
LEMMA UnknownArrives ==
    ASSUME IInv, Carried, SentInv, parsing = "items", input # << >>, Advances(FALSE),
           NEW u, msg'[target] = u, u.value = msg[target].value, u.bits = msg[target].bits,
           u.unknown = Append(msg[target].unknown, Head(input)), UNCHANGED has_bits,
           \A m \in sent : \A f \in m.bits : Head(input) # Item(f, m.value[f])
    PROVE  SentInv'
  <1>1. /\ input' = Tail(input) /\ UNCHANGED <<class, touched, target, sent>>
        /\ parsing' = "items"
    BY DEF Advances
  <1> SUFFICES ASSUME NEW m \in sent
               PROVE  \E n \in 0 .. Len(input') : Remains(m, n, u, Done(msg[target]), input')
    <2>1. \A m \in sent : (Sound(m, {}) /\ Full(m))'
      BY <1>1, SameItems DEF SentInv
    <2>2. Done(msg[target])' = Done(msg[target])
      BY <1>1 DEF Done
    <2> QED BY <1>1, <2>1, <2>2 DEF SentInv
  <1>2. Remains(m, 0, msg[target], Done(msg[target]), input)
    BY WhatComes
  <1>3. /\ m.unknown \in Seq(Unknowns) /\ msg[target].unknown \in Seq(Unknowns)
        /\ input \in Seq(Items)
    BY DEF IInv, SentInv, Full, Carried
  <1>4. Remains(m, 0, u, Done(msg[target]), Tail(input)) /\ 0 \in 0 .. Len(Tail(input))
    <2>1. PICK s, t : s = input /\ t = msg[target]
      OBVIOUS
    <2>2. PICK d : d = Done(t)
      OBVIOUS
    <2>3. Remains(m, 0, u, d, Tail(s))
      <3>1. /\ Remains(m, 0, t, d, s) /\ s \in Seq(Items) /\ s # << >>
            /\ m.unknown \in Seq(Unknowns) /\ t.unknown \in Seq(Unknowns)
            /\ u.unknown = Append(t.unknown, Head(s)) /\ u.value = t.value
        BY <1>2, <1>3, <2>1, <2>2
      <3> QED BY ONLY <3>1, UnknownTaken
    <2>4. 0 \in 0 .. Len(Tail(s))
      BY <1>3, <2>1
    <2> QED BY <2>1, <2>2, <2>3, <2>4
  <1> QED BY <1>1, <1>4

\* What set_ and the parser write into a sound record.
Write(m, f, v) == [m EXCEPT !.value[f] = v]
LEMMA Written ==
    ASSUME NEW m, NEW B, Sound(m, B), NEW f \in class, NEW v
    PROVE  /\ set(m, f, v).value = [g \in class |-> IF g = f THEN v ELSE m.value[g]]
           /\ set(m, f, v).bits = m.bits \cup {f} /\ set(m, f, v).unknown = m.unknown
           /\ Write(m, f, v).value = [g \in class |-> IF g = f THEN v ELSE m.value[g]]
           /\ Write(m, f, v).bits = m.bits /\ Write(m, f, v).unknown = m.unknown
  <1> DEFINE w == [m.value EXCEPT ![f] = v]
  <1>1. w = [g \in class |-> IF g = f THEN v ELSE m.value[g]]
    BY DEF Sound, Legal
  <1>2. /\ set(m, f, v).bits = m.bits \cup {f} /\ set(m, f, v).unknown = m.unknown
        /\ set(m, f, v).value = w
    BY DEF set
  <1>3. m = [bits |-> m.bits, value |-> m.value, unknown |-> m.unknown]
    BY DEF Sound, Shape
  <1>4. Write(m, f, v) = [bits |-> m.bits, value |-> w, unknown |-> m.unknown]
    BY <1>3 DEF Write
  <1> QED BY <1>1, <1>2, <1>4

\* The parse of a message that was just serialized has all of it to do.
LEMMA SentBegins ==
    ASSUME class \in Classes, NEW m, Sound(m, {}), Full(m), NEW t, t.unknown = << >>
    PROVE  \E n \in 0 .. Len(Serialize(m)) : Remains(m, n, t, {}, Serialize(m))
  <1> DEFINE s == Serialize(m)
             n == Len(Present(m))
  <1>1. /\ s \in Seq(Items) /\ n \in Nat /\ Len(s) = n + Len(m.unknown)
        /\ \A i \in 1 .. n : \E f \in m.bits : s[i] = Item(f, m.value[f])
        /\ \A f \in m.bits : \E i \in 1 .. n : s[i] = Item(f, m.value[f])
        /\ \A i, j \in 1 .. n : s[i].number = s[j].number => i = j
        /\ \A i \in n + 1 .. Len(s) : s[i] = m.unknown[i - n]
    BY Serialized
  <1>2. Len(m.unknown) \in Nat
    BY DEF Full
  <1> HIDE DEF s, n
  <1>3. n \in 0 .. Len(s)
    BY <1>1, <1>2
  <1>4. Len(t.unknown) = 0 /\ \A i \in 1 .. Len(t.unknown) : FALSE
    OBVIOUS
  <1>5. Len(m.unknown) = Len(t.unknown) + Len(s) - n
    BY <1>1, <1>2, <1>4
  <1>6. \A i \in n + 1 .. Len(s) : s[i] = m.unknown[Len(t.unknown) + i - n]
    <2>1. \A i \in n + 1 .. Len(s) : Len(t.unknown) + i - n = i - n
      BY <1>1, <1>2, <1>4
    <2> QED BY <1>1, <2>1
  <1>7. m.bits \ {} = m.bits
    OBVIOUS
  <1>8. Remains(m, n, t, {}, s)
    BY <1>1, <1>4, <1>5, <1>6, <1>7 DEF Remains
  <1> QED BY <1>3, <1>8 DEF s

\* And when nothing is left of it the object is the message.
LEMMA Arrived ==
    ASSUME NEW m, Sound(m, {}), Full(m), NEW t, NEW B, Sound(t, B), Full(t),
           Remains(m, 0, t, t.bits \cup B, << >>)
    PROVE  [t EXCEPT !.bits = @ \cup B] = m
  <1>1. t.bits \cup B = m.bits
    BY DEF Remains
  <1>2. t.unknown = m.unknown
    <2>1. t.unknown \in Seq(Unknowns) /\ m.unknown \in Seq(Unknowns)
      BY DEF Full
    <2>2. Len(m.unknown) = Len(t.unknown)
      <3>1. Len(m.unknown) = Len(t.unknown) + 0 - 0
        BY DEF Remains
      <3> QED BY <2>1, <3>1
    <2>3. \A i \in 1 .. Len(t.unknown) : t.unknown[i] = m.unknown[i]
      BY DEF Remains
    <2> QED BY <2>1, <2>2, <2>3
  <1>3. \A f \in class : t.value[f] = m.value[f]
    BY <1>1 DEF Sound, Remains
  <1>4. t.value = m.value
    BY <1>3 DEF Sound, Legal
  <1>5. m = [bits |-> m.bits, value |-> m.value, unknown |-> m.unknown]
    BY DEF Sound, Shape
  <1>6. t = [bits |-> t.bits, value |-> t.value, unknown |-> t.unknown]
    BY DEF Sound, Shape
  <1> QED BY <1>1, <1>2, <1>4, <1>5, <1>6

LEMMA CarryStep ==
    ASSUME IInv, Carried, SentInv, [Next]_vars
    PROVE  Carried' /\ SentInv'
  <1>0. /\ class \in Classes /\ touched \subseteq class /\ target \in Objects
        /\ has_bits \subseteq class /\ input \in Seq(Items)
        /\ \A o \in Objects : Full(msg[o])
        /\ \A f \in class : Default(f) \in Values(f) /\ Used(f) \subseteq Values(f)
    BY OneNumber DEF IInv, Carried
  <1>1. ASSUME AtRest, NEW o \in Objects PROVE Sound(msg[o], {})
    BY <1>1 DEF IInv, Pending
  <1>2. Sound(msg[target], has_bits)
    BY <1>0 DEF IInv, Pending
  \* The calls of the program.
  <1>3. ASSUME NEW o \in Objects, construct(o) PROVE Carried' /\ SentInv'
    BY <1>0, <1>3, NewFull, MakesCarries DEF construct
  <1>4. ASSUME NEW o \in Objects, set_field(o) PROVE Carried' /\ SentInv'
    <2>1. PICK f \in touched : \E v \in Used(f) : Makes(o, set(msg[o], f, v))
      BY <1>4 DEF set_field
    <2>2. PICK v \in Used(f) : Makes(o, set(msg[o], f, v))
      BY <2>1
    <2>3. f \in class /\ v \in Values(f) /\ Sound(msg[o], {})
      BY <1>0, <1>1, <2>2 DEF Makes
    <2> QED BY <1>0, <2>2, <2>3, SetFull, MakesCarries
  <1>5. ASSUME NEW o \in Objects, clear_field(o) PROVE Carried' /\ SentInv'
    <2>1. PICK f \in touched : Makes(o, clear(msg[o], f))
      BY <1>5 DEF clear_field
    <2> QED BY <1>0, <1>1, <2>1, ClearFieldFull, MakesCarries DEF Makes
  <1>6. ASSUME NEW o \in Objects, clears(o) PROVE Carried' /\ SentInv'
    BY <1>0, <1>6, ClearFull, MakesCarries DEF clears
  <1>7. ASSUME NEW o \in Objects, NEW p \in Objects, copies(o, p) PROVE Carried' /\ SentInv'
    BY <1>0, <1>1, <1>7, CopyFull, MakesCarries DEF copies, Makes
  <1>8. ASSUME NEW o \in Objects, NEW p \in Objects, assigns(o, p) PROVE Carried' /\ SentInv'
    <2>1. Full(CopyFrom(msg[o], msg[p]))
      BY <1>0, ClearFull, MergeFull DEF CopyFrom
    <2> QED BY <1>8, <2>1, MakesCarries DEF assigns
  <1>9. ASSUME NEW o \in Objects, NEW p \in Objects, merges(o, p) PROVE Carried' /\ SentInv'
    BY <1>0, <1>9, MergeFull, MakesCarries DEF merges
  <1>10. ASSUME NEW o \in Objects, NEW p \in Objects, InternalSwap(o, p)
         PROVE  Carried' /\ SentInv'
    <2>1. /\ msg' = [msg EXCEPT ![o] = msg[p], ![p] = msg[o]]
          /\ UNCHANGED <<class, touched>> /\ input' = << >> /\ sent' = {}
      BY <1>10 DEF InternalSwap, Rest
    <2>2. \A q \in Objects : Full(msg'[q])
      BY <1>0, <2>1 DEF IInv, Objs
    <2>3. \A q \in Objects : Full(msg[q])'
      BY <2>1, <2>2, SameItems DEF Full
    <2>4. << >> \in Seq(Items')
      OBVIOUS
    <2> QED BY <2>1, <2>3, <2>4 DEF Carried, SentInv
  \* A parse begins.
  <1>11. ASSUME NEW p \in Objects, NEW items \in Seq(Items), Parse(p, items)
         PROVE  /\ Carried' /\ UNCHANGED <<class, touched>>
                /\ input' = items /\ target' = p /\ has_bits' = {} /\ parsing' = "items"
                /\ msg'[p] = Clear(msg[p]) /\ Clear(msg[p]).bits = {}
                /\ Clear(msg[p]).unknown = << >>
    <2>1. /\ AtRest /\ msg' = [msg EXCEPT ![p] = Clear(msg[p])]
          /\ UNCHANGED <<class, touched>>
          /\ input' = items /\ target' = p /\ has_bits' = {} /\ parsing' = "items"
      BY <1>11 DEF Parse
    <2>2. msg'[p] = Clear(msg[p]) /\ \A q \in Objects : Full(msg'[q])
      BY <1>0, <2>1, ClearFull DEF IInv, Objs
    <2>3. \A q \in Objects : Full(msg[q])'
      BY <2>1, <2>2, SameItems DEF Full
    <2>4. Carried'
      BY <2>1, <2>3, SameItems DEF Carried
    <2>5. Clear(msg[p]).bits = {} /\ Clear(msg[p]).unknown = << >>
      BY DEF Clear
    <2> QED BY <2>1, <2>2, <2>4, <2>5
  <1>12. ASSUME NEW o \in Objects, NEW p \in Objects, receives(o, p)
         PROVE  Carried' /\ SentInv'
    <2>1. PICK m : m = msg[o]
      OBVIOUS
    <2>2. PICK s : s = Serialize(m)
      OBVIOUS
    <2>3. PICK t : t = Clear(msg[p])
      OBVIOUS
    <2>4. Parse(p, s) /\ sent' = {m} /\ AtRest
      BY <1>12, <2>1, <2>2 DEF receives, Parse
    <2>5. Sound(m, {}) /\ Full(m) /\ s \in Seq(Items)
      BY <1>0, <1>1, <2>1, <2>2, <2>4, Serialized
    <2>6. /\ Carried' /\ UNCHANGED <<class, touched>>
          /\ input' = s /\ target' = p /\ has_bits' = {} /\ parsing' = "items"
          /\ msg'[p] = t /\ t.bits = {} /\ t.unknown = << >>
      BY <1>11, <2>3, <2>4, <2>5
    <2>7. \E n \in 0 .. Len(s) : Remains(m, n, t, {}, s)
      BY <1>0, <2>2, <2>5, <2>6, SentBegins
    <2>8. Done(msg[target])' = {}
      BY <2>6 DEF Done
    <2>9. Sound(m, {})' /\ Full(m)'
      BY <2>5, <2>6, SameItems
    <2> QED BY <2>4, <2>6, <2>7, <2>8, <2>9 DEF SentInv
  <1>13. ASSUME NEW p \in Objects, receivesStrange(p) PROVE Carried' /\ SentInv'
    <2>1. PICK k \in 0 .. MaxStrange : \E items \in [1 .. k -> Strange] : Parse(p, items)
      BY <1>13 DEF receivesStrange
    <2>2. PICK items \in [1 .. k -> Strange] : Parse(p, items)
      BY <2>1
    <2>3. items \in Seq(Items)
      <3>1. k \in Nat /\ items \in [1 .. k -> Items]
        BY MessageAssumption DEF MessageAssumption, Items
      <3> QED BY <3>1
    <2>4. sent' = {}
      BY <1>13 DEF receivesStrange
    <2>5. SentInv'
      BY <2>4 DEF SentInv
    <2> QED BY <1>11, <2>2, <2>3, <2>5
  \* The parser.
  \* An item is kept among the unknown ones.
  <1>14. ASSUME parsing = "items", input # << >>, AsUnknown(Head(input)),
                Head(input) \in Unknowns, Advances(FALSE), has_bits' = has_bits
         PROVE  Carried' /\ SentInv'
    <2>1. PICK t : t = msg[target]
      OBVIOUS
    <2>2. PICK u : u = [t EXCEPT !.unknown = Append(@, Head(input))]
      OBVIOUS
    <2>3. /\ Into(u) /\ UNCHANGED <<class, touched>> /\ input' = Tail(input)
      BY <1>14, <2>1, <2>2 DEF AsUnknown, Advances
    <2>4. Sound(t, has_bits) /\ Full(t)
      BY <1>0, <1>2, <2>1
    <2>5. Full(u)
      BY <1>14, <2>2, <2>4, UnknownFull
    <2>6. u.value = t.value /\ u.bits = t.bits /\ u.unknown = Append(t.unknown, Head(input))
      BY <2>2, <2>4 DEF Sound, Shape
    <2>7. Carried' /\ msg'[target] = u
      <3>1. input' \in Seq(Items)
        BY <1>0, <1>14, <2>3
      <3> QED BY <2>3, <2>5, <3>1, ParserCarries
    <2>8. ASSUME NEW m \in sent, NEW f \in m.bits PROVE Head(input) # Item(f, m.value[f])
      <3>1. f \in class /\ m.value[f] \in Values(f)
        BY DEF SentInv, Sound, Legal, Full
      <3>2. f.kind = "enum" => m.value[f] \in f.valid
        BY <1>0, <3>1, DefaultLegal
      <3> QED BY <1>14, <3>1, <3>2, ItemParts DEF Unknowns, IsUnknown
    <2> QED BY <1>14, <2>1, <2>6, <2>7, <2>8, UnknownArrives
  <1>15. ASSUME NEW f \in class, parseEnum(f) PROVE Carried' /\ SentInv'
    <2>1. /\ Takes(f) /\ f.kind = "enum" /\ has_bits' = has_bits
          /\ Advances(Head(input).cut) /\ UNCHANGED <<class, touched>>
          /\ parsing = "items" /\ input # << >> /\ input' = Tail(input)
          /\ f.number = Head(input).number /\ Wire(f) = Head(input).wire
      BY <1>15 DEF parseEnum, Advances, Takes
    <2>2. input' \in Seq(Items) /\ Head(input) \in Items
      BY <1>0, <2>1
    <2>3. CASE Head(input).cut
      <3>1. UNCHANGED msg
        BY <1>15, <2>3 DEF parseEnum
      <3>2. Into(msg[target])
        BY <1>0, <3>1 DEF Into, IInv, Objs
      <3>3. sent = {} /\ sent' = sent
        BY <2>1, <2>3, NothingStops DEF Advances
      <3>4. Carried'
        BY <1>0, <2>1, <2>2, <3>2, ParserCarries
      <3> QED BY <3>3, <3>4 DEF SentInv
    <2>4. CASE ~Head(input).cut /\ Head(input).val \in f.valid
      <3>1. PICK u : u = set(msg[target], f, Head(input).val)
        OBVIOUS
      <3>2. Into(u)
        BY <1>15, <2>4, <3>1 DEF parseEnum
      <3>3. Full(u)
        BY <1>0, <1>2, <2>1, <2>4, <3>1, SetFull, DefaultLegal
      <3>4. Carried' /\ msg'[target] = u
        BY <2>1, <2>2, <3>2, <3>3, ParserCarries
      <3>5. Head(input) \notin Unknowns
        BY <2>1, <2>4 DEF Unknowns, IsUnknown
      <3>6. /\ u.bits = msg[target].bits \cup {f} /\ u.unknown = msg[target].unknown
            /\ u.value = [g \in class |-> IF g = f THEN Head(input).val ELSE msg[target].value[g]]
        BY <1>2, <3>1, Written
      <3>7. /\ u.bits \cup has_bits' = Done(msg[target]) \cup {f}
            /\ u.value[f] = Head(input).val
            /\ \A g \in class \ {f} : u.value[g] = msg[target].value[g]
        BY <2>1, <3>6 DEF Done
      <3> QED BY <2>1, <3>4, <3>5, <3>6, <3>7, FieldArrives
    <2>5. CASE ~Head(input).cut /\ Head(input).val \notin f.valid
      <3>1. AsUnknown(Head(input))
        BY <1>15, <2>5 DEF parseEnum
      <3>2. Head(input) \in Unknowns
        <4>1. Wire(f) = "varint" /\ ~Stops(Head(input))
          BY <2>1, <2>5 DEF Wire, Stops
        <4>2. \A g \in class : g.number = Head(input).number => g = f
          BY <1>0, <2>1, OneNumber
        <4>3. \A g \in class : g.number = Head(input).number => g.kind = "enum" /\ Head(input).val \notin g.valid
          BY <2>1, <2>5, <4>2
        <4>4. IsUnknown(Head(input))
          BY <4>1, <4>3 DEF IsUnknown
        <4> QED BY <2>2, <4>4 DEF Unknowns
      <3>3. Advances(FALSE)
        BY <2>1, <2>5 DEF Advances
      <3> QED BY <1>14, <2>1, <3>1, <3>2, <3>3
    <2> QED BY <2>3, <2>4, <2>5
  <1>16. ASSUME NEW f \in class, parseNumber(f) PROVE Carried' /\ SentInv'
    <2>1. /\ Takes(f) /\ f.kind # "enum" /\ has_bits' = has_bits \cup {f}
          /\ Advances(Head(input).cut) /\ UNCHANGED <<class, touched>>
          /\ input # << >> /\ input' = Tail(input)
          /\ f.number = Head(input).number /\ Wire(f) = Head(input).wire
      BY <1>16 DEF parseNumber, Advances, Takes
    <2>2. input' \in Seq(Items) /\ Head(input) \in Items
      BY <1>0, <2>1
    <2>3. PICK v \in IF Head(input).cut THEN Used(f) ELSE {Head(input).val} :
             Into(Write(msg[target], f, v))
      BY <1>16 DEF parseNumber, Write
    <2>4. v \in Values(f) /\ (~Head(input).cut => v = Head(input).val)
      BY <1>0, <2>1, <2>2, <2>3, ItemFits
    <2>5. PICK u : u = Write(msg[target], f, v)
      OBVIOUS
    <2>6. /\ u.bits = msg[target].bits /\ u.unknown = msg[target].unknown
          /\ u.value = [g \in class |-> IF g = f THEN v ELSE msg[target].value[g]]
      BY <1>2, <2>5, Written
    <2>7. Full(u)
      BY <1>0, <2>4, <2>6 DEF Full
    <2>8. Carried' /\ msg'[target] = u
      BY <2>1, <2>2, <2>3, <2>5, <2>7, ParserCarries
    <2>9. Head(input) \notin Unknowns
      BY <2>1 DEF Unknowns, IsUnknown
    <2>10. /\ u.bits \cup has_bits' = Done(msg[target]) \cup {f} /\ u.value[f] = v
           /\ \A g \in class \ {f} : u.value[g] = msg[target].value[g]
      BY <2>1, <2>6 DEF Done
    <2> QED BY <2>1, <2>4, <2>6, <2>8, <2>9, <2>10, FieldArrives
  <1>17. ASSUME NEW f \in class, parseString(f) PROVE Carried' /\ SentInv'
    <2>1. /\ Takes(f) /\ f.kind # "enum" /\ has_bits' = has_bits /\ Values(f) = Strings
          /\ Advances(Head(input).cut) /\ UNCHANGED <<class, touched>>
          /\ input # << >> /\ input' = Tail(input)
          /\ f.number = Head(input).number /\ Wire(f) = Head(input).wire
      BY <1>17 DEF parseString, Advances, Takes, Values
    <2>2. input' \in Seq(Items) /\ Head(input) \in Items
      BY <1>0, <2>1
    <2>3. PICK v \in IF Head(input).cut THEN Strings ELSE {Head(input).val} :
             Into(set(msg[target], f, v))
      BY <1>17 DEF parseString
    <2>4. v \in Values(f) /\ (~Head(input).cut => v = Head(input).val)
      BY <1>0, <2>1, <2>2, <2>3, ItemFits
    <2>5. PICK u : u = set(msg[target], f, v)
      OBVIOUS
    <2>6. /\ u.bits = msg[target].bits \cup {f} /\ u.unknown = msg[target].unknown
          /\ u.value = [g \in class |-> IF g = f THEN v ELSE msg[target].value[g]]
      BY <1>2, <2>5, Written
    <2>7. Full(u)
      BY <1>0, <1>2, <2>4, <2>5, SetFull
    <2>8. Carried' /\ msg'[target] = u
      BY <2>1, <2>2, <2>3, <2>5, <2>7, ParserCarries
    <2>9. Head(input) \notin Unknowns
      BY <2>1 DEF Unknowns, IsUnknown
    <2>10. /\ u.bits \cup has_bits' = Done(msg[target]) \cup {f} /\ u.value[f] = v
           /\ \A g \in class \ {f} : u.value[g] = msg[target].value[g]
      BY <2>1, <2>6 DEF Done
    <2> QED BY <2>1, <2>4, <2>6, <2>8, <2>9, <2>10, FieldArrives
  <1>18. ASSUME handle_unusual PROVE Carried' /\ SentInv'
    <2>1. /\ parsing = "items" /\ input # << >> /\ Unusual(Head(input)) /\ has_bits' = has_bits
          /\ Advances(Stops(Head(input))) /\ UNCHANGED <<class, touched>> /\ input' = Tail(input)
      BY <1>18 DEF handle_unusual, Advances
    <2>2. input' \in Seq(Items) /\ Head(input) \in Items
      BY <1>0, <2>1
    <2>3. CASE Stops(Head(input))
      <3>1. Into(msg[target])
        BY <1>0, <1>18, <2>3 DEF handle_unusual, Into, IInv, Objs
      <3>2. sent = {} /\ sent' = sent
        BY <2>1, <2>3, NothingStops DEF Advances
      <3>3. Carried'
        BY <1>0, <2>1, <2>2, <3>1, ParserCarries
      <3> QED BY <3>2, <3>3 DEF SentInv
    <2>4. CASE ~Stops(Head(input))
      <3>1. AsUnknown(Head(input))
        BY <1>18, <2>4 DEF handle_unusual
      <3>2. Head(input) \in Unknowns
        BY <2>1, <2>2, <2>4 DEF Unusual, Unknowns, IsUnknown
      <3>3. Advances(FALSE)
        BY <2>1, <2>4 DEF Advances
      <3> QED BY <1>14, <2>1, <3>1, <3>2, <3>3
    <2> QED BY <2>3, <2>4
  <1>19. ASSUME message_done PROVE Carried' /\ SentInv'
    <2>1. PICK t : t = msg[target]
      OBVIOUS
    <2>2. PICK u : u = [t EXCEPT !.bits = @ \cup has_bits]
      OBVIOUS
    <2>3. /\ Into(u) /\ has_bits' = {} /\ input' = << >>
          /\ UNCHANGED <<class, touched, target, sent>>
          /\ parsing = "broken" \/ (parsing = "items" /\ input = << >>)
          /\ parsing' = IF parsing = "items" /\ IsInitialized(u) THEN "true" ELSE "false"
      BY <1>19, <2>1, <2>2 DEF message_done
    <2>4. Sound(t, has_bits) /\ Full(t)
      BY <1>0, <1>2, <2>1
    <2>5. Full(u)
      <3>1. u.value = t.value /\ u.unknown = t.unknown
        BY <2>2, <2>4 DEF Sound, Shape
      <3> QED BY <2>4, <3>1 DEF Full
    <2>6. Carried' /\ msg'[target] = u
      <3>1. << >> \in Seq(Items)
        OBVIOUS
      <3> QED BY <2>3, <2>5, <3>1, ParserCarries
    <2>7. ASSUME NEW m \in sent PROVE u = m /\ parsing = "items" /\ Sound(m, {}) /\ Full(m)
      <3>1. parsing = "items" /\ input = << >> /\ Sound(m, {}) /\ Full(m)
        BY <2>3 DEF SentInv
      <3>2. PICK n \in 0 .. Len(input) : Remains(m, n, msg[target], Done(msg[target]), input)
        BY <3>1 DEF SentInv
      <3>3. n = 0
        BY <3>1, <3>2
      <3>4. Remains(m, 0, t, t.bits \cup has_bits, << >>)
        BY <2>1, <3>1, <3>2, <3>3 DEF Done
      <3> QED BY <2>2, <2>4, <3>1, <3>4, Arrived
    <2>8. ASSUME NEW m \in sent'
          PROVE  /\ Sound(m, {})' /\ Full(m)' /\ msg'[target'] = m
                 /\ parsing' \in {"true", "false"} /\ (parsing' = "true" <=> IsInitialized(m)')
      <3>1. m \in sent /\ msg'[target'] = u /\ UNCHANGED <<class, touched>>
        BY <2>3, <2>6
      <3> QED BY <2>3, <2>7, <3>1, SameItems
    <2> QED BY <2>6, <2>8 DEF SentInv
  <1>20. CASE UNCHANGED vars
    <2>1. UNCHANGED <<class, touched, msg, parsing, target, input, has_bits, sent>>
      BY <1>20 DEF vars, parser
    <2>2. Carried'
      BY <2>1, SameItems DEF Carried
    <2>3. SentInv'
      BY <2>1, SameItems DEF SentInv, Done
    <2> QED BY <2>2, <2>3
  <1> QED BY <1>3, <1>4, <1>5, <1>6, <1>7, <1>8, <1>9, <1>10, <1>12, <1>13, <1>15, <1>16, <1>17,
             <1>18, <1>19, <1>20
       DEF Next, ParseStep

\* It holds at the start, and in every reachable state.
LEMMA Carries == Spec => [](IInv /\ Carried /\ SentInv)
  <1>1. Init => Carried /\ SentInv
    <2> SUFFICES ASSUME Init PROVE Carried /\ SentInv
      OBVIOUS
    <2>1. class \in Classes /\ input = << >> /\ sent = {} /\ \A o \in Objects : msg[o] = new
      BY DEF Init
    <2>2. << >> \in Seq(Items)
      OBVIOUS
    <2> QED BY <2>1, <2>2, NewFull DEF Carried, SentInv
  <1>2. IInv /\ Carried /\ SentInv /\ [Next]_vars => (Carried /\ SentInv)'
    BY CarryStep
  <1> QED BY <1>1, <1>2, Inductive, PTL DEF Spec

\* What serializeToBuffer writes parseFromBuffer reads: the object parsed into
\* is the same message, whatever it held before and with the unknown items too,
\* and the parse succeeds exactly if no required field is missing.
THEOREM RoundTrips == Spec => []RoundTrip
  <1>1. SentInv => RoundTrip
    BY DEF SentInv, RoundTrip
  <1> QED BY <1>1, Carries, PTL

-----------------------------------------------------------------------------
(***************************************************************************)
(* An object implements a map.  What it maps are the fields whose bit it   *)
(* has or will have when the parse is done.                                *)
(***************************************************************************)
FieldsOf(m, B) == [f \in m.bits \cup B |-> m.value[f]]

LEMMA FieldsNew ==
    /\ FieldsOf(new, {}) = Map!Nothing
    /\ \A m : FieldsOf(Clear(m), {}) = Map!Nothing
  BY DEF FieldsOf, new, Clear, Map!Nothing

LEMMA FieldsSet ==
    ASSUME NEW m, NEW B, B \subseteq class, NEW f \in class, NEW v, Sound(m, B)
    PROVE  FieldsOf(set(m, f, v), B) = Map!With(FieldsOf(m, B), f, v)
  <1>1. m.bits \cup B \subseteq class
    BY DEF Sound, Legal
  <1> DEFINE s == set(m, f, v)
  <1>2. /\ s.value = [g \in class |-> IF g = f THEN v ELSE m.value[g]]
        /\ s.bits = m.bits \cup {f}
    BY Written
  <1> HIDE DEF s
  <1>3. FieldsOf(s, B) = Map!With(FieldsOf(m, B), f, v)
    BY <1>1, <1>2 DEF FieldsOf, Map!With
  <1> QED BY <1>3 DEF s

LEMMA FieldsWritten ==
    ASSUME NEW m, NEW B, B \subseteq class, NEW f \in class, NEW v, Sound(m, B)
    PROVE  FieldsOf(Write(m, f, v), B \cup {f}) = Map!With(FieldsOf(m, B), f, v)
  <1>1. m.bits \cup B \subseteq class
    BY DEF Sound, Legal
  <1> DEFINE s == Write(m, f, v)
  <1>2. /\ s.value = [g \in class |-> IF g = f THEN v ELSE m.value[g]]
        /\ s.bits = m.bits
    BY Written
  <1> HIDE DEF s
  <1>3. FieldsOf(s, B \cup {f}) = Map!With(FieldsOf(m, B), f, v)
    BY <1>1, <1>2 DEF FieldsOf, Map!With
  <1> QED BY <1>3 DEF s

LEMMA FieldsClear ==
    ASSUME NEW m, NEW f \in class, Sound(m, {})
    PROVE  FieldsOf(clear(m, f), {}) = Map!Without(FieldsOf(m, {}), f)
  <1> DEFINE c == clear(m, f)
  <1>1. c.bits = m.bits \ {f} /\ \A g \in m.bits \ {f} : c.value[g] = m.value[g]
    BY DEF clear, Sound, Legal
  <1> HIDE DEF c
  <1>2. FieldsOf(c, {}) = Map!Without(FieldsOf(m, {}), f)
    BY <1>1 DEF FieldsOf, Map!Without
  <1> QED BY <1>2 DEF c

LEMMA FieldsCopy ==
    ASSUME NEW m, Sound(m, {}) PROVE FieldsOf(copy(m), {}) = FieldsOf(m, {})
  <1>1. copy(m).bits = m.bits /\ \A f \in m.bits : copy(m).value[f] = m.value[f]
    BY DEF copy, Sound, Shape, Legal
  <1> QED BY <1>1 DEF FieldsOf

LEMMA FieldsMerge ==
    ASSUME NEW m, NEW n, Sound(m, {}), Sound(n, {})
    PROVE  FieldsOf(MergeFrom(m, n), {}) = Map!Overlay(FieldsOf(m, {}), FieldsOf(n, {}))
  <1>1. MergeFrom(m, n).bits = m.bits \cup n.bits /\ m.bits \cup n.bits \subseteq class
    BY DEF MergeFrom, Sound, Legal
  <1>2. \A f \in class : MergeFrom(m, n).value[f] = IF f \in n.bits THEN n.value[f] ELSE m.value[f]
    BY DEF MergeFrom
  <1> QED BY <1>1, <1>2 DEF FieldsOf, Map!Overlay

\* CopyFrom clears first: what the object held is gone.
LEMMA FieldsCopyFrom ==
    ASSUME class \in Classes, NEW m, NEW n, Sound(m, {}), Sound(n, {})
    PROVE  FieldsOf(CopyFrom(m, n), {}) = FieldsOf(n, {})
  <1>1. FieldsOf(CopyFrom(m, n), {}) = Map!Overlay(FieldsOf(Clear(m), {}), FieldsOf(n, {}))
    BY ClearSound, FieldsMerge DEF CopyFrom
  <1>2. FieldsOf(Clear(m), {}) = Map!Nothing
    BY FieldsNew
  <1>3. Map!Overlay(Map!Nothing, FieldsOf(n, {})) = FieldsOf(n, {})
    BY DEF FieldsOf, Map!Overlay, Map!Nothing
  <1> QED BY <1>1, <1>2, <1>3

\* At rest, no object has a bit to come.
LEMMA FieldsAtRest ==
    ASSUME IInv, AtRest
    PROVE  /\ has_bits = {} /\ fields = [o \in Objects |-> FieldsOf(msg[o], {})]
           /\ \A o \in Objects : fields[o] = FieldsOf(msg[o], {})
  BY DEF IInv, fields, FieldsOf, Pending

\* The step of a call that changes one object.
LEMMA FieldsMade ==
    ASSUME IInv, NEW o \in Objects, NEW m, Makes(o, m)
    PROVE  fields' = [fields EXCEPT ![o] = FieldsOf(m, {})]
  <1>1. AtRest /\ msg' = [msg EXCEPT ![o] = m] /\ has_bits' = {}
    BY DEF Makes, Rest
  <1>2. \A p \in Objects : msg'[p] = IF p = o THEN m ELSE msg[p]
    BY <1>1 DEF IInv, Objs
  <1>3. fields' = [p \in Objects |-> FieldsOf(msg'[p], {})]
    BY <1>1 DEF fields, FieldsOf, Pending
  <1>4. fields = [p \in Objects |-> FieldsOf(msg[p], {})]
    BY <1>1, FieldsAtRest
  <1> QED BY <1>2, <1>3, <1>4

\* The step of the parser.
LEMMA FieldsParsed ==
    ASSUME IInv, NEW m, Into(m), target' = target
    PROVE  fields' = [fields EXCEPT ![target] = FieldsOf(m, has_bits')]
  <1>1. /\ \A p \in Objects : msg'[p] = IF p = target THEN m ELSE msg[p]
        /\ target \in Objects
    BY DEF Into, IInv, Objs
  <1>2. fields = [p \in Objects |-> FieldsOf(msg[p], Pending(p))]
    BY DEF fields, FieldsOf
  <1>3. fields' = [p \in Objects |-> FieldsOf(msg'[p], Pending(p)')]
    BY DEF fields, FieldsOf
  <1>4. \A p \in Objects : FieldsOf(msg'[p], Pending(p)') =
           IF p = target THEN FieldsOf(m, has_bits') ELSE FieldsOf(msg[p], Pending(p))
    BY <1>1 DEF Pending
  <1> QED BY <1>1, <1>2, <1>3, <1>4

LEMMA MapStep ==
    ASSUME IInv, Carried, [Next]_vars
    PROVE  [Map!Next]_fields
  <1>0. /\ class \in Classes /\ touched \subseteq class /\ target \in Objects
        /\ has_bits \subseteq class /\ input \in Seq(Items)
        /\ \A f \in class : f \in UNION Classes /\ Used(f) \subseteq Values(f)
    BY OneNumber DEF IInv, Carried
  <1>1. ASSUME AtRest
        PROVE  /\ \A o \in Objects : Sound(msg[o], {}) /\ fields[o] = FieldsOf(msg[o], {})
               /\ fields = [o \in Objects |-> FieldsOf(msg[o], {})]
    BY <1>1, FieldsAtRest DEF IInv, Pending
  <1>2. Sound(msg[target], has_bits) /\ fields[target] = FieldsOf(msg[target], has_bits)
    BY <1>0 DEF IInv, Pending, fields, FieldsOf
  \* The calls of the program.
  <1>3. ASSUME NEW o \in Objects, construct(o) PROVE Map!Next
    <2>1. Map!Empty(o)
      BY <1>3, FieldsMade, FieldsNew DEF construct, Map!Empty
    <2> QED BY <2>1 DEF Map!Next
  <1>4. ASSUME NEW o \in Objects, set_field(o) PROVE Map!Next
    <2>1. PICK f \in touched : \E v \in Used(f) : Makes(o, set(msg[o], f, v))
      BY <1>4 DEF set_field
    <2>2. PICK v \in Used(f) : Makes(o, set(msg[o], f, v))
      BY <2>1
    <2>3. f \in class /\ f \in UNION Classes /\ v \in Values(f)
      BY <1>0
    <2>4. Sound(msg[o], {}) /\ fields[o] = FieldsOf(msg[o], {})
      BY <1>1, <2>2 DEF Makes
    <2>5. fields' = [fields EXCEPT ![o] = Map!With(fields[o], f, v)]
      <3>1. {} \subseteq class
        OBVIOUS
      <3>2. FieldsOf(set(msg[o], f, v), {}) = Map!With(fields[o], f, v)
        BY <2>3, <2>4, <3>1, FieldsSet
      <3>3. fields' = [fields EXCEPT ![o] = FieldsOf(set(msg[o], f, v), {})]
        BY <2>2, FieldsMade
      <3> QED BY <3>2, <3>3
    <2>6. Map!Put(o)
      BY <2>3, <2>5 DEF Map!Put
    <2> QED BY <2>6 DEF Map!Next
  <1>5. ASSUME NEW o \in Objects, clear_field(o) PROVE Map!Next
    <2>1. PICK f \in touched : Makes(o, clear(msg[o], f))
      BY <1>5 DEF clear_field
    <2>2. f \in class /\ f \in UNION Classes
      BY <1>0
    <2>3. Sound(msg[o], {}) /\ fields[o] = FieldsOf(msg[o], {})
      BY <1>1, <2>1 DEF Makes
    <2>4. fields' = [fields EXCEPT ![o] = Map!Without(fields[o], f)]
      BY <2>1, <2>2, <2>3, FieldsMade, FieldsClear
    <2>5. Map!Drop(o)
      BY <2>2, <2>4 DEF Map!Drop
    <2> QED BY <2>5 DEF Map!Next
  <1>6. ASSUME NEW o \in Objects, clears(o) PROVE Map!Next
    <2>1. Map!Empty(o)
      BY <1>6, FieldsMade, FieldsNew DEF clears, Map!Empty
    <2> QED BY <2>1 DEF Map!Next
  <1>7. ASSUME NEW o \in Objects, NEW p \in Objects, copies(o, p) PROVE Map!Next
    <2>1. Makes(o, copy(msg[p])) /\ AtRest
      BY <1>7 DEF copies, Makes
    <2>2. fields' = [fields EXCEPT ![o] = fields[p]]
      BY <1>1, <2>1, FieldsMade, FieldsCopy
    <2>3. Map!Copy(o, p)
      BY <2>2 DEF Map!Copy
    <2> QED BY <2>3 DEF Map!Next
  <1>8. ASSUME NEW o \in Objects, NEW p \in Objects, assigns(o, p) PROVE Map!Next
    <2>1. Makes(o, CopyFrom(msg[o], msg[p])) /\ AtRest
      BY <1>8 DEF assigns, Makes
    <2>2. fields' = [fields EXCEPT ![o] = fields[p]]
      BY <1>0, <1>1, <2>1, FieldsMade, FieldsCopyFrom
    <2>3. Map!Copy(o, p)
      BY <2>2 DEF Map!Copy
    <2> QED BY <2>3 DEF Map!Next
  <1>9. ASSUME NEW o \in Objects, NEW p \in Objects, merges(o, p) PROVE Map!Next
    <2>1. Makes(o, MergeFrom(msg[o], msg[p])) /\ AtRest
      BY <1>9 DEF merges, Makes
    <2>2. fields' = [fields EXCEPT ![o] = Map!Overlay(fields[o], fields[p])]
      BY <1>1, <2>1, FieldsMade, FieldsMerge
    <2>3. Map!Merge(o, p)
      BY <2>2 DEF Map!Merge
    <2> QED BY <2>3 DEF Map!Next
  <1>10. ASSUME NEW o \in Objects, NEW p \in Objects, InternalSwap(o, p) PROVE Map!Next
    <2>1. /\ msg' = [msg EXCEPT ![o] = msg[p], ![p] = msg[o]] /\ AtRest /\ o # p
          /\ has_bits' = {}
      BY <1>10 DEF InternalSwap, Rest
    <2>2. fields' = [q \in Objects |-> FieldsOf(msg'[q], {})]
      BY <2>1 DEF fields, FieldsOf, Pending
    <2>3. \A q \in Objects :
             msg'[q] = IF q = p THEN msg[o] ELSE IF q = o THEN msg[p] ELSE msg[q]
      BY <2>1 DEF IInv, Objs
    <2>4. fields' = [fields EXCEPT ![o] = fields[p], ![p] = fields[o]]
      <3>1. \A q \in Objects : FieldsOf(msg'[q], {}) =
               IF q = p THEN fields[o] ELSE IF q = o THEN fields[p] ELSE fields[q]
        BY <1>1, <2>1, <2>3
      <3>2. fields = [q \in Objects |-> fields[q]]
        BY <1>1, <2>1
      <3> QED BY <2>1, <2>2, <3>1, <3>2
    <2>5. Map!Trade(o, p)
      BY <2>4 DEF Map!Trade
    <2> QED BY <2>5 DEF Map!Next
  <1>11. ASSUME NEW p \in Objects, NEW items, Parse(p, items) PROVE Map!Next
    <2>1. /\ AtRest /\ msg' = [msg EXCEPT ![p] = Clear(msg[p])] /\ has_bits' = {}
      BY <1>11 DEF Parse
    <2>2. fields' = [q \in Objects |-> FieldsOf(msg'[q], {})]
      BY <2>1 DEF fields, FieldsOf, Pending
    <2>3. \A q \in Objects : msg'[q] = IF q = p THEN Clear(msg[p]) ELSE msg[q]
      BY <2>1 DEF IInv, Objs
    <2>4. fields' = [fields EXCEPT ![p] = Map!Nothing]
      <3>1. PICK c : c = Clear(msg[p])
        OBVIOUS
      <3>2. FieldsOf(c, {}) = Map!Nothing
        BY <3>1, FieldsNew
      <3>3. \A q \in Objects : msg'[q] = IF q = p THEN c ELSE msg[q]
        BY <2>3, <3>1
      <3>4. \A q \in Objects : FieldsOf(msg'[q], {}) = IF q = p THEN Map!Nothing ELSE fields[q]
        BY <1>1, <2>1, <3>2, <3>3
      <3>5. fields = [q \in Objects |-> fields[q]]
        BY <1>1, <2>1
      <3> QED BY <2>2, <3>4, <3>5
    <2>5. Map!Empty(p)
      BY <2>4 DEF Map!Empty
    <2> QED BY <2>5 DEF Map!Next
  <1>12. ASSUME NEW o \in Objects, NEW p \in Objects, receives(o, p) PROVE Map!Next
    BY <1>11, <1>12 DEF receives
  <1>13. ASSUME NEW p \in Objects, receivesStrange(p) PROVE Map!Next
    BY <1>11, <1>13 DEF receivesStrange
  \* The parser puts a field, or does nothing to the fields.
  <1>14. ASSUME NEW f \in class, NEW v \in Values(f),
                fields' = [fields EXCEPT ![target] = Map!With(fields[target], f, v)]
         PROVE  Map!Next
    <2>1. PICK o \in Objects : o = target
      BY <1>0
    <2>2. f \in UNION Classes
      BY <1>0
    <2>3. Map!Put(o)
      BY <1>14, <2>1, <2>2 DEF Map!Put
    <2> QED BY <2>3 DEF Map!Next
  <1>15. ASSUME NEW m, Into(m), target' = target,
                FieldsOf(m, has_bits') = FieldsOf(msg[target], has_bits)
         PROVE  fields' = fields
    BY <1>0, <1>2, <1>15, FieldsParsed DEF fields
  <1>16. ASSUME NEW it, AsUnknown(it), target' = target, has_bits' = has_bits
         PROVE  fields' = fields
    <2>1. PICK t : t = msg[target]
      OBVIOUS
    <2>2. PICK u : u = [t EXCEPT !.unknown = Append(@, it)]
      OBVIOUS
    <2>3. Into(u)
      BY <1>16, <2>1, <2>2 DEF AsUnknown
    <2>4. u.bits = t.bits /\ u.value = t.value
      BY <1>2, <2>1, <2>2 DEF Sound, Shape
    <2>5. FieldsOf(u, has_bits') = FieldsOf(t, has_bits)
      BY <1>16, <2>4 DEF FieldsOf
    <2> QED BY <1>15, <1>16, <2>1, <2>3, <2>5
  <1>17. ASSUME UNCHANGED <<msg, target, has_bits>> PROVE fields' = fields
    BY <1>17 DEF fields, Pending
  <1>18. ASSUME NEW f \in class, parseEnum(f) PROVE [Map!Next]_fields
    <2>1. f.kind = "enum" /\ UNCHANGED <<target, has_bits>>
      BY <1>18 DEF parseEnum, Advances
    <2>2. CASE Head(input).cut
      BY <1>17, <1>18, <2>1, <2>2 DEF parseEnum
    <2>3. CASE ~Head(input).cut /\ Head(input).val \in f.valid
      <3>1. PICK v : v = Head(input).val
        OBVIOUS
      <3>2. Into(set(msg[target], f, v)) /\ v \in Values(f)
        BY <1>0, <1>18, <2>1, <2>3, <3>1, DefaultLegal DEF parseEnum
      <3>3. PICK u : u = set(msg[target], f, v)
        OBVIOUS
      <3>4. fields' = [fields EXCEPT ![target] = FieldsOf(u, has_bits)]
        <4>1. Into(u) /\ target' = target /\ has_bits' = has_bits
          BY <2>1, <3>2, <3>3
        <4>2. fields' = [fields EXCEPT ![target] = FieldsOf(u, has_bits')]
          BY <4>1, FieldsParsed
        <4> QED BY <4>1, <4>2
      <3>5. FieldsOf(u, has_bits) = Map!With(fields[target], f, v)
        BY <1>0, <1>2, <3>3, FieldsSet
      <3> QED BY <1>14, <3>2, <3>4, <3>5
    <2>4. CASE ~Head(input).cut /\ Head(input).val \notin f.valid
      BY <1>16, <1>18, <2>1, <2>4 DEF parseEnum
    <2> QED BY <2>2, <2>3, <2>4
  <1>19. ASSUME NEW f \in class, parseNumber(f) PROVE Map!Next
    <2>1. /\ Takes(f) /\ f.kind # "enum" /\ target' = target /\ has_bits' = has_bits \cup {f}
          /\ input # << >>
      BY <1>19 DEF parseNumber, Advances, Takes
    <2>2. PICK v \in IF Head(input).cut THEN Used(f) ELSE {Head(input).val} :
             Into(Write(msg[target], f, v))
      BY <1>19 DEF parseNumber, Write
    <2>3. v \in Values(f)
      <3>1. Head(input) \in Items
        BY <1>0, <2>1
      <3> QED BY <1>0, <2>1, <2>2, <3>1, ItemFits DEF Takes
    <2>4. PICK u : u = Write(msg[target], f, v)
      OBVIOUS
    <2>5. fields' = [fields EXCEPT ![target] = FieldsOf(u, has_bits \cup {f})]
      BY <2>1, <2>2, <2>4, FieldsParsed
    <2>6. FieldsOf(u, has_bits \cup {f}) = Map!With(fields[target], f, v)
      BY <1>0, <1>2, <2>4, FieldsWritten
    <2> QED BY <1>14, <2>3, <2>5, <2>6
  <1>20. ASSUME NEW f \in class, parseString(f) PROVE Map!Next
    <2>1. /\ Takes(f) /\ f.kind # "enum" /\ UNCHANGED <<target, has_bits>>
          /\ input # << >> /\ Values(f) = Strings
      BY <1>20 DEF parseString, Advances, Takes, Values
    <2>2. PICK v \in IF Head(input).cut THEN Strings ELSE {Head(input).val} :
             Into(set(msg[target], f, v))
      BY <1>20 DEF parseString
    <2>3. v \in Values(f)
      <3>1. Head(input) \in Items
        BY <1>0, <2>1
      <3> QED BY <1>0, <2>1, <2>2, <3>1, ItemFits DEF Takes
    <2>4. PICK u : u = set(msg[target], f, v)
      OBVIOUS
    <2>5. fields' = [fields EXCEPT ![target] = FieldsOf(u, has_bits)]
      BY <2>1, <2>2, <2>4, FieldsParsed
    <2>6. FieldsOf(u, has_bits) = Map!With(fields[target], f, v)
      BY <1>0, <1>2, <2>4, FieldsSet
    <2> QED BY <1>14, <2>3, <2>5, <2>6
  <1>21. ASSUME handle_unusual PROVE fields' = fields
    <2>1. UNCHANGED <<target, has_bits>> /\ (UNCHANGED msg \/ AsUnknown(Head(input)))
      BY <1>21 DEF handle_unusual, Advances
    <2> QED BY <1>16, <1>17, <2>1
  \* message_done: a bit that was to come is there.
  <1>22. ASSUME message_done PROVE fields' = fields
    <2>1. PICK t : t = msg[target]
      OBVIOUS
    <2>2. PICK u : u = [t EXCEPT !.bits = @ \cup has_bits]
      OBVIOUS
    <2>3. Into(u) /\ has_bits' = {} /\ target' = target
      BY <1>22, <2>1, <2>2 DEF message_done
    <2>4. u.bits = t.bits \cup has_bits /\ u.value = t.value
      BY <1>2, <2>1, <2>2 DEF Sound, Shape
    <2>5. FieldsOf(u, {}) = FieldsOf(t, has_bits)
      BY <2>4 DEF FieldsOf
    <2> QED BY <1>15, <2>1, <2>3, <2>5
  <1>23. CASE UNCHANGED vars
    BY <1>17, <1>23 DEF vars, parser
  <1> QED BY <1>3, <1>4, <1>5, <1>6, <1>7, <1>8, <1>9, <1>10, <1>12, <1>13, <1>18, <1>19, <1>20,
             <1>21, <1>22, <1>23
       DEF Next, ParseStep

\* An object of a generated class is a map from its fields to their values:
\* construction empties it, set_ and clear_ put and drop one entry, CopyFrom
\* copies all of it whatever was there, MergeFrom lays one over the other,
\* Swap exchanges two, and the parser puts entries one by one into an emptied one.
THEOREM ImplementsFieldMap == Spec => IsFieldMap
  <1>1. Init => Map!Init
    <2> SUFFICES ASSUME Init PROVE Map!Init
      OBVIOUS
    <2>1. has_bits = {} /\ \A o \in Objects : msg[o] = new
      BY DEF Init
    <2>2. fields = [o \in Objects |-> FieldsOf(new, {})]
      BY <2>1 DEF fields, FieldsOf, Pending
    <2> QED BY <2>2, FieldsNew DEF Map!Init
  <1>2. IInv /\ Carried /\ [Next]_vars => [Map!Next]_fields
    BY MapStep
  <1> QED BY <1>1, <1>2, Carries, PTL DEF Spec, IsFieldMap, Map!Spec

-----------------------------------------------------------------------------
(***************************************************************************)
(* Sums.  SumOver takes the elements in an order of CHOOSE's; that it is   *)
(* the sum, in any order, is by induction on the number of elements.       *)
(***************************************************************************)
LEMMA Smallest ==
    ASSUME NEW T, T \subseteq Nat, T # {}
    PROVE  \E n \in T : \A k \in T : n <= k
  <1> DEFINE R == OpToRel(<, Nat)
  <1>1. IsWellFoundedOn(R, Nat)
    BY NatLessThanWellFounded
  <1>2. \A k, n \in Nat : k < n => <<k, n>> \in R
    BY Zenon DEF OpToRel
  <1> HIDE DEF R
  <1>3. PICK n \in T : \A k \in T : ~(<<k, n>> \in R)
    BY <1>1, WFMin
  <1>4. ASSUME NEW k \in T, k < n PROVE FALSE
    <2>1. <<k, n>> \in R
      BY <1>2, <1>4
    <2> QED BY <1>3, <2>1
  <1>5. ASSUME NEW k \in T PROVE n <= k
    BY <1>4
  <1> QED BY <1>5

LEMMA ByInduction ==
    ASSUME NEW T, T \subseteq Nat, 0 \in T, \A n \in T : n + 1 \in T
    PROVE  T = Nat
  <1> SUFFICES ASSUME Nat \ T # {} PROVE FALSE
    OBVIOUS
  <1>1. PICK n \in Nat \ T : \A k \in Nat \ T : n <= k
    BY Smallest
  <1>2. n - 1 \in Nat
    BY <1>1
  <1>3. n - 1 \in T
    BY <1>1, <1>2
  <1> QED BY <1>1, <1>3

\* What is true of a set if it is true of all smaller ones (those in F).
LEMMA SetInduction ==
    ASSUME NEW S, IsFiniteSet(S), NEW F,
           \A s \in SUBSET S : (\A r \in SUBSET s : r # s => r \in F) => s \in F
    PROVE  S \in F
  <1> DEFINE T == {Cardinality(s) : s \in (SUBSET S) \ F}
  <1> SUFFICES ASSUME S \notin F PROVE FALSE
    OBVIOUS
  <1>1. \A s \in SUBSET S : IsFiniteSet(s) /\ Cardinality(s) \in Nat
    BY FS_Subset, FS_CardinalityType
  <1>2. T # {} /\ T \subseteq Nat
    BY <1>1
  <1> HIDE DEF T
  <1>3. PICK n \in T : \A k \in T : n <= k
    BY <1>2, Smallest
  <1>4. PICK s \in (SUBSET S) \ F : Cardinality(s) = n
    BY DEF T
  <1>5. ASSUME NEW r \in SUBSET s, r # s, r \notin F PROVE FALSE
    <2>1. PICK m \in Nat : m = Cardinality(r) /\ m < n
      BY <1>1, <1>4, <1>5, FS_Subset
    <2>2. m \in T
      BY <1>5, <2>1 DEF T
    <2> QED BY <1>2, <1>3, <2>1, <2>2
  <1> QED BY <1>4, <1>5

Pick(s) == CHOOSE x \in s : TRUE
IsSum(h, g, D) == h = [s \in D |-> IF s = {} THEN 0 ELSE g[Pick(s)] + h[s \ {Pick(s)}]]

LEMMA Picked == ASSUME NEW s, s # {} PROVE Pick(s) \in s
  BY DEF Pick

LEMMA SumExists ==
    ASSUME NEW S, IsFiniteSet(S), NEW g
    PROVE  \E h : IsSum(h, g, SUBSET S)
  <1> DEFINE Upto(n) == {s \in SUBSET S : Cardinality(s) <= n}
             T == {n \in Nat : \E h : IsSum(h, g, Upto(n))}
  <1>1. \A s \in SUBSET S : IsFiniteSet(s) /\ Cardinality(s) \in Nat
    BY FS_Subset, FS_CardinalityType
  <1>2. 0 \in T
    <2>1. \A s \in Upto(0) : s = {}
      BY <1>1, FS_EmptySet
    <2> DEFINE h == [s \in Upto(0) |-> 0]
    <2>2. IsSum(h, g, Upto(0))
      <3> HIDE DEF Upto
      <3> QED BY <2>1, Zenon DEF IsSum
    <2> HIDE DEF h, Upto
    <2> QED BY <2>2
  <1>3. ASSUME NEW n \in T PROVE n + 1 \in T
    <2>1. PICK h : IsSum(h, g, Upto(n))
      OBVIOUS
    <2>2. Upto(n) \subseteq Upto(n + 1)
      BY <1>1
    <2>3. \A s \in Upto(n + 1) : s # {} => s \ {Pick(s)} \in Upto(n)
      BY <1>1, FS_RemoveElement, Picked
    <2> HIDE DEF Upto
    <2> DEFINE k == [s \in Upto(n + 1) |-> IF s = {} THEN 0 ELSE g[Pick(s)] + h[s \ {Pick(s)}]]
    <2>4. \A s \in Upto(n) : k[s] = h[s]
      BY <2>1, <2>2, Zenon DEF IsSum
    <2>5. IsSum(k, g, Upto(n + 1))
      BY <2>3, <2>4 DEF IsSum
    <2> HIDE DEF k
    <2> QED BY <2>5
  <1>4. T = Nat
    <2> HIDE DEF T
    <2>1. T \subseteq Nat
      BY DEF T
    <2> QED BY <1>2, <1>3, <2>1, ByInduction
  <1>5. Upto(Cardinality(S)) = SUBSET S
    BY <1>1, FS_Subset
  <1>6. Cardinality(S) \in T
    BY <1>1, <1>4
  <1> HIDE DEF Upto
  <1> QED BY <1>5, <1>6

LEMMA SumUnique ==
    ASSUME NEW S, NEW R, IsFiniteSet(R), R \subseteq S,
           NEW g, NEW h, NEW k, IsSum(h, g, SUBSET S), IsSum(k, g, SUBSET R)
    PROVE  h[R] = k[R]
  <1> DEFINE F == {s \in SUBSET R : h[s] = k[s]}
  <1>1. \A s \in SUBSET R :
           /\ h[s] = IF s = {} THEN 0 ELSE g[Pick(s)] + h[s \ {Pick(s)}]
           /\ k[s] = IF s = {} THEN 0 ELSE g[Pick(s)] + k[s \ {Pick(s)}]
    BY Zenon DEF IsSum
  <1>2. ASSUME NEW s \in SUBSET R, \A r \in SUBSET s : r # s => r \in F PROVE s \in F
    <2>1. s # {} => s \ {Pick(s)} \in F
      BY <1>2, Picked
    <2> QED BY <1>1, <2>1
  <1> HIDE DEF F
  <1>3. R \in F
    BY <1>2, SetInduction
  <1> QED BY <1>3 DEF F

LEMMA SumIs ==
    ASSUME NEW S, IsFiniteSet(S), NEW g
    PROVE  \E h : IsSum(h, g, SUBSET S) /\ SumOver(S, g) = h[S]
  <1> DEFINE h == CHOOSE k : IsSum(k, g, SUBSET S)
  <1>1. IsSum(h, g, SUBSET S)
    BY SumExists
  <1>2. SumOver(S, g) = h[S]
    BY Zenon DEF SumOver, MapThenFoldSet, IsSum, Pick
  <1> QED BY <1>1, <1>2

LEMMA SumStep ==
    ASSUME NEW S, IsFiniteSet(S), NEW g
    PROVE  SumOver(S, g) = IF S = {} THEN 0 ELSE g[Pick(S)] + SumOver(S \ {Pick(S)}, g)
  <1>1. PICK h : IsSum(h, g, SUBSET S) /\ SumOver(S, g) = h[S]
    BY SumIs
  <1>2. h[S] = IF S = {} THEN 0 ELSE g[Pick(S)] + h[S \ {Pick(S)}]
    BY <1>1, Zenon DEF IsSum
  <1> SUFFICES ASSUME S # {} PROVE h[S \ {Pick(S)}] = SumOver(S \ {Pick(S)}, g)
    BY <1>1, <1>2
  <1>3. PICK R \in SUBSET S : R = S \ {Pick(S)}
    OBVIOUS
  <1>a. IsFiniteSet(R)
    BY FS_Subset
  <1>4. PICK k : IsSum(k, g, SUBSET R) /\ SumOver(R, g) = k[R]
    BY <1>a, SumIs
  <1>5. h[R] = k[R]
    BY <1>1, <1>a, <1>4, SumUnique
  <1> QED BY <1>3, <1>4, <1>5

\* Any element may be taken out first.
LEMMA TakeOut ==
    ASSUME NEW S, IsFiniteSet(S), NEW g, \A x \in S : g[x] \in Nat
    PROVE  /\ SumOver(S, g) \in Nat
           /\ \A x \in S : SumOver(S, g) = g[x] + SumOver(S \ {x}, g)
  <1> DEFINE Good(s) == /\ SumOver(s, g) \in Nat
                        /\ \A x \in s : SumOver(s, g) = g[x] + SumOver(s \ {x}, g)
             F == {s \in SUBSET S : Good(s)}
  <1>1. \A s \in SUBSET S : IsFiniteSet(s)
    BY FS_Subset
  <1>2. ASSUME NEW s \in SUBSET S, \A r \in SUBSET s : r # s => r \in F PROVE s \in F
    <2> SUFFICES Good(s)
      OBVIOUS
    <2>1. CASE s = {}
      <3>1. SumOver(s, g) = 0
        BY <1>1, <2>1, SumStep
      <3> QED BY <2>1, <3>1
    <2>2. CASE s # {}
      <3>1. PICK c \in s : SumOver(s, g) = g[c] + SumOver(s \ {c}, g)
        BY <1>1, <2>2, Picked, SumStep
      <3>2. \A r \in SUBSET s : r # s => Good(r)
        BY <1>2
      <3>3. ASSUME NEW x \in s, x # c PROVE SumOver(s, g) = g[x] + SumOver(s \ {x}, g)
        <4>1. PICK r : r = (s \ {c}) \ {x} /\ r = (s \ {x}) \ {c}
          OBVIOUS
        <4>2. Good(s \ {c}) /\ Good(s \ {x}) /\ Good(r)
          <5> HIDE DEF Good
          <5> QED BY <3>2, <4>1
        <4>3. /\ SumOver(s \ {c}, g) = g[x] + SumOver(r, g)
              /\ SumOver(s \ {x}, g) = g[c] + SumOver(r, g)
              /\ SumOver(r, g) \in Nat
          BY <3>3, <4>1, <4>2
        <4>4. g[x] \in Nat /\ g[c] \in Nat
          OBVIOUS
        <4> QED BY <3>1, <4>3, <4>4
      <3>4. SumOver(s, g) \in Nat
        <4>1. SumOver(s \ {c}, g) \in Nat
          BY <3>2
        <4> QED BY <3>1, <4>1
      <3> QED BY <3>1, <3>3, <3>4
    <2> QED BY <2>1, <2>2
  <1> HIDE DEF F
  <1>3. S \in F
    BY <1>2, SetInduction
  <1> QED BY <1>3 DEF F

LEMMA SumOfNone == ASSUME NEW g PROVE SumOver({}, g) = 0
  BY FS_EmptySet, SumStep

\* A sum does not depend on what its elements are called.
Renames(p, A, g, B, k) ==
    /\ \A x \in A : p[x] \in B /\ g[x] \in Nat /\ k[p[x]] = g[x]
    /\ \A x, y \in A : p[x] = p[y] => x = y
    /\ \A y \in B : \E x \in A : p[x] = y

LEMMA Renamed ==
    ASSUME NEW A, IsFiniteSet(A), NEW g, NEW B, NEW k, NEW p, Renames(p, A, g, B, k)
    PROVE  SumOver(A, g) = SumOver(B, k)
  <1> USE DEF Renames
  <1> DEFINE Of(s) == {p[x] : x \in s}
             F == {s \in SUBSET A : IsFiniteSet(Of(s)) /\ SumOver(s, g) = SumOver(Of(s), k)}
  <1>1. \A s \in SUBSET A : IsFiniteSet(s)
    BY FS_Subset
  <1>2. ASSUME NEW s \in SUBSET A, \A r \in SUBSET s : r # s => r \in F PROVE s \in F
    <2> SUFFICES IsFiniteSet(Of(s)) /\ SumOver(s, g) = SumOver(Of(s), k)
      OBVIOUS
    <2>1. CASE s = {}
      <3>1. Of(s) = {}
        BY <2>1
      <3> HIDE DEF Of
      <3> QED BY <2>1, <3>1, SumOfNone, FS_EmptySet
    <2>2. CASE s # {}
      <3>1. PICK c : c \in s
        BY <2>2
      <3>2. IsFiniteSet(Of(s \ {c})) /\ SumOver(s \ {c}, g) = SumOver(Of(s \ {c}), k)
        BY <1>2, <3>1
      <3>3. p[c] \in Of(s) /\ Of(s \ {c}) = Of(s) \ {p[c]}
        BY <3>1
      <3>4. IsFiniteSet(Of(s))
        <4>1. PICK R : R = Of(s \ {c})
          OBVIOUS
        <4>2. IsFiniteSet(R \cup {p[c]})
          BY <3>2, <4>1, FS_AddElement
        <4>3. Of(s) = R \cup {p[c]}
          BY <3>1, <4>1
        <4> QED BY <4>2, <4>3
      <3>5. \A y \in Of(s) : k[y] \in Nat
        <4>1. \A x \in s : k[p[x]] \in Nat
          OBVIOUS
        <4> QED BY <4>1
      <3> HIDE DEF Of
      <3>6. SumOver(Of(s), k) = k[p[c]] + SumOver(Of(s) \ {p[c]}, k)
        <4>1. PICK T, y : T = Of(s) /\ y = p[c]
          OBVIOUS
        <4>2. IsFiniteSet(T) /\ y \in T /\ \A z \in T : k[z] \in Nat
          BY <3>3, <3>4, <3>5, <4>1
        <4>3. SumOver(T, k) = k[y] + SumOver(T \ {y}, k)
          BY ONLY <4>2, TakeOut
        <4> QED BY <4>1, <4>3
      <3>7. SumOver(s, g) = g[c] + SumOver(s \ {c}, g)
        BY <1>1, <3>1, TakeOut
      <3> QED BY <3>1, <3>2, <3>3, <3>4, <3>6, <3>7
    <2> QED BY <2>1, <2>2
  <1> HIDE DEF F
  <1>3. A \in F
    BY <1>2, SetInduction
  <1>4. Of(A) = B
    OBVIOUS
  <1> QED BY <1>3, <1>4 DEF F

LEMMA TwoParts ==
    ASSUME NEW A, NEW B, IsFiniteSet(A), IsFiniteSet(B), A \cap B = {},
           NEW g, \A x \in A \cup B : g[x] \in Nat
    PROVE  SumOver(A \cup B, g) = SumOver(A, g) + SumOver(B, g)
  <1> DEFINE F == {s \in SUBSET A : SumOver(s \cup B, g) = SumOver(s, g) + SumOver(B, g)}
  <1>1. \A s \in SUBSET A : IsFiniteSet(s) /\ IsFiniteSet(s \cup B)
    BY FS_Subset, FS_Union
  <1>2. SumOver(B, g) \in Nat
    BY TakeOut
  <1>3. ASSUME NEW s \in SUBSET A, \A r \in SUBSET s : r # s => r \in F PROVE s \in F
    <2> SUFFICES SumOver(s \cup B, g) = SumOver(s, g) + SumOver(B, g)
      OBVIOUS
    <2>1. CASE s = {}
      <3>1. s \cup B = B
        BY <2>1
      <3> QED BY <1>2, <2>1, <3>1, SumOfNone
    <2>2. CASE s # {}
      <3>1. PICK c : c \in s
        BY <2>2
      <3>2. SumOver((s \ {c}) \cup B, g) = SumOver(s \ {c}, g) + SumOver(B, g)
        BY <1>3, <3>1
      <3>3. (s \cup B) \ {c} = (s \ {c}) \cup B
        BY <3>1
      <3>4. \A x \in s \cup B : g[x] \in Nat
        OBVIOUS
      <3>5. SumOver(s \cup B, g) = g[c] + SumOver((s \cup B) \ {c}, g)
        BY <1>1, <3>1, <3>4, TakeOut
      <3>6. SumOver(s, g) = g[c] + SumOver(s \ {c}, g)
        BY <1>1, <3>1, TakeOut
      <3>7. SumOver(s \ {c}, g) \in Nat
        <4>1. IsFiniteSet(s \ {c}) /\ \A x \in s \ {c} : g[x] \in Nat
          BY <1>1
        <4> QED BY <4>1, TakeOut
      <3> QED BY <1>2, <3>1, <3>2, <3>3, <3>5, <3>6, <3>7
    <2> QED BY <2>1, <2>2
  <1> HIDE DEF F
  <1>4. A \in F
    BY <1>3, SetInduction
  <1> QED BY <1>4 DEF F

-----------------------------------------------------------------------------
(* What a field takes on the wire is what ByteSizeLong counts for it. *)

LEMMA SizeOfField ==
    ASSUME class \in Classes, NEW f \in class, NEW v \in Values(f)
    PROVE  /\ WireSize(Item(f, v)) \in Nat
           /\ \A m : m.value[f] = v => FieldSizes(m)[f] = WireSize(Item(f, v))
  <1>1. f.kind \in {"enum", "fixed64", "bool", "string"}
    BY MessageAssumption DEF MessageAssumption
  <1>2. f.kind = "string" => Len(v) \in Nat
    <2>1. ASSUME f.kind = "string" PROVE v \in Seq(Nat)
      BY <2>1, MessageAssumption DEF MessageAssumption, Values
    <2> QED BY <2>1
  <1>3. Item(f, v).wire = Wire(f) /\ Item(f, v).val = v
    BY DEF Item
  <1>4. CASE f.kind \in {"enum", "bool"}
    BY <1>3, <1>4 DEF FieldSizes, WireSize, Wire
  <1>5. CASE f.kind = "fixed64"
    BY <1>3, <1>5 DEF FieldSizes, WireSize, Wire
  <1>6. CASE f.kind = "string"
    BY <1>2, <1>3, <1>6 DEF FieldSizes, WireSize, Wire
  <1> QED BY <1>1, <1>4, <1>5, <1>6

LEMMA FiniteClass == ASSUME class \in Classes PROVE IsFiniteSet(class)
  <1> DEFINE number == [f \in class |-> f.number]
  <1>1. PICK I : I = 1 .. 7 /\ IsFiniteSet(I)
    <2>1. 1 \in Int /\ 7 \in Int
      OBVIOUS
    <2> QED BY <2>1, FS_Interval, Zenon
  <1>2. number \in [class -> I] /\ \A f, g \in class : number[f] = number[g] => f = g
    BY <1>1, OneNumber
  <1> HIDE DEF number
  <1>3. number \in Injection(class, I)
    BY <1>2 DEF Injection, IsInjective
  <1> QED BY <1>1, <1>3, FS_Injection

LEMMA SizeOfUnknown ==
    ASSUME class \in Classes, touched \subseteq class, NEW it \in Unknowns
    PROVE  WireSize(it) \in Nat
  <1>1. it \in Items /\ ~it.cut /\ it.wire # "end"
    BY DEF Unknowns, IsUnknown, Stops
  <1>2. ASSUME NEW f \in class, NEW v \in Values(f), it = Item(f, v) PROVE WireSize(it) \in Nat
    BY <1>2, SizeOfField
  <1>3. CASE it.wire \in {"varint", "fixed64"}
    BY <1>3 DEF WireSize
  <1>4. ASSUME NEW f \in touched, NEW v \in Used(f), it = Item(f, v) PROVE WireSize(it) \in Nat
    BY <1>2, <1>4, OneNumber
  <1>5. ASSUME it \in Strange, it.wire \notin {"varint", "fixed64"}
        PROVE  \E f \in touched : \E v \in Used(f) : it = Item(f, v)
    <2>1. ASSUME NEW f \in touched, it = Item(f, 9), f.kind = "enum" PROVE FALSE
      BY <1>5, <2>1 DEF Item, Wire
    <2>2. ASSUME NEW f \in touched,
                 it = [Item(f, Default(f)) EXCEPT !.wire = IF @ = "fixed64" THEN "varint" ELSE "fixed64"]
          PROVE  FALSE
      BY <1>5, <2>2 DEF Item
    <2>3. ASSUME NEW f \in touched, it = [Item(f, Default(f)) EXCEPT !.cut = TRUE] PROVE FALSE
      BY <1>1, <2>3 DEF Item
    <2>4. ASSUME NEW w \in {"varint", "end"},
                 it = [number |-> 15, wire |-> w, val |-> 9, cut |-> FALSE]
          PROVE  FALSE
      BY <1>1, <1>5, <2>4
    <2> QED BY <1>5, <2>1, <2>2, <2>3, <2>4 DEF Strange
  <1> QED BY <1>1, <1>2, <1>3, <1>4, <1>5 DEF Items

LEMMA Sizes ==
    ASSUME class \in Classes, touched \subseteq class, NEW m, NEW B, Sound(m, B), Full(m)
    PROVE  LET s == Serialize(m) IN ByteSizeLong(m) = SumOver(DOMAIN s, WireSizes(s))
  <1> DEFINE s == Serialize(m)
             n == Len(Present(m))
             u == m.unknown
             g == FieldSizes(m)
             W == WireSizes(s)
             U == WireSizes(u)
             p == [i \in 1 .. n |-> CHOOSE f \in m.bits : s[i] = Item(f, m.value[f])]
             q == [i \in n + 1 .. n + Len(u) |-> i - n]
  <1>1. /\ s \in Seq(Items) /\ n \in Nat /\ Len(s) = n + Len(u)
        /\ \A i \in 1 .. n : \E f \in m.bits : s[i] = Item(f, m.value[f])
        /\ \A f \in m.bits : \E i \in 1 .. n : s[i] = Item(f, m.value[f])
        /\ \A i, j \in 1 .. n : s[i].number = s[j].number => i = j
        /\ \A i \in n + 1 .. Len(s) : s[i] = u[i - n]
    BY Serialized
  <1>2. u \in Seq(Unknowns) /\ Len(u) \in Nat /\ DOMAIN u = 1 .. Len(u)
    BY DEF Full
  <1>3. DOMAIN s = 1 .. n + Len(u)
    BY <1>1
  <1>4. m.bits \subseteq class
    BY DEF Sound, Legal
  <1> HIDE DEF s, n, u
  <1>5. /\ \A i \in 1 .. n + Len(u) : W[i] = WireSize(s[i])
        /\ \A i \in 1 .. Len(u) : U[i] = WireSize(u[i]) /\ U[i] \in Nat
    <2>1. \A i \in 1 .. Len(u) : u[i] \in Unknowns
      BY <1>2
    <2> QED BY <1>2, <1>3, <2>1, SizeOfUnknown DEF WireSizes
  <1>6. /\ \A i \in 1 .. n : p[i] \in m.bits /\ s[i] = Item(p[i], m.value[p[i]])
        /\ \A i \in 1 .. n : s[i].number = p[i].number
    <2>1. \A i \in 1 .. n : p[i] \in m.bits /\ s[i] = Item(p[i], m.value[p[i]])
      BY <1>1
    <2>2. \A f, v : Item(f, v).number = f.number
      BY DEF Item
    <2> HIDE DEF p
    <2> QED BY <2>1, <2>2
  <1>7. \A f \in class : g[f] \in Nat /\ WireSize(Item(f, m.value[f])) = g[f]
    BY SizeOfField DEF Full, g
  <1> HIDE DEF g, W, U, p
  <1>a. ASSUME NEW i \in 1 .. n PROVE W[i] \in Nat /\ g[p[i]] = W[i]
    <2>1. i \in 1 .. n + Len(u)
      BY <1>1, <1>2
    <2>2. p[i] \in class /\ s[i] = Item(p[i], m.value[p[i]])
      BY <1>4, <1>6
    <2>3. W[i] = WireSize(s[i])
      BY <1>5, <2>1
    <2> QED BY <1>7, <2>2, <2>3
  <1>b. ASSUME NEW i \in n + 1 .. n + Len(u) PROVE W[i] \in Nat /\ U[q[i]] = W[i]
    <2>1. q[i] = i - n
      OBVIOUS
    <2>2. i - n \in 1 .. Len(u) /\ i \in 1 .. n + Len(u)
      BY <1>1, <1>2
    <2>3. s[i] = u[i - n]
      BY <1>1, <2>2
    <2>4. W[i] = WireSize(s[i]) /\ U[i - n] = WireSize(u[i - n]) /\ U[i - n] \in Nat
      BY <1>5, <2>2
    <2> QED BY <2>1, <2>3, <2>4
  <1>c. IsFiniteSet(1 .. n) /\ IsFiniteSet(n + 1 .. n + Len(u))
    <2>1. 1 \in Int /\ n \in Int /\ n + 1 \in Int /\ n + Len(u) \in Int
      BY <1>1, <1>2
    <2> QED BY <2>1, FS_Interval, Zenon
  <1>8. SumOver(1 .. n, W) = SumOver(m.bits, g)
    <2>1. PICK A : A = 1 .. n
      OBVIOUS
    <2>2. \A i, j \in 1 .. n : p[i] = p[j] => i = j
      BY <1>1, <1>6
    <2>3. ASSUME NEW f \in m.bits PROVE \E i \in 1 .. n : p[i] = f
      <3>1. PICK i \in 1 .. n : s[i] = Item(f, m.value[f])
        BY <1>1
      <3>2. s[i].number = f.number
        BY <3>1 DEF Item
      <3>3. p[i].number = f.number /\ p[i] \in class /\ f \in class
        BY <1>4, <1>6, <3>2
      <3> QED BY <3>3, OneNumber
    <2>4. \A i \in 1 .. n : p[i] \in m.bits
      BY <1>6
    <2>5. SumOver(A, W) = SumOver(m.bits, g)
      <3>1. Renames(p, A, W, m.bits, g)
        BY <1>a, <2>1, <2>2, <2>3, <2>4 DEF Renames
      <3> QED BY <1>c, <2>1, <3>1, Renamed
    <2> QED BY <2>1, <2>5
  <1>9. SumOver(n + 1 .. n + Len(u), W) = SumOver(1 .. Len(u), U)
    <2>1. PICK A, C : A = n + 1 .. n + Len(u) /\ C = 1 .. Len(u)
      OBVIOUS
    <2>2. /\ \A i, j \in A : q[i] = q[j] => i = j
          /\ \A i \in A : q[i] \in C
          /\ \A k \in C : k + n \in A /\ q[k + n] = k
      BY <1>1, <1>2, <2>1
    <2> HIDE DEF q
    <2>3. SumOver(A, W) = SumOver(C, U)
      <3>1. Renames(q, A, W, C, U)
        BY <1>b, <2>1, <2>2 DEF Renames
      <3> QED BY <1>c, <2>1, <3>1, Renamed
    <2> QED BY <2>1, <2>3
  <1>10. SumOver(1 .. n + Len(u), W) = SumOver(1 .. n, W) + SumOver(n + 1 .. n + Len(u), W)
    <2>1. PICK A, C : A = 1 .. n /\ C = n + 1 .. n + Len(u)
      OBVIOUS
    <2>2. A \cup C = 1 .. n + Len(u) /\ A \cap C = {}
      BY <1>1, <1>2, <2>1
    <2>3. IsFiniteSet(A) /\ IsFiniteSet(C)
      BY <1>c, <2>1
    <2>4. \A i \in A \cup C : W[i] \in Nat
      BY <1>a, <1>b, <2>1
    <2>5. SumOver(A \cup C, W) = SumOver(A, W) + SumOver(C, W)
      BY <2>2, <2>3, <2>4, TwoParts
    <2> QED BY <2>1, <2>2, <2>5
  <1>11. SumOver(m.bits, g) = SumOver(Required(class) \cap m.bits, g)
                                + SumOver(m.bits \ Required(class), g)
    <2>1. IsFiniteSet(m.bits)
      BY <1>4, FiniteClass, FS_Subset
    <2>2. PICK A, C : A = Required(class) \cap m.bits /\ C = m.bits \ Required(class)
      OBVIOUS
    <2>3. A \cup C = m.bits /\ A \cap C = {}
      BY <2>2
    <2>4. IsFiniteSet(A) /\ IsFiniteSet(C)
      BY <2>1, <2>3, FS_Subset
    <2>5. \A f \in A \cup C : g[f] \in Nat
      BY <1>4, <1>7, <2>3
    <2>6. SumOver(A \cup C, g) = SumOver(A, g) + SumOver(C, g)
      BY <2>3, <2>4, <2>5, TwoParts
    <2> QED BY <2>2, <2>3, <2>6
  <1>12. ByteSizeLong(m) = SumOver(Required(class) \cap m.bits, g)
                             + SumOver(m.bits \ Required(class), g) + SumOver(1 .. Len(u), U)
    <2>1. Required(class) \subseteq m.bits => Required(class) = Required(class) \cap m.bits
      OBVIOUS
    <2> QED BY <1>2, <2>1 DEF ByteSizeLong, RequiredFieldsByteSizeFallback, g, U, u
  <1>13. ByteSizeLong(m) = SumOver(DOMAIN s, W)
    BY <1>3, <1>8, <1>9, <1>10, <1>11, <1>12
  <1> QED BY <1>13 DEF s, W

(***************************************************************************)
(* ByteSizeLong is the number of bytes _InternalSerialize writes, for an   *)
(* object of any class that was set, cleared, copied and parsed into in    *)
(* any way, in the middle of a parse too: serializeToBuffer never meets    *)
(* ByteSizeConsistencyError.                                               *)
(***************************************************************************)
THEOREM KnowsItsSize == Spec => []SizeExact
  <1>1. IInv /\ Carried => SizeExact
    BY Sizes DEF IInv, Carried, SizeExact
  <1> QED BY <1>1, Carries, PTL
=============================================================================
