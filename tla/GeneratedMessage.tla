-------------------------- MODULE GeneratedMessage --------------------------
(***************************************************************************)
(* The message classes protoc generated for this program.  All of them     *)
(* come from one template, which is modelled once, after RpcMetaMessage,   *)
(* for whatever class is given: a class is the set of its fields.          *)
(*                                                                         *)
(* An object keeps a value for every field and a bit that says whether the *)
(* field was set.  The parser reads item by item into an object that may   *)
(* have been used before, and some fields have their bit set only when it  *)
(* is done.                                                                *)
(***************************************************************************)
EXTENDS Integers, Sequences, FiniteSets, Folds

CONSTANTS Objects,      \* message objects of the program
          Classes,      \* the classes to look at
          Strings,      \* strings and bytes: sequences of bytes
          Ids,          \* the numbers a fixed64 may be
          MaxTouched,   \* bound: fields of the class that are used
          MaxStrange,   \* bound: items of a message from somebody else
          MaxUnknown    \* bound: unknown items an object holds

VARIABLES class,        \* the fields of the class the objects are of
          touched,      \* those that are used
          msg,          \* the objects: _has_bits_, the fields, unknown fields
          parsing,      \* where _InternalParse is, or what the parse returned
          target, input,    \* the object parsed into, the items not read yet
          has_bits,     \* the local has_bits of _InternalParse
          sent          \* history: the message whose bytes are parsed

parser == <<parsing, target, input, has_bits, sent>>
vars == <<class, touched, msg, parser>>

-----------------------------------------------------------------------------
(* The fields of the classes, with their accessors, and the classes. *)

Enum(n, required, numbers) ==
    [number |-> n, kind |-> "enum", required |-> required, valid |-> numbers]
Field(n, kind, required) ==
    [number |-> n, kind |-> kind, required |-> required, valid |-> {}]

MessageType == 1 .. 3
ErrorCode == 0 .. 6

type     == Enum(1, TRUE, MessageType)
id       == Field(2, "fixed64", TRUE)
service  == Field(3, "string", FALSE)
method   == Field(4, "string", FALSE)
request  == Field(5, "string", FALSE)
response == Field(6, "string", FALSE)
error    == Enum(7, FALSE, ErrorCode)
RpcMetaMessage == {type, id, service, method, request, response, error}

\* The functions of the other classes are those below, with these fields.
request_checkerboard  == Field(1, "string", TRUE)
response_solved       == Field(1, "bool", FALSE)
response_checkerboard == Field(2, "string", FALSE)
request_payload       == Field(1, "string", TRUE)
response_payload      == Field(2, "string", TRUE)
SudokuRequest  == {request_checkerboard}
SudokuResponse == {response_solved, response_checkerboard}
EchoRequest    == {request_payload}
EchoResponse   == {response_payload}

Texts(C)    == {f \in C : f.kind = "string"}
Scalars(C)  == C \ Texts(C)
Required(C) == {f \in C : f.required}

Values(f) == CASE f.kind = "enum"    -> f.valid
               [] f.kind = "fixed64" -> Ids
               [] f.kind = "bool"    -> BOOLEAN
               [] f.kind = "string"  -> Strings

\* The default of an enum is its first number.
Default(f) == CASE f.kind = "enum"    -> CHOOSE v \in f.valid : \A w \in f.valid : v <= w
                [] f.kind = "fixed64" -> 0
                [] f.kind = "bool"    -> FALSE
                [] f.kind = "string"  -> << >>

\* bound: of an enum, the ends of its range are used.
Used(f) == IF f.kind = "enum"
           THEN {Default(f), CHOOSE v \in f.valid : \A w \in f.valid : v >= w}
           ELSE Values(f)

ASSUME MessageAssumption ==
    /\ Objects # {}
    /\ << >> \in Strings /\ Strings \subseteq Seq(Nat)
    /\ 0 \in Ids /\ Ids \subseteq Nat
    /\ \A C \in Classes : \A f \in C :
          /\ f.kind \in {"enum", "fixed64", "bool", "string"}
          /\ Default(f) \in Values(f) /\ Used(f) \subseteq Values(f)
    \* protoc refuses a number given twice; 7 is the largest of the program's.
    /\ \A C \in Classes : \A f, g \in C : f.number \in 1 .. 7 /\ (f.number = g.number => f = g)
    /\ MaxTouched \in Nat /\ MaxStrange \in Nat /\ MaxUnknown \in Nat

-----------------------------------------------------------------------------
(* The accessors and the functions of a class, on the record of an object. *)

new == [bits |-> {}, value |-> [f \in class |-> Default(f)], unknown |-> << >>]

set(m, f, v) ==
    [bits |-> m.bits \cup {f}, value |-> [m.value EXCEPT ![f] = v], unknown |-> m.unknown]
clear(m, f) ==
    [bits |-> m.bits \ {f}, value |-> [m.value EXCEPT ![f] = Default(f)], unknown |-> m.unknown]

\* A string is emptied if its bit is set, the numbers together if one is
\* (a number that is alone, always).
Clear(m) ==
    [bits |-> {}, unknown |-> << >>,
     value |-> [f \in class |->
        IF IF f \in Texts(class) THEN f \in m.bits
           ELSE Scalars(class) = {f} \/ Scalars(class) \cap m.bits # {}
        THEN Default(f) ELSE m.value[f]]]

copy(m) ==
    [m EXCEPT !.value = [f \in class |->
        IF f \in Texts(class) \ m.bits THEN << >> ELSE m.value[f]]]

Bug_MergeFrom(m, n) ==
    [bits |-> m.bits \cup n.bits, unknown |-> m.unknown \o n.unknown,
     value |-> [f \in class |->
        IF f \in n.bits \cup {g \in Scalars(class) : Scalars(class) \cap n.bits # {}}
        THEN n.value[f] ELSE m.value[f]]]

MergeFrom(m, n) ==
    [bits |-> m.bits \cup n.bits, unknown |-> m.unknown \o n.unknown,
     value |-> [f \in class |-> IF f \in n.bits THEN n.value[f] ELSE m.value[f]]]

CopyFrom(m, n) == MergeFrom(Clear(m), n)

MissingRequiredFields(m) == ~(Required(class) \subseteq m.bits)
IsInitialized(m) == ~ MissingRequiredFields(m)

\* The wire: a sequence of items, each with its number, its wire type and
\* what follows the tag, which may be cut off by the end of the bytes.
Wire(f) == CASE f.kind \in {"enum", "bool"} -> "varint"
             [] f.kind = "fixed64"          -> "fixed64"
             [] f.kind = "string"           -> "length"
Item(f, v) == [number |-> f.number, wire |-> Wire(f), val |-> v, cut |-> FALSE]

\* The numbers of the fields that are set, one if after another.
IfSet(m, n) == IF \E f \in m.bits : f.number = n THEN <<n>> ELSE << >>
Present(m) ==
    IfSet(m, 1) \o IfSet(m, 2) \o IfSet(m, 3) \o IfSet(m, 4)
        \o IfSet(m, 5) \o IfSet(m, 6) \o IfSet(m, 7)
FieldOf(n) == CHOOSE f \in class : f.number = n

\* _InternalSerialize: by number, and what is unknown after it.
Serialize(m) ==
    LET ns == Present(m)
    IN [i \in DOMAIN ns |-> Item(FieldOf(ns[i]), m.value[FieldOf(ns[i])])] \o m.unknown

SumOver(S, size) ==
    MapThenFoldSet(LAMBDA a, b : a + b, 0, LAMBDA x : size[x], LAMBDA T : CHOOSE x \in T : TRUE, S)

WireSize(it) == 1 + CASE it.wire = "varint"  -> 1
                      [] it.wire = "fixed64" -> 8
                      [] it.wire = "length"  -> 1 + Len(it.val)
WireSizes(items) == [i \in DOMAIN items |-> WireSize(items[i])]

FieldSizes(m) == [f \in class |-> 1 + CASE f.kind \in {"enum", "bool"} -> 1
                                        [] f.kind = "fixed64"          -> 8
                                        [] f.kind = "string"           -> 1 + Len(m.value[f])]

RequiredFieldsByteSizeFallback(m) == SumOver(Required(class) \cap m.bits, FieldSizes(m))

Bug_ByteSizeLong(m) ==
    SumOver(Required(class), FieldSizes(m)) + SumOver(m.bits \ Required(class), FieldSizes(m))
      + SumOver(DOMAIN m.unknown, WireSizes(m.unknown))

ByteSizeLong(m) ==
    (IF Required(class) \subseteq m.bits
     THEN SumOver(Required(class), FieldSizes(m))
     ELSE RequiredFieldsByteSizeFallback(m))
      + SumOver(m.bits \ Required(class), FieldSizes(m))
      + SumOver(DOMAIN m.unknown, WireSizes(m.unknown))

-----------------------------------------------------------------------------
(***************************************************************************)
(* What the program does with its messages.                                *)
(***************************************************************************)
MinOf(m, n) == IF m <= n THEN m ELSE n
First == CHOOSE o \in Objects : TRUE
AtRest == parsing \notin {"items", "broken"}
Rest == parsing' = "no" /\ target' = First /\ input' = << >> /\ has_bits' = {} /\ sent' = {}

Init ==
    /\ class \in Classes
    /\ touched \in {T \in SUBSET class : Cardinality(T) = MinOf(MaxTouched, Cardinality(class))}
    /\ msg = [o \in Objects |-> new]
    /\ parsing = "no" /\ target = First /\ input = << >> /\ has_bits = {} /\ sent = {}

\* A call changes an object; none is made while a message is parsed.
Makes(o, m) ==
    /\ AtRest
    /\ msg' = [msg EXCEPT ![o] = m]
    /\ Rest /\ UNCHANGED <<class, touched>>

construct(o)  == Makes(o, new)
set_field(o)  == \E f \in touched : \E v \in Used(f) : Makes(o, set(msg[o], f, v))
\* clear_field; and release_field and set_allocated_field(NULL) of a string.
clear_field(o) == \E f \in touched : Makes(o, clear(msg[o], f))
clears(o)     == Makes(o, Clear(msg[o]))
copies(o, p)  == o # p /\ Makes(o, copy(msg[p]))
assigns(o, p) == o # p /\ Makes(o, CopyFrom(msg[o], msg[p]))
merges(o, p)  ==
    /\ o # p /\ Len(msg[o].unknown) + Len(msg[p].unknown) <= MaxUnknown
    /\ Makes(o, MergeFrom(msg[o], msg[p]))

InternalSwap(o, p) ==
    /\ AtRest /\ o # p
    /\ msg' = [msg EXCEPT ![o] = msg[p], ![p] = msg[o]]
    /\ Rest /\ UNCHANGED <<class, touched>>

Bug_Parse(p, items) ==
    /\ AtRest
    /\ UNCHANGED msg
    /\ parsing' = "items" /\ target' = p /\ input' = items /\ has_bits' = {}
    /\ UNCHANGED <<class, touched>>

\* ParseFromArray clears the object and parses what there is.
Parse(p, items) ==
    /\ AtRest
    /\ msg' = [msg EXCEPT ![p] = Clear(@)]
    /\ parsing' = "items" /\ target' = p /\ input' = items /\ has_bits' = {}
    /\ UNCHANGED <<class, touched>>

\* serializeToBuffer on one side, parseFromBuffer on the other.
receives(o, p) == o # p /\ Parse(p, Serialize(msg[o])) /\ sent' = {msg[o]}

\* What another program may send: an item of a field, one cut off, one of the
\* wrong wire type, a number the enum does not have, an item of no field, or
\* the end of a group.
Strange ==
    (UNION {{Item(f, v) : v \in Used(f)} \cup
            {[Item(f, Default(f)) EXCEPT !.cut = TRUE],
             [Item(f, Default(f)) EXCEPT !.wire = IF @ = "fixed64" THEN "varint" ELSE "fixed64"]}
               : f \in touched})
      \cup {Item(f, 9) : f \in {g \in touched : g.kind = "enum"}}
      \cup {[number |-> 15, wire |-> w, val |-> 9, cut |-> FALSE] : w \in {"varint", "end"}}

\* No field of the class has its number and its wire type.
Unusual(it) == \A f \in class : f.number = it.number => Wire(f) # it.wire
Stops(it) == it.cut \/ it.wire = "end"
IsUnknown(it) ==
    /\ ~Stops(it)
    /\ \A f \in class : f.number = it.number /\ Wire(f) = it.wire
                          => f.kind = "enum" /\ it.val \notin f.valid

\* bound: the other objects are new.
receivesStrange(p) ==
    /\ \A o \in Objects \ {p} : msg[o] = new
    /\ \E n \in 0 .. MaxStrange : \E items \in [1 .. n -> Strange] :
          /\ Cardinality({i \in 1 .. n : IsUnknown(items[i])}) <= MaxUnknown
          /\ Parse(p, items)
    /\ sent' = {}

-----------------------------------------------------------------------------
(***************************************************************************)
(* _InternalParse, an item at a time.                                      *)
(***************************************************************************)
Into(m) == msg' = [msg EXCEPT ![target] = m]
Takes(f) ==
    /\ parsing = "items" /\ input # << >>
    /\ f \in class /\ f.number = Head(input).number /\ Wire(f) = Head(input).wire
Advances(fails) ==
    /\ input' = Tail(input)
    /\ parsing' = IF fails THEN "broken" ELSE "items"
    /\ UNCHANGED <<class, touched, target, sent>>

AsUnknown(it) == Into([msg[target] EXCEPT !.unknown = Append(@, it)])

\* A number the enum does not have is kept among the unknown fields.
parseEnum(f) ==
    /\ Takes(f) /\ f.kind = "enum"
    /\ LET it == Head(input)
       IN  \/ it.cut /\ UNCHANGED msg
           \/ ~it.cut /\ it.val \in f.valid /\ Into(set(msg[target], f, it.val))
           \/ ~it.cut /\ it.val \notin f.valid /\ AsUnknown(it)
    /\ Advances(Head(input).cut) /\ UNCHANGED has_bits

\* fixed64 and bool: the bit goes to the local has_bits.
parseNumber(f) ==
    /\ Takes(f) /\ f.kind \in {"fixed64", "bool"}
    /\ \E v \in IF Head(input).cut THEN Used(f) ELSE {Head(input).val} :
          Into([msg[target] EXCEPT !.value[f] = v])
    /\ has_bits' = has_bits \cup {f}
    /\ Advances(Head(input).cut)

\* mutable_field sets the bit before the string is read.
parseString(f) ==
    /\ Takes(f) /\ f.kind = "string"
    /\ \E v \in IF Head(input).cut THEN Strings ELSE {Head(input).val} :
          Into(set(msg[target], f, v))
    /\ Advances(Head(input).cut) /\ UNCHANGED has_bits

handle_unusual ==
    /\ parsing = "items" /\ input # << >>
    /\ Unusual(Head(input))
    /\ IF Stops(Head(input)) THEN UNCHANGED msg ELSE AsUnknown(Head(input))
    /\ Advances(Stops(Head(input))) /\ UNCHANGED has_bits

Bug_message_done ==
    /\ parsing = "broken" \/ (parsing = "items" /\ input = << >>)
    /\ LET m == [msg[target] EXCEPT !.bits = IF parsing = "broken" THEN @ ELSE @ \cup has_bits]
       IN /\ Into(m)
          /\ parsing' = IF parsing = "items" /\ IsInitialized(m) THEN "true" ELSE "false"
    /\ has_bits' = {} /\ input' = << >>
    /\ UNCHANGED <<class, touched, target, sent>>

\* message_done, and what ParseFromArray returns.
message_done ==
    /\ parsing = "broken" \/ (parsing = "items" /\ input = << >>)
    /\ LET m == [msg[target] EXCEPT !.bits = @ \cup has_bits]
       IN /\ Into(m)
          /\ parsing' = IF parsing = "items" /\ IsInitialized(m) THEN "true" ELSE "false"
    /\ has_bits' = {} /\ input' = << >>
    /\ UNCHANGED <<class, touched, target, sent>>

ParseStep == \/ \E f \in class : parseEnum(f) \/ parseNumber(f) \/ parseString(f)
             \/ handle_unusual \/ message_done

Next == \/ ParseStep
        \/ \E o \in Objects : \/ construct(o) \/ set_field(o) \/ clear_field(o) \/ clears(o)
                              \/ receivesStrange(o)
        \/ \E o, p \in Objects : \/ copies(o, p) \/ assigns(o, p) \/ merges(o, p)
                                 \/ InternalSwap(o, p) \/ receives(o, p)

Spec == Init /\ [][Next]_vars

-----------------------------------------------------------------------------
(***************************************************************************)
(* Properties.                                                             *)
(***************************************************************************)
Pending(o) == IF o = target THEN has_bits ELSE {}

\* An enum field never holds a number that the enum does not have, whatever
\* arrives: the switch of RpcChannel counts on it.
Legal(m) ==
    /\ m.bits \subseteq class
    /\ m.value = [f \in class |-> m.value[f]]
    /\ \A f \in class : f.kind = "enum" => m.value[f] \in f.valid

TypeOK ==
    /\ class \in Classes /\ touched \subseteq class
    /\ msg = [o \in Objects |-> [bits |-> msg[o].bits, value |-> msg[o].value,
                                unknown |-> msg[o].unknown]]
    /\ \A o \in Objects : Legal(msg[o])
    /\ parsing \in {"no", "items", "broken", "true", "false"}
    /\ target \in Objects /\ has_bits \subseteq class

\* A getter returns the field without a look at the bit, and Clear leaves a
\* string without one as it is: both count on it that a field that is not
\* set holds its default, after a parse that failed too.
UnsetIsDefault ==
    \A o \in Objects : \A f \in class :
        f \notin msg[o].bits \cup Pending(o) => msg[o].value[f] = Default(f)

\* A message that is serialized and parsed, into an object used before, is the
\* same with its unknown items; the parse fails if a required field is missing
\* and for no other reason.
RoundTrip ==
    parsing \in {"true", "false"} =>
        \A m \in sent : msg[target] = m /\ (parsing = "true" <=> IsInitialized(m))

\* serializeToBuffer reserves what ByteSizeLong says and aborts the program
\* (ByteSizeConsistencyError) when another number of bytes is written.
SizeExact ==
    \A o \in Objects :
        LET s == Serialize(msg[o]) IN ByteSizeLong(msg[o]) = SumOver(DOMAIN s, WireSizes(s))

\* An object is a map of the fields that are set to their values.
fields == [o \in Objects |-> [f \in msg[o].bits \cup Pending(o) |-> msg[o].value[f]]]
Map == INSTANCE FieldMap WITH Fields <- UNION Classes
IsFieldMap == Map!Spec
=============================================================================
