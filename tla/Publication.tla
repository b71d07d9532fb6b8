----------------------------- MODULE Publication -----------------------------
(***************************************************************************)
(* Publications and their copies (uActor/src/pubsub/publication.cpp).  A   *)
(* copy of a publication without nested maps shares the map of attributes  *)
(* with the original, and both are marked; the first write to a marked     *)
(* publication makes a map of its own.  Lua actors write to the map itself *)
(* (lua_publication_wrapper.cpp).  Maps are sent as msgpack and built from *)
(* it again.                                                               *)
(*                                                                         *)
(* One attribute, "plain", has a string, a number or binary data, another, *)
(* "nested", a map with a plain attribute.  The publisher's fields and the *)
(* mark __unwrapped are left out.  A variable that was moved from is only  *)
(* written (which has no effect), assigned to or destroyed.                *)
(***************************************************************************)
EXTENDS Integers, FiniteSets

CONSTANTS
    Holder,          \* variables of type Publication, in queues, actors, Lua
    Datum,           \* strings and numbers
    Binary, None,    \* binary data, and no value
    Null,            \* no map
    LuaWritesShared  \* whether Lua actors write to publications with copies

VARIABLES
    heap,            \* the map of attributes of each object
    pub              \* [obj, shallow]: attributes and _shallow_copy

pubvars == <<heap, pub>>

\* As many objects as there can be in use.
Object == 1 .. Cardinality(Holder)
Inner == [plain : Datum \cup {Binary, None}]
AttributeMap == [plain : Datum \cup {Binary, None}, nested : Inner \cup {None}]
Empty == [plain |-> None, nested |-> None]

ASSUME PublicationAssumption ==
    /\ IsFiniteSet(Holder) /\ LuaWritesShared \in BOOLEAN
    /\ {Binary, None} \cap Datum = {} /\ Binary # None
    /\ Null \notin Object /\ Null \notin AttributeMap /\ None \notin Inner

Bare(v) == IF v = Binary THEN None ELSE v

\* Map::Map(const Map&): everything but binary data, nested maps too.
MapCopy(m) ==
    [plain |-> Bare(m.plain),
     nested |-> IF m.nested = None THEN None ELSE [plain |-> Bare(m.nested.plain)]]

has_map_attrs(m) == m.nested # None

Used(p) == {p[h].obj : h \in Holder} \ {Null}

\* shared_ptr: an object that nobody uses is gone.
Put(h, p) == [o \in Object |-> IF o \in Used(p) THEN h[o] ELSE Empty]

NewObject == CHOOSE o \in Object : o \notin Used(pub)

Unused(h) == pub[h].obj = Null
Live(h) == pub[h].obj # Null
Content(h) == heap[pub[h].obj]
Shared(h) == \E g \in Holder \ {h} : pub[g].obj = pub[h].obj

\* h gets a map of its own.
Own(h, m) ==
    \E o \in {IF Shared(h) \/ Unused(h) THEN NewObject ELSE pub[h].obj} :
        \E p \in {[pub EXCEPT ![h] = [obj |-> o, shallow |-> FALSE]]} :
            pub' = p /\ heap' = Put([heap EXCEPT ![o] = m], p)

PubInit ==
    /\ heap = [o \in Object |-> Empty]
    /\ pub = [h \in Holder |-> [obj |-> Null, shallow |-> FALSE]]

Construct(h) == Unused(h) /\ Own(h, Empty)

\* The copy constructor.
Copy(h, g) ==
    /\ Live(g)
    /\ IF has_map_attrs(Content(g)) THEN Own(h, MapCopy(Content(g)))
       ELSE \E p \in {[pub EXCEPT ![h] = [obj |-> pub[g].obj, shallow |-> TRUE],
                                  ![g].shallow = TRUE]} :
                pub' = p /\ heap' = Put(heap, p)

CopyConstruct(h, g) == Unused(h) /\ Copy(h, g)

\* operator= does to h what the constructor does.
CopyAssign(h, g) == Live(h) /\ Copy(h, g)

\* Both move operations; the mark of g stays.
Move(h, g) ==
    \E p \in {[pub EXCEPT ![h] = pub[g], ![g].obj = Null]} :
        pub' = p /\ heap' = Put(heap, p)

\* The map before a write.
deep_copy(h) == IF pub[h].shallow THEN MapCopy(Content(h)) ELSE Content(h)

set_attr(h, v) == Live(h) /\ Own(h, [deep_copy(h) EXCEPT !.plain = v])

set_map_attr(h, m) == Live(h) /\ Own(h, [deep_copy(h) EXCEPT !.nested = m])

\* Mutant: erase_attr writes to the shared map.
erase_attr_shared(h) ==
    Live(h) /\ heap' = [heap EXCEPT ![pub[h].obj].plain = None] /\ UNCHANGED pub

erase_attr(h) == Live(h) /\ Own(h, [deep_copy(h) EXCEPT !.plain = None])

\* LuaPublicationWrapper::set writes through root_handle; nil erases.
set_in_map(h, v) ==
    /\ Live(h) /\ (LuaWritesShared \/ ~pub[h].shallow)
    /\ heap' = [heap EXCEPT ![pub[h].obj].plain = v] /\ UNCHANGED pub

\* A table that is assigned becomes a new map.
parse_table(h, m) ==
    /\ Live(h) /\ (LuaWritesShared \/ ~pub[h].shallow)
    /\ heap' = [heap EXCEPT ![pub[h].obj].nested = m] /\ UNCHANGED pub

\* LuaPublicationMapWrapper::set, on what the index of the publication returned.
set_nested(h, v) ==
    /\ Live(h) /\ Content(h).nested # None
    /\ heap' = [heap EXCEPT ![pub[h].obj].nested.plain = v] /\ UNCHANGED pub

\* pack_map_msgpack: the size counts binary data, which is not written.
to_msg_pack(m) ==
    [whole |-> m.plain # Binary /\ (m.nested # None => m.nested.plain # Binary),
     map |-> m]

\* PublicationFactory::build finds nothing in data that ends too early.
build(h, data) == Unused(h) /\ data.whole /\ Own(h, data.map)

Transfer(h, g) == Live(g) /\ build(h, to_msg_pack(Content(g)))

\* Other programs write binary data too.
ReceiveBinary(h) == build(h, [whole |-> TRUE, map |-> [Empty EXCEPT !.plain = Binary]])

unwrap(h, g) ==
    /\ Unused(h) /\ Live(g) /\ Content(g).nested # None
    /\ Own(h, [Empty EXCEPT !.plain = Bare(Content(g).nested.plain)])

Handed(h, g) ==
    CopyConstruct(h, g) \/ CopyAssign(h, g) \/ Move(h, g) \/ Transfer(h, g) \/ unwrap(h, g)

PubNext ==
    \E h \in Holder :
        \/ Construct(h) \/ erase_attr(h) \/ ReceiveBinary(h)
        \/ \E v \in Datum : set_attr(h, v) \/ set_nested(h, v)
        \/ \E v \in Datum \cup {None} : set_in_map(h, v)
        \/ \E v \in Datum : set_map_attr(h, [plain |-> v]) \/ parse_table(h, [plain |-> v])
        \/ \E g \in Holder \ {h} : Handed(h, g)

PubSpec == PubInit /\ [][PubNext]_pubvars

(***************************************************************************)
(* Properties.                                                             *)
(***************************************************************************)
\* The type invariant.
PubTypeOK ==
    /\ heap \in [Object -> AttributeMap]
    /\ pub \in [Holder -> [obj : Object \cup {Null}, shallow : BOOLEAN]]

\* Publications that share a map know it: the write of each makes a copy first.  The
\* constructor marks the original too, and a move takes the mark along.
SharedIsMarked ==
    \A g, h \in Holder :
        g # h /\ Live(g) /\ pub[g].obj = pub[h].obj => pub[g].shallow /\ pub[h].shallow

\* Binary data aside, publications are variables with maps of their own: no write to
\* one is seen in another, whatever was copied, moved, sent or unwrapped before.
ValueOf == [h \in Holder |-> IF Live(h) THEN MapCopy(Content(h)) ELSE Null]
Values == INSTANCE PublicationValue WITH
    PubMap <- {MapCopy(m) : m \in AttributeMap}, Gone <- Null, value <- ValueOf
CopiesAreValues == Values!VSpec
=============================================================================
