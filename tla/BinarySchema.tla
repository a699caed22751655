------------------------------ MODULE BinarySchema ------------------------------
(***************************************************************************)
(* binary_object_descriptor (BinarySchema.h): what a program of one release *)
(* writes and a program of the same or a later release reads.  A descriptor *)
(* lists properties with the versions they exist in; an object is written   *)
(* as its version and its properties, a pointer as the id of its dynamic    *)
(* type and the object.  A stream is a sequence of numbers with the type    *)
(* they were written as.                                                     *)
(***************************************************************************)
EXTENDS Integers, Sequences

CONSTANTS
  Releases,   \* numbers of the program's releases
  Types,      \* described types
  Roots,      \* types that have no described base
  Base,       \* type -> its base, of those outside Roots
  Descriptor, \* release -> type -> [id, version, properties]; a property is
              \* [name, kind, min, max]
  Abstract,   \* types that have no default constructor
  Specimens   \* release -> objects the program of that release writes

NullId == 65535  \* type_id_t(~0u)
Null == [type |-> "nullptr"]

\* Properties of the base come before the type's own.
Properties[release \in Releases, T \in Types] ==
  IF T \in Roots THEN Descriptor[release][T].properties
  ELSE Properties[release, Base[T]] \o Descriptor[release][T].properties

\* T is base or has it among its _base_descriptors.
IsA[T \in Types, base \in Types] == T = base \/ (T \notin Roots /\ IsA[Base[T], base])

Id(release, T) == Descriptor[release][T].id
Version(release, T) == Descriptor[release][T].version

\* What the authors of a schema keep to.  add_derived() compares the ids of the
\* types derived from one base, not with the id of the base; the id of a null
\* pointer is also the one of types without an id; a property of a base is
\* compared with the version of the derived type, so those move together.
SchemaAssumption ==
  \A release \in Releases, T, U \in Types :
    /\ Id(release, T) # NullId
    /\ T # U => Id(release, T) # Id(release, U)
    /\ T \notin Roots => Version(release, T) = Version(release, Base[T])

VARIABLES
  writer,  \* release of the program that writes
  object,  \* what it writes
  wire,    \* the stream
  reader,  \* release of the program that reads, 0 before it did
  readAs,  \* the type it reads a pointer to
  result   \* what it made of the stream

schemaVars == <<writer, object, wire, reader, readAs, result>>

Unread == [ok |-> FALSE, value |-> Null, rest |-> <<>>]

SchemaInit ==
  /\ writer \in Releases
  /\ object \in Specimens[writer] \cup {Null}
  /\ wire = <<>> /\ reader = 0 /\ result = Unread
  /\ readAs \in Roots

InWindow(property, version) == property.min <= version /\ version <= property.max

-------------------------------------------------------------------------------

Item(kind, number) == <<[kind |-> kind, number |-> number]>>

RECURSIVE SerializePointer(_, _), SerializeProperties(_, _, _), SerializeItems(_)

\* binary_sequence_serializer: the count, then the items.
SerializeItems(items) ==
  IF items = <<>> THEN <<>> ELSE Item("value", Head(items)) \o SerializeItems(Tail(items))

SerializeProperty(release, property, field) ==
  CASE property.kind = "value" -> Item("value", field)
    [] property.kind = "items" -> Item("count", Len(field)) \o SerializeItems(field)
    [] property.kind = "pointer" -> SerializePointer(release, field)

SerializeProperties(release, o, properties) ==
  IF properties = <<>> THEN <<>>
  ELSE (IF InWindow(Head(properties), Version(release, o.type))
          THEN SerializeProperty(release, Head(properties), o[Head(properties).name]) ELSE <<>>)
       \o SerializeProperties(release, o, Tail(properties))

\* The descriptor is that of the dynamic type.
SerializePointer(release, o) ==
  IF o = Null THEN Item("id", NullId)
  ELSE Item("id", Id(release, o.type)) \o Item("version", Version(release, o.type))
       \o SerializeProperties(release, o, Properties[release, o.type])

-------------------------------------------------------------------------------

\* Mutant: what the stream holds is judged by the version of the program that reads.
Exists(release, T, property, version) == InWindow(property, Version(release, T))
\* The properties of the version in the stream.
Existed(release, T, property, version) == InWindow(property, version)

Initial(kind) == CASE kind = "value" -> 0 [] kind = "items" -> <<>> [] kind = "pointer" -> Null

\* instantiate(): every field has its initial value.
Instantiated(release, T) ==
  LET fields == {Properties[release, T][i] : i \in DOMAIN Properties[release, T]}
  IN  [name \in {f.name : f \in fields} \cup {"type"} |->
         IF name = "type" THEN T ELSE Initial((CHOOSE f \in fields : f.name = name).kind)]

Threw(stream) == [ok |-> FALSE, value |-> Null, rest |-> stream]
NextIs(stream, kind) == stream # <<>> /\ Head(stream).kind = kind

RECURSIVE DeserializePointer(_, _, _), DeserializeProperties(_, _, _, _, _)

DeserializeItems(stream) ==
  LET n == Head(stream).number
  IN  IF ~NextIs(stream, "count") \/ Len(stream) < n + 1 THEN Threw(stream)
      ELSE [ok |-> TRUE, value |-> [i \in 1 .. n |-> stream[i + 1].number],
            rest |-> SubSeq(stream, n + 2, Len(stream))]

DeserializeProperty(release, property, stream) ==
  CASE property.kind = "value" -> IF ~NextIs(stream, "value") THEN Threw(stream)
                                  ELSE [ok |-> TRUE, value |-> Head(stream).number, rest |-> Tail(stream)]
    [] property.kind = "items" -> IF stream = <<>> THEN Threw(stream) ELSE DeserializeItems(stream)
    [] property.kind = "pointer" -> DeserializePointer(release, property.target, stream)

DeserializeProperties(release, o, version, properties, stream) ==
  IF properties = <<>> THEN [ok |-> TRUE, value |-> o, rest |-> stream]
  ELSE IF ~Existed(release, o.type, Head(properties), version)
    THEN DeserializeProperties(release, o, version, Tail(properties), stream)
  ELSE LET read == DeserializeProperty(release, Head(properties), stream)
       IN  IF ~read.ok THEN read
           ELSE DeserializeProperties(release, [o EXCEPT ![Head(properties).name] = read.value],
                                      version, Tail(properties), read.rest)

\* The type of the id: the pointed type itself or one derived from it.
DeserializePointer(release, T, stream) ==
  IF ~NextIs(stream, "id") THEN Threw(stream)
  ELSE IF Head(stream).number = NullId THEN [ok |-> TRUE, value |-> Null, rest |-> Tail(stream)]
  ELSE LET known == {U \in Types : IsA[U, T] /\ Id(release, U) = Head(stream).number}
       IN  IF known = {} \/ known \cap Abstract # {} \/ ~NextIs(Tail(stream), "version")
             THEN Threw(stream)
           ELSE LET U == CHOOSE U \in known : TRUE
                IN  DeserializeProperties(release, Instantiated(release, U), stream[2].number,
                                          Properties[release, U], SubSeq(stream, 3, Len(stream)))

-------------------------------------------------------------------------------

Serialize ==
  /\ wire = <<>>
  /\ wire' = SerializePointer(writer, object)
  /\ UNCHANGED <<writer, object, reader, readAs, result>>

\* A later release, or the same one, reads a pointer to some type.
Deserialize(release, T) ==
  /\ wire # <<>> /\ reader = 0 /\ release >= writer
  /\ reader' = release /\ readAs' = T
  /\ result' = DeserializePointer(release, T, wire)
  /\ UNCHANGED <<writer, object, wire>>

SchemaNext == Serialize \/ \E release \in Releases, T \in Types : Deserialize(release, T)

-------------------------------------------------------------------------------

\* A reference: what of an object survives the change of release.
RECURSIVE Kept(_, _, _)
Kept(from, to, o) ==
  IF o = Null THEN Null
  ELSE LET written == {Properties[from, o.type][i] : i \in DOMAIN Properties[from, o.type]}
           fresh == Instantiated(to, o.type)
       IN  [name \in DOMAIN fresh |->
              IF name = "type" THEN o.type
              ELSE IF \A p \in written : p.name = name => ~InWindow(p, Version(from, o.type))
                THEN fresh[name]
              ELSE IF \E p \in written : p.name = name /\ p.kind = "pointer" THEN Kept(from, to, o[name])
              ELSE o[name]]

\* A later release reads the whole stream of an older one: properties both know
\* have their values, new ones their initial values, retired ones are passed over,
\* the dynamic type is kept; a pointer to a type the object is not throws.
OldStreamsAreUnderstood ==
  reader # 0 =>
    IF object = Null \/ IsA[object.type, readAs]
      THEN result.ok /\ result.rest = <<>> /\ result.value = Kept(writer, reader, object)
      ELSE ~result.ok
===============================================================================
