------------------------------- MODULE JsonSchema -------------------------------
(***************************************************************************)
(* json_object_descriptor (JsonSchema.h) and the serializers it calls: an   *)
(* object behind a pointer becomes a JSON object with the name of its       *)
(* dynamic type; on the way somebody may edit the JSON; from_json() makes   *)
(* an object of it, or refuses.                                              *)
(***************************************************************************)
EXTENDS Integers, Sequences, FiniteSets, TLC

CONSTANTS
  Types,          \* described types, which are also the names they are given
  Roots, Base,    \* types without a described base, and the base of the others
  Own,            \* type -> its own properties, [name, kind]
  Discriminator,  \* type -> the key its name is written under
  Specimens       \* objects a program writes

Null == [literal |-> "null"]
Wrong == [literal |-> "true"]  \* a value no property here has the type of
Number(n) == [number |-> n]
None == "none"                 \* std::nullopt, or a null pointer

\* The properties of a type: those of its base, then its own.
Properties[T \in Types] == IF T \in Roots THEN Own[T] ELSE Properties[Base[T]] \o Own[T]

IsA[T \in Types, base \in Types] == T = base \/ (T \notin Roots /\ IsA[Base[T], base])

Fields(T) == {Properties[T][i] : i \in DOMAIN Properties[T]}
PropertyNames(T) == {f.name : f \in Fields(T)}
Kind(T, name) == (CHOOSE f \in Fields(T) : f.name = name).kind

\* What the authors of descriptors keep to: to_json() writes the key of the dynamic
\* type and from_json() looks for the key of the pointed one, and a property must
\* not have that name.
SchemaAssumption ==
  \A T \in Types : /\ T \notin Roots => Discriminator[T] = Discriminator[Base[T]]
                   /\ Discriminator[T] \notin PropertyNames(T)
                   /\ Cardinality(PropertyNames(T)) = Len(Properties[T])

VARIABLES
  object,  \* what is written
  json,    \* what it became, None before
  edit,    \* what somebody did to it: the key and the change
  target   \* what was read: as which type, if from_json() returned true, the object

descriptorVars == <<object, json, edit, target>>

Unread == [as |-> None, ok |-> FALSE, value |-> None]
Unedited == [key |-> None, change |-> None]

DescriptorInit ==
  /\ object \in Specimens
  /\ json = Null /\ edit = Unedited /\ target = Unread

-------------------------------------------------------------------------------

RECURSIVE ToJson(_)

\* json_serializer of the type of the property; a pointer must not be null, since
\* get_type_description() dereferences it.
PropertyToJson(kind, field) ==
  CASE kind = "number" -> Number(field)
    [] kind = "optional" -> IF field = -1 THEN Null ELSE Number(field)
    [] kind = "array" -> [array |-> [i \in DOMAIN field |-> Number(field[i])]]
    [] kind = "pointer" -> ToJson(field)

\* to_json() by the descriptor of the dynamic type, discriminator first.
ToJson(o) ==
  [object |-> (Discriminator[o.type] :> [string |-> o.type])
              @@ [name \in PropertyNames(o.type) |-> PropertyToJson(Kind(o.type, name), o[name])]]

-------------------------------------------------------------------------------

Refused == [ok |-> FALSE, value |-> None]
Accepted(value) == [ok |-> TRUE, value |-> value]
Has(document, kind) == DOMAIN document = {kind}

RECURSIVE FromJson(_, _)

\* The optional takes whatever is not null, and keeps the default value of its
\* type if the serializer of that type refuses; an array drops items it refuses.
PropertyFromJson(property, document) ==
  CASE property.kind = "number" -> IF Has(document, "number") THEN Accepted(document.number) ELSE Refused
    [] property.kind = "optional" ->
         Accepted(IF document = Null THEN -1 ELSE IF Has(document, "number") THEN document.number ELSE 0)
    [] property.kind = "array" ->
         IF ~Has(document, "array") THEN Refused
         ELSE LET kept == SelectSeq(document.array, LAMBDA item : Has(item, "number"))
              IN  Accepted([i \in DOMAIN kept |-> kept[i].number])
    [] property.kind = "pointer" -> FromJson(property.target, document)

Initial(kind) == CASE kind = "number" -> 0 [] kind = "optional" -> -1
                   [] kind = "array" -> <<>> [] kind = "pointer" -> None

\* The pointed type itself, or the derived descriptor with the name.
TypesNamed(T, name) == {U \in Types : U = name /\ IsA[U, T]}

\* from_json() through a pointer to T: null, or an object of the type named under
\* the discriminator, T without one; try_get_value() finds one that is no string to be "",
\* which names no type; one refused property refuses the whole.
FromJson(T, document) ==
  IF document = Null THEN Accepted(None)
  ELSE IF ~Has(document, "object") THEN Refused
  ELSE LET entries == document.object
           key == Discriminator[T]
           named == IF key \notin DOMAIN entries THEN {T}
                    ELSE IF Has(entries[key], "string") THEN TypesNamed(T, entries[key].string)
                    ELSE {}
       IN  IF named = {} THEN Refused
           ELSE LET U == CHOOSE U \in named : TRUE
                    read == [f \in Fields(U) |->
                               IF f.name \in DOMAIN entries THEN PropertyFromJson(f, entries[f.name])
                               ELSE Accepted(Initial(f.kind))]
                IN  IF \E f \in Fields(U) : ~read[f].ok THEN Refused
                    ELSE Accepted([name \in PropertyNames(U) \cup {"type"} |->
                           IF name = "type" THEN U
                           ELSE read[CHOOSE f \in Fields(U) : f.name = name].value])

-------------------------------------------------------------------------------

Write ==
  /\ json = Null /\ json' = ToJson(object)
  /\ UNCHANGED <<object, edit, target>>

\* Somebody removes a property, or the discriminator, or gives it another value.
Edit(key, change) ==
  /\ json # Null /\ edit.key = None /\ target.as = None
  /\ key \in DOMAIN json.object
  /\ edit' = [key |-> key, change |-> change]
  /\ json' = [object |-> CASE change = "removed" -> [k \in DOMAIN json.object \ {key} |-> json.object[k]]
                           [] change = "null" -> [json.object EXCEPT ![key] = Null]
                           [] change = "wrong" -> [json.object EXCEPT ![key] = Wrong]]
  /\ UNCHANGED <<object, target>>

\* from_json() to a pointer to T.
Read(T) ==
  /\ json # Null /\ target.as = None
  /\ LET read == FromJson(T, json)
     IN  target' = [as |-> T, ok |-> read.ok, value |-> read.value]
  /\ UNCHANGED <<object, json, edit>>

DescriptorNext ==
  \/ Write
  \/ \E T \in Types : Read(T)
  \/ \E key \in DOMAIN ToJson(object).object, change \in {"removed", "null", "wrong"} : Edit(key, change)

-------------------------------------------------------------------------------

\* What the edit leaves of a property; None when the document must be refused.
Left(name) ==
  LET kind == Kind(object.type, name)
  IN  IF edit.key # name THEN [ok |-> TRUE, value |-> object[name]]
      ELSE CASE edit.change = "removed" -> [ok |-> TRUE, value |-> Initial(kind)]
             [] edit.change = "null" /\ kind \in {"optional", "pointer"} -> [ok |-> TRUE, value |-> Initial(kind)]
             [] kind = "optional" -> [ok |-> TRUE, value |-> 0]
             [] OTHER -> [ok |-> FALSE, value |-> None]

\* A pointer reads back the object it wrote, with its dynamic type, or refuses:
\* never an object of a type beside the pointed one, never one that silently lost
\* a property somebody spoiled (an optional one apart). Without the name it is an object of
\* the pointed type, with what that type has of the one written; a name that is no string
\* is refused.
ReadsBackOrRefuses ==
  target.as # None =>
    IF edit.key = Discriminator[object.type]
      THEN /\ target.ok => edit.change = "removed" /\ target.value.type = target.as
           /\ edit.change = "removed" /\ IsA[object.type, target.as] =>
                /\ target.ok
                /\ \A name \in PropertyNames(target.as) : target.value[name] = object[name]
      ELSE /\ target.ok = (IsA[object.type, target.as] /\ \A name \in PropertyNames(object.type) : Left(name).ok)
           /\ target.ok => \A name \in PropertyNames(object.type) : target.value[name] = Left(name).value
           /\ target.ok => target.value.type = object.type
===============================================================================
