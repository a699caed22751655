-------------------------- MODULE DependencyContainer --------------------------
(***************************************************************************)
(* dependency_container (DependencyContainer.h): services are registered by *)
(* type, built on the first resolve() and kept.  A constructor may resolve  *)
(* other services through the container its factory captured, so a resolve  *)
(* is a stack of calls, each holding the mutex of the registration it       *)
(* builds.  create_child() clones the registrations of the root.            *)
(***************************************************************************)
EXTENDS Integers, Sequences

CONSTANTS
  Users,
  Types,
  Needs,      \* type -> types its constructor resolves, in order
  Rank,       \* type -> its place in an order of construction
  Unbuildable, \* types whose default factory can only return nullptr
  Root, Child,
  Setups,     \* bound: the <<registration, container, type>> the program asks for
  MaxBuilt    \* bound: objects made

NoThread == "nobody"

\* Constructors do not need each other in a circle: one thread would lock the
\* mutex of a registration twice.
ASSUME DependencyAssumption ==
  /\ \A T \in Types : Rank[T] \in Nat /\ Needs[T] \in Seq(Types)
  /\ \A T \in Types : \A i \in DOMAIN Needs[T] : Rank[Needs[T][i]] < Rank[T]
  /\ Unbuildable \subseteq Types /\ Root # Child /\ NoThread \notin Users

Containers == {Root, Child}
Null == 0

VARIABLES
  registrations, \* container -> type -> registration, or Absent
  calls,         \* thread -> its resolve() calls, the innermost last
  built,         \* how many objects were made, which names them
  born,          \* create_child() ran
  given,         \* container -> type -> objects resolve() returned
  inherited,     \* type -> objects the root had given when the child was made
  doubles        \* type -> the instance the program added to the child, or Null

containerVars == <<registrations, calls, built, born, given, inherited, doubles>>

\* dependency_registration: the factory is what it makes, of which type or object,
\* and through which container.
Registration(factory, through, target, object, lifetime) ==
  [factory |-> factory, through |-> through, target |-> target, object |-> object,
   lifetime |-> lifetime, value |-> Null, holder |-> NoThread]

Absent(T) == Registration("absent", Root, T, Null, "singleton")

\* dependency_pointer_type::get_factory(owner)
DefaultFactory(c, T, lifetime) ==
  Registration(IF T \in Unbuildable THEN "null" ELSE "make", c, T, Null, lifetime)

Is(c, T, factory) == registrations[c][T].factory = factory

DependencyInit ==
  /\ registrations = [c \in Containers |-> [T \in Types |-> Absent(T)]]
  /\ calls = [t \in Users |-> <<>>]
  /\ built = 0 /\ born = FALSE
  /\ given = [c \in Containers |-> [T \in Types |-> {}]]
  /\ inherited = [T \in Types |-> {}]
  /\ doubles = [T \in Types |-> Null]

Top(t) == calls[t][Len(calls[t])]
Found(t) == registrations[Top(t).at][Top(t).type]
Usable(c) == c = Root \/ born

Calling(t, c, T) == Append(calls[t], [at |-> c, type |-> T, step |-> "find", left |-> <<>>, got |-> Null])

-------------------------------------------------------------------------------

\* resolve<T>() or try_resolve<T>() called by the program.
Resolve(t, c, T) ==
  /\ calls[t] = <<>> /\ Usable(c)
  /\ calls' = [calls EXCEPT ![t] = Calling(t, c, T)]
  /\ UNCHANGED <<registrations, built, born, given, inherited, doubles>>

\* What exists is left untouched.
Emplaced(c, T, registration) ==
  registrations' = [registrations EXCEPT ![c][T] = IF @.factory = "absent" THEN registration ELSE @]

GoneOn(t, call) == [calls EXCEPT ![t] = [calls[t] EXCEPT ![Len(calls[t])] = call]]

\* get_registration<T>(), under the mutex of the container.
Find(t) ==
  /\ calls[t] # <<>> /\ Top(t).step = "find"
  /\ Emplaced(Top(t).at, Top(t).type, DefaultFactory(Top(t).at, Top(t).type, "singleton"))
  /\ calls' = GoneOn(t, [Top(t) EXCEPT !.step = "get"])
  /\ UNCHANGED <<built, born, given, inherited, doubles>>

Gets(call, object) == [call EXCEPT !.left = Tail(@), !.got = object]

\* The caller gets the object; a null one makes get() throw in every caller above.
Returned(t, object) ==
  LET below == SubSeq(calls[t], 1, Len(calls[t]) - 1)
      n == Len(below)
  IN  IF object = Null \/ n = 0 THEN <<>>
      ELSE [below EXCEPT ![n] = Gets(below[n], object)]

\* try_get() of a singleton that has its value already.
GetKept(t) ==
  /\ calls[t] # <<>> /\ Top(t).step = "get"
  /\ Found(t).lifetime = "singleton" /\ Found(t).holder = NoThread /\ Found(t).value # Null
  /\ calls' = [calls EXCEPT ![t] = Returned(t, Found(t).value)]
  /\ given' = [given EXCEPT ![Top(t).at][Top(t).type] = @ \cup {Found(t).value}]
  /\ UNCHANGED <<registrations, built, born, inherited, doubles>>

MayBuild(t) == Found(t).value = Null /\ Found(t).holder = NoThread

\* try_get() calls the factory, of a singleton under the mutex of the registration.
StartFactory(t) ==
  /\ calls[t] # <<>> /\ Top(t).step = "get"
  /\ Found(t).lifetime = "singleton" => MayBuild(t)
  /\ registrations' =
       IF Found(t).lifetime = "transient" THEN registrations
       ELSE [registrations EXCEPT ![Top(t).at][Top(t).type].holder = t]
  /\ calls' = GoneOn(t, [Top(t) EXCEPT
       !.step = "make",
       !.left = CASE Found(t).factory = "make" -> Needs[Top(t).type]
                  [] Found(t).factory = "alias" -> <<Found(t).target>>
                  [] OTHER -> <<>>])
  /\ UNCHANGED <<built, born, given, inherited, doubles>>

\* The constructor, or the alias, resolves the next service.
ResolveNested(t) ==
  /\ calls[t] # <<>> /\ Top(t).step = "make" /\ Top(t).left # <<>>
  /\ calls' = [calls EXCEPT ![t] = Calling(t, Found(t).through, Head(Top(t).left))]
  /\ UNCHANGED <<registrations, built, born, given, inherited, doubles>>

Made(t) == CASE Found(t).factory = "make" -> built + 1
             [] Found(t).factory = "instance" -> Found(t).object
             [] Found(t).factory = "alias" -> Top(t).got
             [] OTHER -> Null

\* Mutant: the mutex is unlocked by hand, past the line that throws.
UnlockedOnSuccess(t, object) ==
  [c \in Containers |-> [T \in Types |->
    IF registrations[c][T].holder # t \/ object = Null
      THEN registrations[c][T]
    ELSE IF c = Top(t).at /\ T = Top(t).type
      THEN [registrations[c][T] EXCEPT !.holder = NoThread, !.value = object]
    ELSE registrations[c][T]]]

\* The lock guards that end: that of the call that returns its object, or, when
\* a null object makes get() throw, those of all the calls of the thread.
Unlocked(t, object) ==
  [c \in Containers |-> [T \in Types |->
    IF registrations[c][T].holder # t THEN registrations[c][T]
    ELSE IF object = Null THEN [registrations[c][T] EXCEPT !.holder = NoThread]
    ELSE IF c = Top(t).at /\ T = Top(t).type
      THEN [registrations[c][T] EXCEPT !.holder = NoThread, !.value = object]
    ELSE registrations[c][T]]]

FinishFactory(t) ==
  /\ calls[t] # <<>> /\ Top(t).step = "make" /\ Top(t).left = <<>>
  /\ LET object == Made(t)
     IN  /\ registrations' = Unlocked(t, object)
         /\ calls' = [calls EXCEPT ![t] = Returned(t, object)]
         /\ given' = IF object = Null \/ Found(t).lifetime = "transient" THEN given
                     ELSE [given EXCEPT ![Top(t).at][Top(t).type] = @ \cup {object}]
         /\ built' = IF Found(t).factory = "make" THEN built + 1 ELSE built
  /\ UNCHANGED <<born, inherited, doubles>>

-------------------------------------------------------------------------------

\* add<T>(lifetime) and add<T>(factory).
AddDefault(t, c, T, lifetime) ==
  /\ calls[t] = <<>> /\ Usable(c)
  /\ Emplaced(c, T, DefaultFactory(c, T, lifetime))
  /\ UNCHANGED <<calls, built, born, given, inherited, doubles>>

\* add<T, U>(): T is cast from what this container resolves for U.
AddAlias(t, c, T, U) ==
  /\ calls[t] = <<>> /\ Usable(c)
  /\ Emplaced(c, T, Registration("alias", c, U, Null, "singleton"))
  /\ UNCHANGED <<calls, built, born, given, inherited, doubles>>

\* add<T>(instance) of an object the program made.
AddInstance(t, c, T) ==
  /\ calls[t] = <<>> /\ Usable(c)
  /\ built' = built + 1
  /\ Emplaced(c, T, Registration("instance", c, T, built', "singleton"))
  /\ doubles' = IF c = Child /\ doubles[T] = Null THEN [doubles EXCEPT ![T] = built'] ELSE doubles
  /\ UNCHANGED <<calls, born, given, inherited>>

\* create<T>(): the object is registered, or dropped for the one registered before.
Create(t, c, T) ==
  /\ calls[t] = <<>> /\ Usable(c)
  /\ built' = built + 1
  /\ Emplaced(c, T, Registration("instance", c, T, built', "singleton"))
  /\ IF Is(c, T, "absent")
       THEN /\ given' = [given EXCEPT ![c][T] = @ \cup {built'}]
            /\ UNCHANGED calls
       ELSE /\ calls' = [calls EXCEPT ![t] = Calling(t, c, T)]
            /\ UNCHANGED given
  /\ UNCHANGED <<born, inherited, doubles>>

\* clone_into(): the factory keeps the container it captured; the mutex is new. The object is read
\* without the mutex of the registration it is copied from, here in one piece with the rest.
Clone(registration) ==
  [registration EXCEPT !.holder = NoThread]

CreateChild(t) ==
  /\ calls[t] = <<>> /\ ~born
  /\ born' = TRUE
  /\ registrations' = [registrations EXCEPT ![Child] =
       [T \in Types |-> Clone(registrations[Root][T])]]
  /\ inherited' = given[Root]
  /\ UNCHANGED <<calls, built, given, doubles>>

-------------------------------------------------------------------------------

CallStep(t) == Find(t) \/ GetKept(t) \/ StartFactory(t) \/ ResolveNested(t) \/ FinishFactory(t)

Uses(t) ==
  /\ built < MaxBuilt
  /\ \/ CreateChild(t)
     \/ \E c \in Containers, T \in Types :
          \/ Resolve(t, c, T)
          \/ <<"instance", c, T>> \in Setups /\ AddInstance(t, c, T)
          \/ <<"create", c, T>> \in Setups /\ Create(t, c, T)
          \/ \E lifetime \in {"singleton", "transient"} :
               <<lifetime, c, T>> \in Setups /\ AddDefault(t, c, T, lifetime)
          \/ \E U \in Types : /\ <<"alias", c, T>> \in Setups /\ Rank[U] < Rank[T]
                             /\ AddAlias(t, c, T, U)

DependencyNext == \E t \in Users : CallStep(t) \/ Uses(t)

DependencySpec == DependencyInit /\ [][DependencyNext]_containerVars

-------------------------------------------------------------------------------

\* A service has one object for each container, however many threads ask for it
\* first, and a child goes on with the object its root had given out.
OneInstance ==
  \A T \in Types, c \in Containers :
    /\ \A a, b \in given[c][T] : a = b
    /\ inherited[T] # {} => given[Child][T] \subseteq inherited[T]

Waits(t) == Top(t).step = "get" /\ Found(t).lifetime = "singleton" /\ Found(t).holder # NoThread

\* Threads that resolve services never all wait for each other, also when the
\* constructor of one fails: a mutex that somebody waits for is given back.
SomeoneGoesOn ==
  (\E t \in Users : calls[t] # <<>>) => \E t \in Users : calls[t] # <<>> /\ ~Waits(t)

\* A service has one object for all, and threads that ask for it get on.
ServicesAreShared == OneInstance /\ SomeoneGoesOn

\* The claim of DependencyContainer.md: a child swaps a service for a test double.
ChildSeesItsDouble ==
  \A T \in Types : doubles[T] # Null => given[Child][T] \subseteq {doubles[T]}
===============================================================================
