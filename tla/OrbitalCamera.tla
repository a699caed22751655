---------------------------- MODULE OrbitalCamera ----------------------------
(***************************************************************************)
(* OrbitalCamera: keys that are held move the camera.  App::Event hands a   *)
(* key on only while the user interface does not want the keyboard, which   *)
(* it may want or give back while keys are down: the camera sees some of    *)
(* the transitions of the keys, and the others are swallowed.               *)
(***************************************************************************)
EXTENDS Integers

CONSTANTS
  Keys,     \* a subset of the keys below
  MaxMissed \* bounds missed, either way

Shifts == {"LSHIFT", "RSHIFT"}
Axis == [W |-> "forward", S |-> "forward", A |-> "right", D |-> "right", E |-> "up", Q |-> "up"]
Way == [W |-> 1, S |-> -1, A |-> -1, D |-> 1, E |-> 1, Q |-> -1]

ASSUME KeysAssumption == Keys \subseteq DOMAIN Axis \union Shifts /\ MaxMissed \in Nat

VARIABLES
  held,     \* the keys that are down
  captured, \* io.WantCaptureKeyboard
  go,       \* m_goForward, m_goRight, m_goUp
  speed,    \* m_speed, as the power of four that 16 is multiplied by
  missed,   \* history: presses of a shift key that were swallowed, less the swallowed releases
  adrift    \* history: keys whose release was swallowed, with none of their axis seen since

cameraVars == <<held, captured, go, speed, missed, adrift>>

CameraInit ==
  /\ held = {} /\ captured = FALSE /\ speed = 0 /\ missed = 0 /\ adrift = {}
  /\ go = [a \in {"forward", "right", "up"} |-> 0]

\* Mutant: a key that repeats is taken for another press.
KeyboardDownAgain(k, repeat) ==
  IF k \in Shifts THEN speed' = speed - 1 /\ UNCHANGED go
  ELSE go' = [go EXCEPT ![Axis[k]] = Way[k]] /\ UNCHANGED speed

KeyboardDown(k, repeat) ==
  IF k \in Shifts THEN speed' = (IF repeat THEN speed ELSE speed - 1) /\ UNCHANGED go
  ELSE go' = [go EXCEPT ![Axis[k]] = Way[k]] /\ UNCHANGED speed

KeyboardUp(k) ==
  IF k \in Shifts THEN speed' = speed + 1 /\ UNCHANGED go
  ELSE go' = [go EXCEPT ![Axis[k]] = 0] /\ UNCHANGED speed

Misses(k, n) ==
  /\ missed' = (IF k \in Shifts THEN missed + n ELSE missed)
  /\ missed' \in -MaxMissed..MaxMissed

Press ==
  \E k \in Keys \ held :
    /\ held' = held \union {k} /\ adrift' = adrift \ {k} /\ UNCHANGED captured
    /\ \/ ~captured /\ KeyboardDown(k, FALSE) /\ UNCHANGED missed
       \/ captured /\ Misses(k, 1) /\ UNCHANGED <<go, speed>>

\* A key that was pressed while the user interface had the keyboard also repeats.
Repeat ==
  \E k \in held :
    /\ ~captured /\ KeyboardDown(k, TRUE)
    /\ UNCHANGED <<held, captured, missed, adrift>>

\* The camera sees that k is let go: with it, every key of that axis is.
SeesRelease(k) ==
  /\ KeyboardUp(k) /\ UNCHANGED missed
  /\ adrift' = {j \in adrift : k \in Shifts \/ Axis[j] # Axis[k]}

Release ==
  \E k \in held :
    /\ held' = held \ {k} /\ UNCHANGED captured
    /\ \/ ~captured /\ SeesRelease(k)
       \/ /\ captured /\ Misses(k, -1) /\ UNCHANGED <<go, speed>>
          /\ adrift' = adrift \union ({k} \ Shifts)

Capture == captured' = ~captured /\ UNCHANGED <<held, go, speed, missed, adrift>>

CameraNext == Press \/ Repeat \/ Release \/ Capture

CameraSpec == CameraInit /\ [][CameraNext]_cameraVars

\* With no key down the camera moves along an axis only as a key of that axis pointed whose
\* release was swallowed, until it sees a key of that axis let go; and its speed is off by what
\* was swallowed of the shift keys and by nothing else: by no order of opposite keys, of both shift
\* keys and of repeats, whenever the user interface takes the keyboard and gives it back.
OnlyTheSwallowedLasts ==
  held = {} =>
    /\ speed = missed
    /\ \A a \in DOMAIN go : go[a] # 0 => \E k \in adrift : Axis[k] = a /\ Way[k] = go[a]
===============================================================================
