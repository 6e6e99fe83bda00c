----------------------------- MODULE FanControl -----------------------------
(***************************************************************************)
(* The fan utility (src/fan_control.c): fans of one program, the table of  *)
(* claimed PWM channels they share, and the PWM slices, each with two      *)
(* channels that cannot be set up apart.  A slice drives fans or counts    *)
(* the pulses of a tachometer.                                             *)
(***************************************************************************)
EXTENDS Integers

CONSTANTS
  Fans,          \* the program's fan_inst_t's
  Slices,        \* PWM slices
  MaxFanSpeed,   \* MAX_FAN_SPEED_VALUE
  LevelSize,     \* a channel level has 2^16 values
  Speeds,        \* speeds a program sets
  MinSpeeds,     \* minimum speeds of its fans
  Curves,        \* its fan_curve_t's
  Inputs,        \* what it measures: integers and NaN
  NaN,           \* not a number
  Asserts        \* the build has assert(): NDEBUG is not defined

Chans == {"A", "B"}
Pins == Slices \X Chans      \* a GPIO, by the slice and channel it belongs to
NoPin == <<>>
Sane(map) == map.min_speed <= map.max_speed /\ map.min_input < map.max_input

ASSUME FanAssumption ==
  /\ MaxFanSpeed \in Nat
  /\ LevelSize \in Nat /\ MaxFanSpeed < LevelSize
  /\ Speeds \subseteq Nat
  /\ MinSpeeds \subseteq 0..MaxFanSpeed
  /\ Curves \subseteq [min_speed : Nat, max_speed : Nat, min_input : Int, max_input : Int]
  /\ Inputs \ {NaN} \subseteq Int
  /\ Asserts \in BOOLEAN

VARIABLES
  chan_claim_state,   \* per channel
  fans,               \* the instances; pwm is NoPin before fan_init
  mode,               \* per slice, what it was initialised for
  level               \* per channel, the compare level of the slice

fanVars == <<chan_claim_state, fans, mode, level>>

Use(claims, slice) == {claims[<<slice, chan>>] : chan \in Chans}

Driven(f) == fans[f].pwm # NoPin

---------------------------------------------------------------------------
(* Set-up                                                                  *)

TachosOverlooked(pin, tacho) ==
  /\ chan_claim_state[pin] = "FREE"
  /\ tacho # NoPin => Use(chan_claim_state, tacho[1]) = {"FREE"} /\ tacho[2] = "B"

(* What fan_init asserts, in its order.                                    *)
ChannelsAreFree(pin, tacho) ==
  /\ chan_claim_state[pin] = "FREE"
  /\ chan_claim_state[<<pin[1], "B">>] # "TACHO"
  /\ tacho # NoPin =>
       /\ tacho[2] = "B"
       /\ Use(chan_claim_state, tacho[1]) = {"FREE"}
       /\ tacho[1] # pin[1]

AlwaysSetUp(claims, slice) == TRUE
NotYetSetUp(claims, slice) == Use(claims, slice) = {"FREE"}

(* Setting up a slice clears the levels of both its channels.              *)
fan_init ==
  \E f \in Fans, pin \in Pins, tacho \in Pins \cup {NoPin}, min \in MinSpeeds :
    LET claims == [p \in Pins |-> IF p = tacho THEN "TACHO" ELSE chan_claim_state[p]]
        set_up == {s \in Slices : \/ tacho # NoPin /\ s = tacho[1]
                                  \/ s = pin[1] /\ NotYetSetUp(claims, s)}
    IN
    /\ Asserts => ChannelsAreFree(pin, tacho)
    /\ fans' = [fans EXCEPT ![f] = [pwm |-> pin, min_speed |-> min, speed |-> 0]]
    /\ chan_claim_state' = [claims EXCEPT ![pin] = "PWM"]
    /\ mode' = [s \in Slices |->
                  IF s \notin set_up THEN mode[s]
                  ELSE IF s = pin[1] /\ NotYetSetUp(claims, s) THEN "speed" ELSE "tacho"]
    /\ level' = [p \in Pins |-> IF p[1] \in set_up THEN 0 ELSE level[p]]

---------------------------------------------------------------------------
(* Speeds                                                                  *)

SetSpeed(f, speed) ==
  /\ level' = [level EXCEPT ![fans[f].pwm] = speed % LevelSize]
  /\ fans' = [fans EXCEPT ![f].speed = speed]
  /\ UNCHANGED <<chan_claim_state, mode>>

ClampedBelow(speed, min) == IF speed < min THEN 0 ELSE speed
Clamped(speed, min) ==
  CASE speed < min -> 0
    [] speed >= min /\ speed > MaxFanSpeed -> MaxFanSpeed
    [] OTHER -> speed

fan_set_speed_man ==
  \E f \in Fans, speed \in Speeds :
    Driven(f) /\ SetSpeed(f, Clamped(speed, fans[f].min_speed))

(* roundf of num / den.  At a half, the error of the float division has    *)
(* either neighbour come out.                                              *)
Nearest(num, den) ==
  LET down == num \div den
      twice == 2 * (num % den)
  IN  (IF twice <= den THEN {down} ELSE {}) \cup (IF twice >= den THEN {down + 1} ELSE {})

Rise(map, input) ==
  Nearest((map.max_speed - map.min_speed) * (input - map.min_input),
          map.max_input - map.min_input)
OnLineFromZero(map, input) == Rise(map, input)
(* The points of the line.  "input == NAN" never holds, so that NaN gets   *)
(* here too: converting it gives any uint, of 32 bits, and so does the     *)
(* slope of a curve that falls (its uint difference wraps) or has no width.*)
UintSize == LevelSize * LevelSize
OnLine(map, input) ==
  IF input # NaN /\ Sane(map)
  THEN {map.min_speed + rise : rise \in Rise(map, input)}
  ELSE 0..(UintSize - 1)

Outputs(map, input) ==
  CASE input # NaN /\ input > map.max_input -> {map.max_speed}
    [] input # NaN /\ input <= map.max_input /\ input < map.min_input -> {map.min_speed}
    [] OTHER -> OnLine(map, input)

Curved(map, input, min) ==
  {IF output < min THEN 0 ELSE output : output \in Outputs(map, input)}

fan_set_speed_curve ==
  \E f \in Fans, map \in Curves, input \in Inputs :
    /\ Driven(f)
    /\ \E speed \in Curved(map, input, fans[f].min_speed) : SetSpeed(f, speed)

---------------------------------------------------------------------------
FanInit ==
  /\ chan_claim_state = [p \in Pins |-> "FREE"]
  /\ fans = [f \in Fans |-> [pwm |-> NoPin, min_speed |-> 0, speed |-> 0]]
  /\ mode = [s \in Slices |-> "off"]
  /\ level = [p \in Pins |-> 0]

FanNext == fan_init \/ fan_set_speed_man \/ fan_set_speed_curve

---------------------------------------------------------------------------
(* Properties                                                              *)

FanTypeOK ==
  /\ chan_claim_state \in [Pins -> {"FREE", "PWM", "TACHO"}]
  /\ fans \in [Fans -> [pwm : Pins \cup {NoPin}, min_speed : MinSpeeds \cup {0}, speed : Nat]]
  /\ mode \in [Slices -> {"off", "speed", "tacho"}]
  /\ level \in [Pins -> 0..(LevelSize - 1)]

(* A fan runs at the speed its instance says, whatever was set up after    *)
(* it: its slice still drives fans and its channel has that level.  "Do    *)
(* not initialise the PWM slice if it's already initialised".              *)
RunsAtItsSpeed ==
  \A f \in Fans :
    Driven(f) => /\ mode[fans[f].pwm[1]] = "speed"
                 /\ level[fans[f].pwm] = fans[f].speed

(* A tachometer has its slice to itself, set up to count.                  *)
TachoAlone ==
  \A s \in Slices :
    "TACHO" \in Use(chan_claim_state, s) =>
      mode[s] = "tacho" /\ Use(chan_claim_state, s) = {"FREE", "TACHO"}

(* A fan stands still or runs at no less than its minimum, and never past  *)
(* the maximum, whichever of the two functions set it.                     *)
SpeedInRange ==
  \A f \in Fans : fans[f].speed \in {0} \cup (fans[f].min_speed..MaxFanSpeed)

(* A hotter board is not cooled less: along a curve that rises, the speed  *)
(* does not fall from one input to a higher one, across both its ends and  *)
(* the fan's minimum.                                                      *)
NeverSlowerWhenHotter ==
  \A f \in Fans, map \in Curves, input, higher \in Inputs \ {NaN} :
    Sane(map) /\ input < higher =>
      \A s \in Curved(map, input, fans[f].min_speed),
         t \in Curved(map, higher, fans[f].min_speed) : s <= t
=============================================================================
