-------------------------- MODULE FanControlProofs --------------------------
(***************************************************************************)
(* Facts about the curves and slices of fan_control, for all speeds,       *)
(* curves, fans and slices.                                                *)
(***************************************************************************)
EXTENDS FanControl, TLAPS

---------------------------------------------------------------------------
(* Points of a curve                                                       *)

(* Division by a positive number, as multiplication.                       *)
LEMMA Quotient ==
  ASSUME NEW num \in Int, NEW den \in Nat \ {0}
  PROVE  /\ num \div den \in Int /\ num % den \in 0..(den - 1)
         /\ num = den * (num \div den) + (num % den)
  BY SMT

(* A product with a positive number is as large as its other factor is.    *)
LEMMA Cancel ==
  ASSUME NEW a \in Int, NEW b \in Int, NEW d \in Nat \ {0}, d * a < d * b
  PROVE  a < b
<1>1. ASSUME a >= b PROVE FALSE
  <2>1. PICK k \in Nat : a = b + k
    <3>1. a - b \in Nat /\ a = b + (a - b)
      BY <1>1, SMT
    <3> QED BY <3>1
  <2>2. d * k \in Nat
    BY SMT
  <2>3. d * a = d * b + d * k
    BY <2>1, SMT
  <2> QED BY <2>2, <2>3, SMT
<1> QED BY <1>1, SMT

(* What roundf returns is no further than a half from num / den.           *)
LEMMA Rounded ==
  ASSUME NEW num \in Int, NEW den \in Nat \ {0}, NEW n \in Nearest(num, den)
  PROVE  /\ n \in Int
         /\ 2 * num - den <= 2 * (den * n) /\ 2 * (den * n) <= 2 * num + den
<1> DEFINE down == num \div den
           rest == num % den
<1>1. down \in Int /\ rest \in 0..(den - 1) /\ num = den * down + rest
  BY Quotient
<1>2. (n = down /\ 2 * rest <= den) \/ (n = down + 1 /\ 2 * rest >= den)
  BY DEF Nearest
<1> HIDE DEF down, rest
<1>3. CASE n = down /\ 2 * rest <= den
  BY <1>1, <1>3, SMT
<1>4. CASE n = down + 1 /\ 2 * rest >= den
  <2>1. den * n = den * down + den
    BY <1>1, <1>4, SMT
  <2> QED BY <1>1, <1>4, <2>1, SMT
<1> QED BY <1>2, <1>3, <1>4

(* A point of a curve that rises lies between its ends.                    *)
LEMMA RiseBounded ==
  ASSUME NEW map \in Curves, Sane(map), NEW input \in Int,
         map.min_input <= input, input <= map.max_input,
         NEW rise \in Rise(map, input)
  PROVE  rise \in 0..(map.max_speed - map.min_speed)
<1> DEFINE height == map.max_speed - map.min_speed
           den == map.max_input - map.min_input
           along == input - map.min_input
<1>1. height \in Nat /\ den \in Nat \ {0} /\ along \in 0..den
  BY FanAssumption DEF Sane
<1>2. rise \in Nearest(height * along, den)
  BY DEF Rise
<1> HIDE DEF height, den, along
<1>3. height * along \in Nat
  BY <1>1, SMT
<1>4. height * along <= den * height
  <2>1. PICK k \in Nat : den = along + k
    <3>1. den - along \in Nat /\ den = along + (den - along)
      BY <1>1
    <3> QED BY <3>1
  <2>2. height * k \in Nat
    BY <1>1, SMT
  <2>3. den * height = height * along + height * k
    BY <1>1, <2>1, SMT
  <2> QED BY <1>1, <1>3, <2>2, <2>3, SMT
<1>5. /\ rise \in Int
      /\ 2 * (height * along) - den <= 2 * (den * rise)
      /\ 2 * (den * rise) <= 2 * (height * along) + den
  BY <1>1, <1>2, <1>3, Rounded
<1>6. den * (0 - 1) < den * rise
  <2>1. den * rise \in Int
    BY <1>1, <1>5, SMT
  <2> QED BY <1>1, <1>3, <1>5, <2>1, SMT
<1>7. den * rise < den * (height + 1)
  <2>1. den * rise \in Int /\ den * height \in Int /\ den * (height + 1) = den * height + den
    BY <1>1, <1>5, SMT
  <2> QED BY <1>1, <1>3, <1>4, <1>5, <2>1, SMT
<1>8. 0 - 1 < rise /\ rise < height + 1
  BY <1>1, <1>5, <1>6, <1>7, Cancel
<1> QED BY <1>1, <1>5, <1>8 DEF height

(* What a curve gives, for any input, lies between its two speeds.         *)
LEMMA OutputsBounded ==
  ASSUME NEW map \in Curves, Sane(map), NEW input \in Int, input # NaN,
         NEW output \in Outputs(map, input)
  PROVE  output \in map.min_speed..map.max_speed
<1>1. /\ map.min_speed \in Nat /\ map.max_speed \in Nat
      /\ map.min_input \in Int /\ map.max_input \in Int
      /\ map.min_speed <= map.max_speed
  BY FanAssumption DEF Sane
<1>2. CASE input > map.max_input
  BY <1>1, <1>2 DEF Outputs
<1>3. CASE input <= map.max_input /\ input < map.min_input
  BY <1>1, <1>3 DEF Outputs
<1>4. CASE input <= map.max_input /\ map.min_input <= input
  <2>1. PICK rise \in Rise(map, input) : output = map.min_speed + rise
    BY <1>1, <1>4 DEF Outputs, OnLine
  <2>2. rise \in 0..(map.max_speed - map.min_speed)
    BY <1>4, RiseBounded
  <2> QED BY <1>1, <2>1, <2>2
<1> QED BY <1>1, <1>2, <1>3, <1>4

(* Two points of a curve that rises: that of the higher input is no lower. *)
LEMMA RiseMonotone ==
  ASSUME NEW map \in Curves, Sane(map), NEW input \in Int, NEW higher \in Int,
         map.min_input <= input, input < higher, higher <= map.max_input,
         NEW s \in Rise(map, input), NEW t \in Rise(map, higher)
  PROVE  s <= t
<1> DEFINE height == map.max_speed - map.min_speed
           den == map.max_input - map.min_input
           along == input - map.min_input
           further == higher - input
<1>1. height \in Nat /\ den \in Nat \ {0} /\ along \in Nat /\ further \in Nat \ {0}
  BY FanAssumption DEF Sane
<1>2. s \in Nearest(height * along, den) /\ t \in Nearest(height * (along + further), den)
  <2>1. higher - map.min_input = along + further
    BY FanAssumption
  <2> QED BY <2>1 DEF Rise
<1>3. s \in 0..height /\ t \in 0..height
  <2>1. map.min_input \in Int /\ map.max_input \in Int
    BY FanAssumption
  <2>2. input <= map.max_input /\ map.min_input <= higher
    BY <2>1
  <2> QED BY <2>2, RiseBounded
<1> HIDE DEF height, den, along, further
<1>4. CASE height = 0
  BY <1>3, <1>4
<1>5. CASE height # 0
  <2> DEFINE near == height * along
             more == height * further
  <2>1. near \in Int /\ more \in Int /\ more > 0 /\ height * (along + further) = near + more
    BY <1>1, <1>5, SMT
  <2>2. s \in Int /\ t \in Int
    BY <1>1, <1>3
  <2>3. 2 * (den * s) <= 2 * near + den
    BY <1>1, <1>2, <2>1, Rounded
  <2>4. 2 * (near + more) - den <= 2 * (den * t)
    BY <1>1, <1>2, <2>1, Rounded
  <2>5. den * s \in Int /\ den * t \in Int /\ den * (t + 1) = den * t + den
    BY <1>1, <2>2, SMT
  <2>6. den * s < den * (t + 1)
    <3> HIDE DEF near, more
    <3> QED BY <1>1, <2>1, <2>3, <2>4, <2>5, SMT
  <2>7. s < t + 1
    BY <1>1, <2>2, <2>6, Cancel
  <2> QED BY <2>2, <2>7
<1> QED BY <1>4, <1>5

(* The same of everything a curve gives, across both its ends.             *)
LEMMA OutputsMonotone ==
  ASSUME NEW map \in Curves, Sane(map), NEW input \in Int, NEW higher \in Int,
         input # NaN, higher # NaN, input < higher,
         NEW s \in Outputs(map, input), NEW t \in Outputs(map, higher)
  PROVE  s <= t
<1>1. /\ map.min_speed \in Nat /\ map.max_speed \in Nat
      /\ map.min_input \in Int /\ map.max_input \in Int
      /\ map.min_input < map.max_input
  BY FanAssumption DEF Sane
<1>2. s \in map.min_speed..map.max_speed /\ t \in map.min_speed..map.max_speed
  BY OutputsBounded
<1>3. CASE input < map.min_input
  <2>1. s = map.min_speed
    BY <1>1, <1>3 DEF Outputs
  <2> QED BY <1>1, <1>2, <2>1
<1>4. CASE higher > map.max_input
  <2>1. t = map.max_speed
    BY <1>1, <1>4 DEF Outputs
  <2> QED BY <1>1, <1>2, <2>1
<1>5. CASE map.min_input <= input /\ higher <= map.max_input
  <2>1. PICK a \in Rise(map, input) : s = map.min_speed + a
    BY <1>1, <1>5 DEF Outputs, OnLine
  <2>2. PICK b \in Rise(map, higher) : t = map.min_speed + b
    BY <1>1, <1>5 DEF Outputs, OnLine
  <2>3. a <= b
    BY <1>5, RiseMonotone
  <2>4. a \in Int /\ b \in Int
    <3>1. input <= map.max_input /\ map.min_input <= higher
      BY <1>1, <1>5
    <3>2. a \in 0..(map.max_speed - map.min_speed) /\ b \in 0..(map.max_speed - map.min_speed)
      BY <1>5, <3>1, RiseBounded
    <3> QED BY <1>1, <3>2
  <2> QED BY <1>1, <2>1, <2>2, <2>3, <2>4
<1> QED BY <1>1, <1>3, <1>4, <1>5

---------------------------------------------------------------------------
(* Types                                                                   *)

(* A curve, ordinary or not, gives a natural number.                       *)
LEMMA OutputsNat ==
  ASSUME NEW map \in Curves, NEW input \in Inputs, NEW output \in Outputs(map, input)
  PROVE  output \in Nat
<1>1. /\ LevelSize \in Nat /\ map.min_speed \in Nat /\ map.max_speed \in Nat
      /\ UintSize \in Int
  BY FanAssumption, SMT DEF UintSize
<1>2. CASE input = NaN
  BY <1>1, <1>2 DEF Outputs, OnLine
<1>3. CASE input # NaN /\ Sane(map)
  <2>1. input \in Int
    BY <1>3, FanAssumption
  <2>2. output \in map.min_speed..map.max_speed
    BY <1>3, <2>1, OutputsBounded
  <2> QED BY <1>1, <2>2
<1>4. CASE input # NaN /\ ~Sane(map)
  BY <1>1, <1>4 DEF Outputs, OnLine
<1> QED BY <1>2, <1>3, <1>4

(* A pin is a slice and a channel, and is not the absence of one.          *)
LEMMA PinIsNotNoPin ==
  \A p \in Pins : p # NoPin /\ p[1] \in Slices /\ p[2] \in Chans /\ p = <<p[1], p[2]>>
  BY DEF Pins, NoPin

(* Setting a speed changes that speed and one level.                       *)
LEMMA SetSpeedTyped ==
  ASSUME FanTypeOK, NEW f \in Fans, Driven(f), NEW speed \in Nat, SetSpeed(f, speed)
  PROVE  FanTypeOK'
<1>1. speed % LevelSize \in 0..(LevelSize - 1)
  <2>1. LevelSize \in Nat \ {0}
    BY FanAssumption
  <2> QED BY <2>1, Quotient
<1>2. fans[f].pwm \in Pins
  BY DEF FanTypeOK, Driven
<1> QED BY <1>1, <1>2 DEF FanTypeOK, SetSpeed

(* The types hold initially, before anything is claimed.                   *)
LEMMA FanTypeInit == FanInit => FanTypeOK
  BY FanAssumption DEF FanInit, FanTypeOK

(* Every call keeps the types, also with curves that are not ordinary.     *)
LEMMA FanTypeNext ==
  ASSUME FanTypeOK, [FanNext]_fanVars
  PROVE  FanTypeOK'
<1>1. CASE fan_init
  <2>1. PICK f \in Fans, pin \in Pins, tacho \in Pins \cup {NoPin}, min \in MinSpeeds :
          fan_init!(f, pin, tacho, min)
    BY <1>1 DEF fan_init
  <2>2. fans' \in [Fans -> [pwm : Pins \cup {NoPin}, min_speed : MinSpeeds \cup {0}, speed : Nat]]
    BY <2>1 DEF FanTypeOK
  <2>3. chan_claim_state' \in [Pins -> {"FREE", "PWM", "TACHO"}]
    BY <2>1 DEF FanTypeOK
  <2>4. mode' \in [Slices -> {"off", "speed", "tacho"}]
    BY <2>1 DEF FanTypeOK
  <2>5. level' \in [Pins -> 0..(LevelSize - 1)]
    BY <2>1, FanAssumption DEF FanTypeOK
  <2> QED BY <2>2, <2>3, <2>4, <2>5 DEF FanTypeOK
<1>2. CASE fan_set_speed_man
  <2>1. PICK f \in Fans, speed \in Speeds : Driven(f) /\ SetSpeed(f, Clamped(speed, fans[f].min_speed))
    BY <1>2 DEF fan_set_speed_man
  <2>2. Clamped(speed, fans[f].min_speed) \in Nat
    BY FanAssumption DEF Clamped, FanTypeOK
  <2> QED BY <2>1, <2>2, SetSpeedTyped
<1>3. CASE fan_set_speed_curve
  <2>1. PICK f \in Fans, map \in Curves, input \in Inputs :
          Driven(f) /\ \E speed \in Curved(map, input, fans[f].min_speed) : SetSpeed(f, speed)
    BY <1>3 DEF fan_set_speed_curve
  <2>2. PICK speed \in Curved(map, input, fans[f].min_speed) : SetSpeed(f, speed)
    BY <2>1
  <2>3. speed \in Nat
    BY OutputsNat DEF Curved
  <2> QED BY <2>1, <2>2, <2>3, SetSpeedTyped
<1>4. CASE UNCHANGED fanVars
  BY <1>4 DEF FanTypeOK, fanVars
<1> QED BY <1>1, <1>2, <1>3, <1>4 DEF FanNext

---------------------------------------------------------------------------
(* Claims and slices, in a build with assertions                           *)

(* The table of claims is the truth: fans have channels of their own,      *)
(* claimed as such, on slices that drive fans; a tachometer is claimed on  *)
(* a slice that counts and where nothing else is.                          *)
Claimed ==
  /\ \A f \in Fans : Driven(f) => chan_claim_state[fans[f].pwm] = "PWM"
  /\ \A f, g \in Fans : f # g /\ Driven(f) /\ Driven(g) => fans[f].pwm # fans[g].pwm
  /\ \A s \in Slices, c \in Chans : chan_claim_state[<<s, c>>] = "PWM" => mode[s] = "speed"
  /\ \A s \in Slices :
       /\ chan_claim_state[<<s, "A">>] # "TACHO"
       /\ chan_claim_state[<<s, "B">>] = "TACHO" =>
            mode[s] = "tacho" /\ chan_claim_state[<<s, "A">>] = "FREE"

(* A slice has two channels.                                               *)
LEMMA UseOfBoth ==
  ASSUME NEW claims, NEW s
  PROVE  Use(claims, s) = {claims[<<s, "A">>], claims[<<s, "B">>]}
  BY DEF Use, Chans

(* Before the first fan_init nothing is claimed.                           *)
LEMMA ClaimedInit == FanInit => Claimed
  BY PinIsNotNoPin DEF FanInit, Claimed, Driven, Pins, Chans

(* One call of fan_init, and what it leaves behind, claim by claim and     *)
(* slice by slice.                                                         *)
SetUp(f, pin, tacho, min) == fan_init!(f, pin, tacho, min)

LeavesBehind(pin, tacho) ==
  /\ chan_claim_state[pin] = "FREE"
  /\ chan_claim_state[<<pin[1], "A">>] # "TACHO"
  /\ chan_claim_state[<<pin[1], "B">>] # "TACHO"
  /\ \A p \in Pins : chan_claim_state'[p] =
       IF p = pin THEN "PWM" ELSE IF p = tacho THEN "TACHO" ELSE chan_claim_state[p]
  /\ tacho # NoPin =>
       /\ tacho = <<tacho[1], "B">> /\ tacho[1] \in Slices /\ tacho[1] # pin[1]
       /\ chan_claim_state[<<tacho[1], "A">>] = "FREE"
       /\ chan_claim_state[<<tacho[1], "B">>] = "FREE"
       /\ mode'[tacho[1]] = "tacho"
  /\ mode'[pin[1]] = "speed"
  /\ \A s \in Slices : s # pin[1] /\ (tacho = NoPin \/ s # tacho[1]) => mode'[s] = mode[s]
  /\ \A p \in Pins : chan_claim_state[p] = "PWM" => level'[p] = level[p]
  /\ level'[pin] = level[pin] \/ level'[pin] = 0

(* It holds of every call that passes its assertions.                      *)
LEMMA FanInitStep ==
  ASSUME FanTypeOK, Claimed, Asserts,
         NEW f \in Fans, NEW pin \in Pins, NEW tacho \in Pins \cup {NoPin},
         NEW min \in MinSpeeds, SetUp(f, pin, tacho, min)
  PROVE  LeavesBehind(pin, tacho)
<1> USE DEF SetUp
<1> DEFINE claims == [p \in Pins |-> IF p = tacho THEN "TACHO" ELSE chan_claim_state[p]]
           set_up == {s \in Slices : \/ tacho # NoPin /\ s = tacho[1]
                                     \/ s = pin[1] /\ NotYetSetUp(claims, s)}
<1>1. ChannelsAreFree(pin, tacho)
  OBVIOUS
<1>2. pin[1] \in Slices /\ pin[2] \in {"A", "B"} /\ pin = <<pin[1], pin[2]>>
  BY PinIsNotNoPin DEF Chans
<1>3. \A s \in Slices : <<s, "A">> \in Pins /\ <<s, "B">> \in Pins
  BY DEF Pins, Chans
<1>4. /\ chan_claim_state[pin] = "FREE"
      /\ chan_claim_state[<<pin[1], "A">>] # "TACHO"
      /\ chan_claim_state[<<pin[1], "B">>] # "TACHO"
  BY <1>1, <1>2 DEF ChannelsAreFree, Claimed
<1>5. ASSUME tacho # NoPin
      PROVE  /\ tacho = <<tacho[1], "B">> /\ tacho[1] \in Slices /\ tacho[1] # pin[1]
             /\ chan_claim_state[<<tacho[1], "A">>] = "FREE"
             /\ chan_claim_state[<<tacho[1], "B">>] = "FREE"
  BY <1>1, <1>5, PinIsNotNoPin, UseOfBoth DEF ChannelsAreFree
<1>6. \A p \in Pins : chan_claim_state'[p] =
         IF p = pin THEN "PWM" ELSE IF p = tacho THEN "TACHO" ELSE chan_claim_state[p]
  OBVIOUS
<1>7. /\ mode' = [s \in Slices |->
                  IF s \notin set_up THEN mode[s]
                  ELSE IF s = pin[1] /\ NotYetSetUp(claims, s) THEN "speed" ELSE "tacho"]
      /\ level' = [p \in Pins |-> IF p[1] \in set_up THEN 0 ELSE level[p]]
  OBVIOUS
<1>8. \A s \in Slices : /\ s \in set_up <=> \/ tacho # NoPin /\ s = tacho[1]
                                            \/ s = pin[1] /\ NotYetSetUp(claims, s)
  OBVIOUS
<1>9. ASSUME tacho = NoPin \/ tacho[1] # pin[1]
      PROVE  /\ claims[<<pin[1], "A">>] = chan_claim_state[<<pin[1], "A">>]
             /\ claims[<<pin[1], "B">>] = chan_claim_state[<<pin[1], "B">>]
  BY <1>2, <1>3, <1>5, <1>9, PinIsNotNoPin
<1>10. NotYetSetUp(claims, pin[1]) <=> /\ chan_claim_state[<<pin[1], "A">>] = "FREE"
                                       /\ chan_claim_state[<<pin[1], "B">>] = "FREE"
  <2> HIDE DEF claims
  <2>1. NotYetSetUp(claims, pin[1]) <=> claims[<<pin[1], "A">>] = "FREE" /\ claims[<<pin[1], "B">>] = "FREE"
    BY UseOfBoth DEF NotYetSetUp
  <2> QED BY <1>5, <1>9, <2>1
<1> HIDE DEF claims, set_up
<1>11. tacho # NoPin => mode'[tacho[1]] = "tacho"
  BY <1>5, <1>7, <1>8
<1>12. mode'[pin[1]] = "speed"
  <2>1. CASE NotYetSetUp(claims, pin[1])
    BY <1>2, <1>7, <1>8, <2>1
  <2>2. CASE ~NotYetSetUp(claims, pin[1])
    <3>1. pin[1] \notin set_up
      BY <1>2, <1>5, <1>8, <2>2
    <3>2. chan_claim_state[<<pin[1], "A">>] = "PWM" \/ chan_claim_state[<<pin[1], "B">>] = "PWM"
      BY <1>2, <1>3, <1>4, <1>10, <2>2 DEF FanTypeOK
    <3>3. mode[pin[1]] = "speed"
      BY <1>2, <3>2 DEF Claimed, Chans
    <3> QED BY <1>2, <1>7, <3>1, <3>3
  <2> QED BY <2>1, <2>2
<1>13. \A s \in Slices : s # pin[1] /\ (tacho = NoPin \/ s # tacho[1]) => mode'[s] = mode[s]
  BY <1>7, <1>8
<1>14. ASSUME NEW p \in Pins, chan_claim_state[p] = "PWM" PROVE level'[p] = level[p]
  <2>1. p[1] \in Slices /\ (p = <<p[1], "A">> \/ p = <<p[1], "B">>)
    BY PinIsNotNoPin DEF Chans
  <2>2. p[1] \notin set_up
    BY <1>5, <1>8, <1>10, <1>14, <2>1
  <2> QED BY <1>7, <2>2
<1>15. level'[pin] = level[pin] \/ level'[pin] = 0
  BY <1>7
<1> QED BY <1>4, <1>5, <1>6, <1>11, <1>12, <1>13, <1>14, <1>15 DEF LeavesBehind

(* With assertions, no call makes the table untrue.                        *)
LEMMA ClaimedNext ==
  ASSUME FanTypeOK, Claimed, Asserts, [FanNext]_fanVars
  PROVE  Claimed'
<1>1. CASE fan_init
  <2>1. PICK f \in Fans, pin \in Pins, tacho \in Pins \cup {NoPin}, min \in MinSpeeds :
          SetUp(f, pin, tacho, min)
    BY <1>1 DEF fan_init, SetUp
  <2>2. /\ fans' = [fans EXCEPT ![f] = [pwm |-> pin, min_speed |-> min, speed |-> 0]]
        /\ fans'[f].pwm = pin /\ \A g \in Fans \ {f} : fans'[g] = fans[g]
    BY <2>1 DEF FanTypeOK, SetUp
  <2>3. LeavesBehind(pin, tacho)
    BY <2>1, FanInitStep
  <2> USE DEF LeavesBehind
  <2>4. /\ pin[1] \in Slices /\ (pin = <<pin[1], "A">> \/ pin = <<pin[1], "B">>)
        /\ \A s \in Slices, c \in Chans :
             /\ <<s, c>> \in Pins
             /\ s # pin[1] => <<s, c>> # pin
             /\ tacho = NoPin \/ s # tacho[1] => <<s, c>> # tacho
    BY PinIsNotNoPin DEF Chans, Pins
  <2>5. \A g \in Fans : Driven(g)' => chan_claim_state'[fans'[g].pwm] = "PWM"
    <3>1. SUFFICES ASSUME NEW g \in Fans, g # f, Driven(g) PROVE chan_claim_state'[fans[g].pwm] = "PWM"
      BY <2>2, <2>3 DEF Driven
    <3>2. fans[g].pwm \in Pins /\ chan_claim_state[fans[g].pwm] = "PWM"
      BY <3>1 DEF FanTypeOK, Claimed, Driven
    <3>3. fans[g].pwm # tacho
      BY <2>3, <3>2, PinIsNotNoPin
    <3> QED BY <2>3, <3>2, <3>3
  <2>6. ASSUME NEW g \in Fans, NEW h \in Fans, g # h, Driven(g)', Driven(h)'
        PROVE  fans'[g].pwm # fans'[h].pwm
    <3>1. \A k \in Fans \ {f} : Driven(k)' => fans'[k].pwm # pin
      BY <2>2, <2>3 DEF Driven, Claimed
    <3> QED BY <2>2, <2>6, <3>1 DEF Driven, Claimed
  <2>7. ASSUME NEW s \in Slices
        PROVE  \A c \in Chans : chan_claim_state'[<<s, c>>] = "PWM" => mode'[s] = "speed"
    <3>1. CASE s = pin[1]
      BY <2>3, <3>1
    <3>2. CASE tacho # NoPin /\ s = tacho[1]
      BY <2>3, <2>4, <3>2 DEF Chans
    <3>3. CASE s # pin[1] /\ (tacho = NoPin \/ s # tacho[1])
      <4>1. \A c \in Chans : chan_claim_state'[<<s, c>>] = "PWM" => chan_claim_state[<<s, c>>] = "PWM"
        BY <2>3, <2>4, <3>3
      <4> QED BY <2>3, <3>3, <4>1 DEF Claimed
    <3> QED BY <3>1, <3>2, <3>3
  <2>8. ASSUME NEW s \in Slices
        PROVE  /\ chan_claim_state'[<<s, "A">>] # "TACHO"
               /\ chan_claim_state'[<<s, "B">>] = "TACHO" => mode'[s] = "tacho" /\ chan_claim_state'[<<s, "A">>] = "FREE"
    <3>1. CASE s = pin[1]
      BY <2>3, <2>4, <3>1 DEF Chans
    <3>2. CASE tacho # NoPin /\ s = tacho[1]
      BY <2>3, <2>4, <3>2 DEF Chans
    <3>3. CASE s # pin[1] /\ (tacho = NoPin \/ s # tacho[1])
      <4>1. /\ chan_claim_state'[<<s, "A">>] = chan_claim_state[<<s, "A">>]
            /\ chan_claim_state'[<<s, "B">>] = chan_claim_state[<<s, "B">>]
        BY <2>3, <2>4, <3>3 DEF Chans
      <4> QED BY <2>3, <3>3, <4>1 DEF Claimed
    <3> QED BY <3>1, <3>2, <3>3
  <2> QED BY <2>5, <2>6, <2>7, <2>8 DEF Claimed
<1>2. CASE fan_set_speed_man \/ fan_set_speed_curve
  <2>1. PICK f \in Fans : \E speed : SetSpeed(f, speed)
    BY <1>2 DEF fan_set_speed_man, fan_set_speed_curve
  <2>2. \A g \in Fans : fans'[g].pwm = fans[g].pwm
    BY <2>1 DEF SetSpeed, FanTypeOK
  <2> QED BY <2>1, <2>2 DEF SetSpeed, Claimed, Driven
<1>3. CASE UNCHANGED fanVars
  BY <1>3 DEF Claimed, fanVars, Driven
<1> QED BY <1>1, <1>2, <1>3 DEF FanNext

---------------------------------------------------------------------------
(* Speeds                                                                  *)

(* What is asked of a program's curves: they rise, end within the maximum, *)
(* and are not given NaN.                                                  *)
OrdinaryCurves ==
  /\ NaN \notin Inputs
  /\ \A map \in Curves : Sane(map) /\ map.max_speed <= MaxFanSpeed

(* A fan's minimum does not exceed the maximum.                            *)
LEMMA MinInRange ==
  ASSUME FanTypeOK, NEW f \in Fans
  PROVE  fans[f].min_speed \in 0..MaxFanSpeed
<1>1. fans[f].min_speed \in MinSpeeds \cup {0}
  BY DEF FanTypeOK
<1>2. MinSpeeds \cup {0} \subseteq 0..MaxFanSpeed
  BY FanAssumption
<1> QED BY <1>1, <1>2

(* The three ways a step changes speeds and levels.                        *)
LEMMA SpeedStep ==
  ASSUME FanTypeOK, OrdinaryCurves, [FanNext]_fanVars
  PROVE  \/ fan_init
         \/ \E f \in Fans : \E speed \in {0} \cup (fans[f].min_speed..MaxFanSpeed) :
              Driven(f) /\ SetSpeed(f, speed)
         \/ UNCHANGED fanVars
<1>1. CASE fan_set_speed_man
  <2>1. PICK f \in Fans, speed \in Speeds : Driven(f) /\ SetSpeed(f, Clamped(speed, fans[f].min_speed))
    BY <1>1 DEF fan_set_speed_man
  <2>2. fans[f].min_speed \in 0..MaxFanSpeed
    BY MinInRange
  <2>3. Clamped(speed, fans[f].min_speed) \in {0} \cup (fans[f].min_speed..MaxFanSpeed)
    BY <2>2, FanAssumption DEF Clamped
  <2> QED BY <2>1, <2>3
<1>2. CASE fan_set_speed_curve
  <2>1. PICK f \in Fans, map \in Curves, input \in Inputs :
          Driven(f) /\ \E speed \in Curved(map, input, fans[f].min_speed) : SetSpeed(f, speed)
    BY <1>2 DEF fan_set_speed_curve
  <2>2. PICK output \in Outputs(map, input) :
          SetSpeed(f, IF output < fans[f].min_speed THEN 0 ELSE output)
    BY <2>1 DEF Curved
  <2>3. fans[f].min_speed \in 0..MaxFanSpeed
    BY MinInRange
  <2>4. input \in Int /\ input # NaN /\ Sane(map) /\ map.max_speed <= MaxFanSpeed
    BY FanAssumption DEF OrdinaryCurves
  <2>5. output \in map.min_speed..map.max_speed
    BY <2>4, OutputsBounded
  <2>6. map.min_speed \in Nat /\ map.max_speed \in Nat /\ MaxFanSpeed \in Nat
    BY FanAssumption
  <2>7. (IF output < fans[f].min_speed THEN 0 ELSE output) \in {0} \cup (fans[f].min_speed..MaxFanSpeed)
    BY <2>3, <2>4, <2>5, <2>6
  <2> QED BY <2>1, <2>2, <2>7
<1> QED BY <1>1, <1>2 DEF FanNext

(* Fans stand still at first.                                              *)
LEMMA SpeedsInit == FanInit => SpeedInRange
<1> SUFFICES ASSUME FanInit, NEW f \in Fans PROVE fans[f].speed = 0
  BY Zenon DEF SpeedInRange
<1>1. fans[f] = [pwm |-> NoPin, min_speed |-> 0, speed |-> 0]
  BY DEF FanInit
<1> QED BY <1>1

(* No call sets a speed out of its range.                                  *)
LEMMA SpeedsNext ==
  ASSUME FanTypeOK, SpeedInRange, OrdinaryCurves, [FanNext]_fanVars
  PROVE  SpeedInRange'
<1>1. CASE fan_init
  <2>1. PICK f \in Fans, pin \in Pins, tacho \in Pins \cup {NoPin}, min \in MinSpeeds :
          fans' = [fans EXCEPT ![f] = [pwm |-> pin, min_speed |-> min, speed |-> 0]]
    BY <1>1 DEF fan_init
  <2> QED BY <2>1 DEF SpeedInRange, FanTypeOK
<1>2. ASSUME NEW f \in Fans, NEW speed \in {0} \cup (fans[f].min_speed..MaxFanSpeed),
             SetSpeed(f, speed)
      PROVE  SpeedInRange'
  BY <1>2 DEF SpeedInRange, SetSpeed, FanTypeOK
<1>3. CASE UNCHANGED fanVars
  BY <1>3 DEF SpeedInRange, fanVars
<1> QED BY <1>1, <1>2, <1>3, SpeedStep

(* A channel's level is what its fan's instance says; a free one has none. *)
LevelsKept ==
  /\ \A f \in Fans : Driven(f) => level[fans[f].pwm] = fans[f].speed
  /\ \A p \in Pins : chan_claim_state[p] = "FREE" => level[p] = 0

(* Initially there are no levels.                                          *)
LEMMA LevelsInit == FanInit => LevelsKept
  BY DEF FanInit, LevelsKept, Driven

(* A fan's level stays its own, whatever is set up on its slice.           *)
LEMMA LevelsNext ==
  ASSUME FanTypeOK, Claimed, LevelsKept, Asserts, OrdinaryCurves, [FanNext]_fanVars
  PROVE  LevelsKept'
<1>1. CASE fan_init
  <2>1. PICK f \in Fans, pin \in Pins, tacho \in Pins \cup {NoPin}, min \in MinSpeeds :
          SetUp(f, pin, tacho, min)
    BY <1>1 DEF fan_init, SetUp
  <2>2. LeavesBehind(pin, tacho)
    BY <2>1, FanInitStep
  <2>3. /\ fans'[f].pwm = pin /\ fans'[f].speed = 0
        /\ \A g \in Fans \ {f} : fans'[g] = fans[g]
    BY <2>1 DEF FanTypeOK, SetUp
  <2>4. level'[pin] = 0
    BY <2>2 DEF LeavesBehind, LevelsKept
  <2>5. ASSUME NEW g \in Fans, g # f, Driven(g) PROVE level'[fans[g].pwm] = fans[g].speed
    <3>1. fans[g].pwm \in Pins /\ chan_claim_state[fans[g].pwm] = "PWM"
      BY <2>5 DEF Claimed, Driven, FanTypeOK
    <3> QED BY <2>2, <2>5, <3>1 DEF LeavesBehind, LevelsKept
  <2>6. ASSUME NEW p \in Pins, chan_claim_state'[p] = "FREE" PROVE level'[p] = 0
    <3>1. chan_claim_state[p] = "FREE"
      BY <2>2, <2>6 DEF LeavesBehind
    <3>2. level'[p] = level[p] \/ level'[p] = 0
      BY <2>1 DEF SetUp
    <3> QED BY <3>1, <3>2 DEF LevelsKept
  <2> QED BY <2>3, <2>4, <2>5, <2>6 DEF LevelsKept, Driven
<1>2. ASSUME NEW f \in Fans, NEW speed \in {0} \cup (fans[f].min_speed..MaxFanSpeed),
             Driven(f), SetSpeed(f, speed)
      PROVE  LevelsKept'
  <2>1. speed \in Nat /\ speed < LevelSize
    <3>1. fans[f].min_speed \in Nat
      BY MinInRange, FanAssumption
    <3> QED BY <3>1, FanAssumption
  <2>2. speed % LevelSize = speed
    BY <2>1, FanAssumption, SMT
  <2>3. fans[f].pwm \in Pins /\ chan_claim_state[fans[f].pwm] = "PWM"
    BY <1>2 DEF FanTypeOK, Driven, Claimed
  <2>4. /\ level' = [level EXCEPT ![fans[f].pwm] = speed]
        /\ fans' = [fans EXCEPT ![f].speed = speed]
        /\ chan_claim_state' = chan_claim_state
    BY <1>2, <2>2 DEF SetSpeed
  <2>5. /\ fans'[f].speed = speed /\ fans'[f].pwm = fans[f].pwm
        /\ level'[fans[f].pwm] = speed
        /\ \A g \in Fans \ {f} : fans'[g] = fans[g]
        /\ \A p \in Pins \ {fans[f].pwm} : level'[p] = level[p]
    BY <2>3, <2>4 DEF FanTypeOK
  <2>6. ASSUME NEW g \in Fans \ {f}, Driven(g)
        PROVE  fans[g].pwm \in Pins \ {fans[f].pwm}
    BY <1>2, <2>6 DEF Claimed, Driven, FanTypeOK
  <2> QED BY <2>3, <2>4, <2>5, <2>6 DEF LevelsKept, Driven
<1>3. CASE UNCHANGED fanVars
  BY <1>3 DEF LevelsKept, fanVars, Driven
<1> QED BY <1>1, <1>2, <1>3, SpeedStep

---------------------------------------------------------------------------
(* What the invariants mean                                                *)

(* What the claims say of a slice with a tachometer.                       *)
LEMMA ClaimsKeepTachosAlone ==
  ASSUME FanTypeOK, Claimed
  PROVE  TachoAlone
<1>1. ASSUME NEW s \in Slices, "TACHO" \in Use(chan_claim_state, s)
      PROVE  mode[s] = "tacho" /\ Use(chan_claim_state, s) = {"FREE", "TACHO"}
  BY <1>1, UseOfBoth DEF Claimed
<1> QED BY <1>1 DEF TachoAlone

(* Claims and levels together say that fans run at their speeds.           *)
LEMMA FansRun ==
  ASSUME FanTypeOK, Claimed, LevelsKept
  PROVE  RunsAtItsSpeed
<1>1. ASSUME NEW f \in Fans, Driven(f) PROVE mode[fans[f].pwm[1]] = "speed"
  <2>1. fans[f].pwm \in Pins /\ chan_claim_state[fans[f].pwm] = "PWM"
    BY <1>1 DEF FanTypeOK, Driven, Claimed
  <2> QED BY <2>1, PinIsNotNoPin DEF Claimed
<1> QED BY <1>1 DEF RunsAtItsSpeed, LevelsKept

(* The property of curves follows from the types alone.                    *)
LEMMA CurvesRise ==
  ASSUME FanTypeOK
  PROVE  NeverSlowerWhenHotter
<1> SUFFICES ASSUME NEW f \in Fans, NEW map \in Curves,
                    NEW input \in Inputs \ {NaN}, NEW higher \in Inputs \ {NaN},
                    Sane(map), input < higher,
                    NEW s \in Curved(map, input, fans[f].min_speed),
                    NEW t \in Curved(map, higher, fans[f].min_speed)
             PROVE  s <= t
  BY DEF NeverSlowerWhenHotter
<1> DEFINE min == fans[f].min_speed
<1>1. min \in Nat
  BY MinInRange, FanAssumption
<1>2. PICK a \in Outputs(map, input) : s = IF a < min THEN 0 ELSE a
  BY DEF Curved
<1>3. PICK b \in Outputs(map, higher) : t = IF b < min THEN 0 ELSE b
  BY DEF Curved
<1> HIDE DEF min
<1>4. input \in Int /\ higher \in Int
  BY FanAssumption
<1>5. a \in Nat /\ b \in Nat
  BY OutputsNat
<1>6. a <= b
  BY <1>4, OutputsMonotone
<1> QED BY <1>1, <1>2, <1>3, <1>5, <1>6
=============================================================================
