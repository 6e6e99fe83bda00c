--------------------------- MODULE Ads7042Proofs ---------------------------
(***************************************************************************)
(* Nothing the program asks the ADC for is lost, what it gets is a whole   *)
(* conversion of its own, and a calibration calibrates, for FIFOs of any   *)
(* depth: the inductive invariants of a program that takes no risk, and    *)
(* the proof that every step keeps them.                                   *)
(***************************************************************************)
EXTENDS Ads7042, SequenceTheorems, TLAPS

(* Words that are to come, being clocked, or waiting for the program.      *)
InFlight == tx + (IF engine = "shifting" THEN 1 ELSE 0) + Len(rx)

Reads == {<<>>, <<"put">>, <<"get">>, <<"put", "get">>}
LastSteps ==
  {<<"end_cal">>, <<"discard", "end_cal">>, <<"discard", "discard", "end_cal">>}

CountTypes ==
  /\ iface \in {"none", "pio", AdcSpi}
  /\ tx \in Nat /\ rx \in Seq(BOOLEAN) /\ owed \in Nat
  /\ engine \in {"idle", "shifting", "pushed"}
  /\ todo \in Reads \cup {<<"dummy">>} \cup LastSteps

(* A read is counted when it is requested, and there is room for it; a     *)
(* calibration, which begins when nothing is on its way, has as many words *)
(* on theirs as it is going to discard.                                    *)
Counted ==
  /\ todo \in Reads => owed = InFlight /\ owed <= Held
  /\ At("put") => owed < Held
  /\ todo = <<"dummy">> => owed = 0 /\ InFlight = 0
  /\ todo \in LastSteps => owed = 0 /\ InFlight = Len(todo) - 1

AdsInv ==
  /\ CountTypes
  /\ Counted
  /\ iface = "none" => todo = <<>> /\ owed = 0
  /\ ~Pio => engine # "pushed"

---------------------------------------------------------------------------
(* The steps that are left of a call, by the one that is next.             *)
LEMMA StepsLeft ==
  ASSUME CountTypes
  PROVE  /\ At("put") => /\ todo \in Reads /\ Tail(todo) \in {<<>>, <<"get">>}
         /\ At("get") => todo \in Reads /\ Tail(todo) = <<>>
         /\ At("dummy") => todo = <<"dummy">>
         /\ At("discard") => /\ todo \in LastSteps /\ Tail(todo) \in LastSteps
                             /\ Len(Tail(todo)) = Len(todo) - 1
         /\ At("end_cal") => todo = <<"end_cal">>
         /\ NoCall => todo \in Reads
<1>1. CASE todo \in Reads
  <2>1. CASE todo = <<>>  BY <2>1 DEF At, NoCall, Reads
  <2>2. CASE todo = <<"put">>  BY <2>2 DEF At, NoCall, Reads
  <2>3. CASE todo = <<"get">>  BY <2>3 DEF At, NoCall, Reads
  <2>4. CASE todo = <<"put", "get">>  BY <2>4 DEF At, NoCall, Reads
  <2> QED BY <1>1, <2>1, <2>2, <2>3, <2>4 DEF Reads
<1>2. CASE todo = <<"dummy">>
  BY <1>2 DEF At, NoCall
<1>3. CASE todo \in LastSteps
  <2>1. CASE todo = <<"end_cal">>  BY <2>1 DEF At, NoCall
  <2>2. CASE todo = <<"discard", "end_cal">>  BY <2>2 DEF At, NoCall, LastSteps
  <2>3. CASE todo = <<"discard", "discard", "end_cal">>  BY <2>3 DEF At, NoCall, LastSteps
  <2> QED BY <1>3, <2>1, <2>2, <2>3 DEF LastSteps
<1> QED BY <1>1, <1>2, <1>3 DEF CountTypes

(* The lists of steps are different, and only some begin with a put.       *)
LEMMA ListsDiffer ==
  /\ <<>> \in Reads /\ <<"put">> \in Reads /\ <<"get">> \in Reads /\ <<"put", "get">> \in Reads
  /\ <<"dummy">> \notin Reads /\ <<"dummy">> \notin LastSteps
  /\ \A steps \in Reads : steps \notin LastSteps
  /\ \A steps \in LastSteps : Len(steps) \in 1..3 /\ Head(steps) # "put" /\ steps # <<>>
  BY DEF Reads, LastSteps

(* A word more, a word less.                                               *)
LEMMA Queue ==
  ASSUME rx \in Seq(BOOLEAN)
  PROVE  /\ Len(rx) \in Nat
         /\ \A w \in BOOLEAN : Append(rx, w) \in Seq(BOOLEAN) /\ Len(Append(rx, w)) = Len(rx) + 1
         /\ rx # <<>> => Tail(rx) \in Seq(BOOLEAN) /\ Len(Tail(rx)) = Len(rx) - 1 /\ Len(rx) > 0
         /\ Len(rx) = 0 => rx = <<>>
  OBVIOUS

(* What the receiver holds at most.                                        *)
LEMMA HeldNat == Held \in Nat /\ Held >= 2 /\ (~Pio => Held = SpiDepth)
  BY AdsAssumption DEF Held

(* The invariant holds of an ADC that has not been initialised.            *)
LEMMA AdsInvInit == AdsInit => AdsInv
<1> SUFFICES ASSUME AdsInit PROVE AdsInv
  OBVIOUS
<1>1. /\ iface = "none" /\ tx = 0 /\ rx = <<>> /\ engine = "idle" /\ todo = <<>> /\ owed = 0
  BY DEF AdsInit
<1>2. CountTypes
  BY <1>1, ListsDiffer DEF CountTypes
<1>3. InFlight = 0
  BY <1>1 DEF InFlight
<1>4. ~At("put") /\ todo # <<"dummy">> /\ todo \notin LastSteps
  BY <1>1, ListsDiffer DEF At
<1> QED BY <1>1, <1>2, <1>3, <1>4, HeldNat DEF AdsInv, Counted

(* The interface moves words on, and drops none: the receive FIFO of the   *)
(* SPI block is as deep as the program's requests are many.                *)
LEMMA HardwareStep ==
  ASSUME AdsInv, AdsHardware
  PROVE  AdsInv'
<1>1. /\ UNCHANGED <<iface, todo, owed>>
      /\ (At("put") <=> At("put")') /\ (Pio <=> Pio') /\ Held' = Held
  BY DEF AdsHardware, Pull, Push, RaiseCsn, At, Pio, Held
<1>2. SUFFICES CountTypes' /\ InFlight' = InFlight /\ (~Pio => engine' # "pushed")
  BY <1>1, <1>2 DEF AdsInv, Counted
<1>3. CASE Pull
  BY <1>1, <1>3, Queue DEF Pull, AdsInv, CountTypes, InFlight
<1>4. CASE Push
  <2>1. Len(rx) < Depth
    <3>1. CASE Pio
      BY <1>4, <3>1 DEF Push
    <3>2. CASE ~Pio
      <4>1. InFlight <= SpiDepth
        <5>1. CASE todo \in Reads
          BY <3>2, <5>1, HeldNat DEF AdsInv, Counted
        <5>2. CASE todo = <<"dummy">>
          BY <5>2, AdsAssumption DEF AdsInv, Counted
        <5>3. CASE todo \in LastSteps
          <6>1. Len(todo) \in 1..3
            BY <5>3, ListsDiffer
          <6>2. InFlight = Len(todo) - 1
            BY <5>3 DEF AdsInv, Counted
          <6> QED BY <6>1, <6>2, AdsAssumption
        <5> QED BY <5>1, <5>2, <5>3 DEF AdsInv, CountTypes
      <4> QED BY <1>4, <3>2, <4>1, Queue, AdsAssumption
              DEF Push, AdsInv, CountTypes, InFlight, Depth
    <3> QED BY <3>1, <3>2
  <2>2. /\ engine = "shifting" /\ engine' = (IF Pio THEN "pushed" ELSE "idle")
        /\ tx' = tx /\ rx' = Append(rx, own /\ format[iface] = ADS7042_FRAME_LEN)
    BY <1>4, <2>1 DEF Push
  <2>3. (own /\ format[iface] = ADS7042_FRAME_LEN) \in BOOLEAN
    OBVIOUS
  <2> HIDE DEF ADS7042_FRAME_LEN
  <2>4. rx' \in Seq(BOOLEAN) /\ Len(rx') = Len(rx) + 1
    BY <2>2, <2>3, Queue DEF AdsInv, CountTypes
  <2> QED BY <1>1, <2>2, <2>4, Queue DEF AdsInv, CountTypes, InFlight
<1>5. CASE RaiseCsn
  BY <1>1, <1>5 DEF RaiseCsn, AdsInv, CountTypes, InFlight
<1> QED BY <1>3, <1>4, <1>5 DEF AdsHardware

(* Calls that begin, of a program that takes no risk.                      *)
LEMMA CallStep ==
  ASSUME AdsInv, AdsCall, AdsUsage = {}
  PROVE  AdsInv'
<1> DEFINE Shifting == IF engine = "shifting" THEN 1 ELSE 0
<1>1. /\ Held' \in Nat /\ Held' >= 2
      /\ iface # "none" => iface \in {"pio", AdcSpi}
  BY AdsAssumption DEF Held, Pio, AdsInv, CountTypes
<1>2. CASE \/ ads7042_init_pio \/ ads7042_init_hw_spi
  <2>1. /\ iface = "none" /\ todo = <<>> /\ owed = 0 /\ engine # "pushed"
        /\ UNCHANGED <<tx, rx, engine, todo, owed>>
        /\ iface' \in {"pio", AdcSpi}
    BY <1>2 DEF ads7042_init_pio, ads7042_init_hw_spi, AdsInv, Pio
  <2>2. InFlight = 0 /\ InFlight' = InFlight
    BY <2>1, ListsDiffer DEF AdsInv, Counted, InFlight
  <2>3. CountTypes'
    BY <2>1 DEF AdsInv, CountTypes
  <2>4. ~At("put")' /\ todo' # <<"dummy">> /\ todo' \notin LastSteps
    BY <2>1, ListsDiffer DEF At
  <2>5. iface' # "none"
    BY <2>1, AdsAssumption DEF Spis
  <2> QED BY <1>1, <2>1, <2>2, <2>3, <2>4, <2>5 DEF AdsInv, Counted
<1>3. ASSUME MayStart
      PROVE  /\ iface # "none" /\ todo = <<>> /\ owed < Held /\ owed = InFlight
  BY <1>3, ListsDiffer DEF MayStart, NoCall, AdsInv, Counted
<1>4. CASE ads7042_start_async_read
  <2>1. /\ UNCHANGED <<iface, rx, engine, todo>>
        /\ tx' = tx + 1 /\ owed' = owed + 1 /\ Held' = Held
    BY <1>4 DEF ads7042_start_async_read, Request, Writable, Held, Pio
  <2>2. iface # "none" /\ todo = <<>> /\ owed < Held /\ owed = InFlight
    BY <1>3, <1>4 DEF ads7042_start_async_read
  <2>3. CountTypes'
    BY <2>1 DEF AdsInv, CountTypes
  <2>4. InFlight' = InFlight + 1
    BY <2>1, Queue DEF InFlight, AdsInv, CountTypes
  <2>5. ~At("put")' /\ todo' # <<"dummy">> /\ todo' \notin LastSteps
    BY <2>1, <2>2, ListsDiffer DEF At
  <2>6. owed' = InFlight' /\ owed' <= Held'
    BY <2>1, <2>2, <2>4, HeldNat DEF AdsInv, CountTypes
  <2>7. ~Pio' => engine' # "pushed"
    BY <2>1 DEF Pio, AdsInv
  <2> QED BY <2>1, <2>2, <2>3, <2>5, <2>6, <2>7 DEF AdsInv, Counted
<1>5. ASSUME NEW steps \in {<<"put">>, <<"get">>, <<"put", "get">>}, Begin(steps),
             iface # "none", todo = <<>>, steps[1] = "put" => owed < Held
      PROVE  AdsInv'
  <2>1. todo' = steps /\ UNCHANGED <<iface, tx, rx, engine, owed>>
    BY <1>5 DEF Begin
  <2>2. todo' \in Reads /\ todo' # <<"dummy">> /\ todo' \notin LastSteps
    BY <1>5, <2>1, ListsDiffer
  <2>3. InFlight' = InFlight /\ Held' = Held /\ (Pio <=> Pio')
    BY <2>1 DEF InFlight, Held, Pio
  <2>4. At("put")' => owed' < Held'
    BY <1>5, <2>1, <2>3 DEF At
  <2>5. owed' = InFlight' /\ owed' <= Held'
    BY <1>5, <2>1, <2>3, ListsDiffer DEF AdsInv, Counted
  <2> QED BY <1>5, <2>1, <2>2, <2>3, <2>4, <2>5 DEF AdsInv, CountTypes, Counted
<1>6. CASE ads7042_start_async_read_blocking
  BY <1>3, <1>5, <1>6 DEF ads7042_start_async_read_blocking
<1>7. CASE ads7042_read_blocking
  BY <1>3, <1>5, <1>7 DEF ads7042_read_blocking
<1>8. CASE ads7042_get_data_blocking
  <2>1. todo = <<>> /\ owed > 0 /\ Begin(<<"get">>)
    BY <1>8 DEF ads7042_get_data_blocking, NoCall
  <2>2. iface # "none"
    BY <2>1 DEF AdsInv, CountTypes
  <2> QED BY <1>5, <2>1, <2>2
<1>9. CASE ads7042_get_data
  <2>1. /\ UNCHANGED <<iface, tx, engine, todo>> /\ todo = <<>>
        /\ rx # <<>> /\ rx' = Tail(rx) /\ owed' = owed - 1 /\ Held' = Held
    BY <1>9 DEF ads7042_get_data, Fetch, NoCall, Held, Pio
  <2>2. rx' \in Seq(BOOLEAN) /\ Len(rx') = Len(rx) - 1 /\ Len(rx) \in Nat /\ Len(rx) > 0
    BY <2>1, Queue DEF AdsInv, CountTypes
  <2>3. owed = InFlight /\ owed <= Held
    BY <2>1, ListsDiffer DEF AdsInv, Counted
  <2>4. owed' = InFlight' /\ owed' \in Nat /\ owed' <= Held' /\ owed > 0
    BY <2>1, <2>2, <2>3, HeldNat DEF InFlight, AdsInv, CountTypes
  <2>5. ~At("put")' /\ todo' # <<"dummy">> /\ todo' \notin LastSteps
    BY <2>1, ListsDiffer DEF At
  <2>6. CountTypes'
    BY <2>1, <2>2, <2>4 DEF AdsInv, CountTypes
  <2> QED BY <2>1, <2>4, <2>5, <2>6 DEF AdsInv, Counted, Pio
<1>10. CASE ads7042_offset_cal
  <2>1. /\ iface # "none" /\ todo = <<>> /\ owed = 0 /\ todo' = <<"dummy">>
        /\ UNCHANGED <<iface, tx, rx, owed>>
        /\ engine' = IF Pio THEN "idle" ELSE engine
    BY <1>10 DEF ads7042_offset_cal, change_n_bits, NoCall
  <2>2. InFlight = 0
    BY <2>1, ListsDiffer DEF AdsInv, Counted
  <2>3. InFlight' = 0
    BY <2>1, <2>2, Queue DEF InFlight, AdsInv, CountTypes
  <2>4. todo' \notin Reads /\ todo' \notin LastSteps /\ ~At("put")'
    BY <2>1, ListsDiffer DEF At
  <2>5. CountTypes'
    BY <2>1 DEF AdsInv, CountTypes
  <2> QED BY <2>1, <2>3, <2>4, <2>5 DEF AdsInv, Counted, Pio
<1> QED BY <1>2, <1>4, <1>6, <1>7, <1>8, <1>9, <1>10 DEF AdsCall

(* The steps of a read that has begun.                                     *)
LEMMA ReadStep ==
  ASSUME AdsInv, PutWhenWritable \/ GetWhenReadable
  PROVE  AdsInv'
<1>1. CountTypes /\ Counted /\ ~(iface = "none")
  <2>1. todo # <<>>
    BY DEF PutWhenWritable, GetWhenReadable, At
  <2> QED BY <2>1 DEF AdsInv
<1>2. /\ UNCHANGED <<iface, engine>> /\ Held' = Held /\ todo' = Tail(todo)
      /\ todo \in Reads /\ todo' \in {<<>>, <<"get">>}
  BY <1>1, StepsLeft DEF PutWhenWritable, GetWhenReadable, Held, Pio
<1>3. /\ todo' \in Reads /\ todo' # <<"dummy">> /\ todo' \notin LastSteps /\ ~At("put")'
  <2>1. CASE todo' = <<>>  BY <2>1, ListsDiffer DEF At
  <2>2. CASE todo' = <<"get">>  BY <2>2, ListsDiffer DEF At
  <2> QED BY <1>2, <2>1, <2>2
<1>4. owed = InFlight /\ owed <= Held
  BY <1>1, <1>2 DEF Counted
<1>5. /\ tx' \in Nat /\ rx' \in Seq(BOOLEAN) /\ owed' \in Nat
      /\ owed' = InFlight' /\ owed' <= Held'
  <2>1. CASE PutWhenWritable
    <3>1. tx' = tx + 1 /\ rx' = rx /\ owed' = owed + 1 /\ owed < Held
      BY <1>1, <2>1 DEF PutWhenWritable, Request, Writable, Counted
    <3>2. Len(rx) \in Nat
      BY <1>1, Queue DEF CountTypes
    <3> QED BY <1>1, <1>2, <1>4, <3>1, <3>2, HeldNat DEF CountTypes, InFlight
  <2>2. CASE GetWhenReadable
    <3>1. tx' = tx /\ rx # <<>> /\ rx' = Tail(rx) /\ owed' = owed - 1
      BY <2>2 DEF GetWhenReadable, Fetch
    <3>2. rx' \in Seq(BOOLEAN) /\ Len(rx') = Len(rx) - 1 /\ Len(rx) \in Nat /\ Len(rx) > 0
      BY <1>1, <3>1, Queue DEF CountTypes
    <3> QED BY <1>1, <1>2, <1>4, <3>1, <3>2, HeldNat DEF CountTypes, InFlight
  <2> QED BY <2>1, <2>2
<1>6. CountTypes'
  BY <1>1, <1>2, <1>3, <1>5 DEF CountTypes
<1> QED BY <1>1, <1>2, <1>3, <1>5, <1>6 DEF AdsInv, Counted, Pio

(* The end of a calibration after one discarded word, and after two.       *)
LEMMA EndOfCal ==
  /\ <<"discard">> \o <<"end_cal">> = <<"discard", "end_cal">>
  /\ <<"discard", "discard">> \o <<"end_cal">> = <<"discard", "discard", "end_cal">>
<1> DEFINE Steps == {"discard", "end_cal"}
<1>1. ASSUME NEW s \in Seq(Steps), NEW t \in Seq(Steps),
             Len(t) = Len(s) + 1, \A i \in 1..Len(s) : t[i] = s[i],
             t[Len(s) + 1] = "end_cal"
      PROVE  s \o <<"end_cal">> = t
  <2>1. /\ Append(s, "end_cal") = s \o <<"end_cal">>
        /\ Append(s, "end_cal") \in Seq(Steps)
    BY AppendIsConcat, AppendProperties
  <2>2. /\ Len(Append(s, "end_cal")) = Len(t)
        /\ \A i \in 1..Len(t) : Append(s, "end_cal")[i] = t[i]
    BY <1>1, <2>1, AppendProperties
  <2> QED BY <2>1, <2>2, SeqEqual
<1>2. <<"discard">> \o <<"end_cal">> = <<"discard", "end_cal">>
  <2> DEFINE s == <<"discard">>
             t == <<"discard", "end_cal">>
  <2>1. /\ s \in Seq(Steps) /\ t \in Seq(Steps) /\ Len(t) = Len(s) + 1
        /\ t[Len(s) + 1] = "end_cal" /\ \A i \in 1..Len(s) : t[i] = s[i]
    OBVIOUS
  <2> HIDE DEF s, t, Steps
  <2> QED BY <1>1, <2>1 DEF s, t
<1>3. <<"discard", "discard">> \o <<"end_cal">> = <<"discard", "discard", "end_cal">>
  <2> DEFINE s == <<"discard", "discard">>
             t == <<"discard", "discard", "end_cal">>
  <2>1. /\ s \in Seq(Steps) /\ t \in Seq(Steps) /\ Len(t) = Len(s) + 1
        /\ t[Len(s) + 1] = "end_cal" /\ \A i \in 1..Len(s) : t[i] = s[i]
    OBVIOUS
  <2> HIDE DEF s, t, Steps
  <2> QED BY <1>1, <2>1 DEF s, t
<1> QED BY <1>2, <1>3

(* The words a dummy read asks for are the ones it discards.               *)
LEMMA DummyStep == ASSUME AdsInv, dummy_read PROVE AdsInv'
<1>1. todo = <<"dummy">>
  BY StepsLeft DEF dummy_read, AdsInv
<1>2. owed = 0 /\ InFlight = 0 /\ ~(iface = "none")
  BY <1>1 DEF AdsInv, Counted
<1>3. tx = 0 /\ rx = <<>> /\ engine # "shifting"
  BY <1>2, Queue DEF InFlight, AdsInv, CountTypes
<1>4. /\ UNCHANGED <<iface, engine, owed>>
      /\ tx' = Dummies /\ rx' = <<>> /\ todo' = Discards \o <<"end_cal">>
      /\ Dummies \in {1, 2}
  BY <1>3 DEF dummy_read, ClearThenPut, Dummies
<1>5. todo' \in LastSteps /\ Len(todo') = Dummies + 1
  <2>1. CASE Dummies = 1
    <3>1. Discards = <<"discard">>
      BY <2>1 DEF Discards
    <3>2. <<"discard">> \o <<"end_cal">> = <<"discard", "end_cal">>
      BY EndOfCal
    <3>3. todo' = <<"discard", "end_cal">>
      BY <1>4, <3>1, <3>2
    <3> QED BY <2>1, <3>3 DEF LastSteps
  <2>2. CASE Dummies = 2
    <3>1. Discards = <<"discard", "discard">>
      BY <2>2 DEF Discards
    <3>2. <<"discard", "discard">> \o <<"end_cal">> = <<"discard", "discard", "end_cal">>
      BY EndOfCal
    <3>3. todo' = <<"discard", "discard", "end_cal">>
      BY <1>4, <3>1, <3>2
    <3> QED BY <2>2, <3>3 DEF LastSteps
  <2> QED BY <1>4, <2>1, <2>2
<1>6. InFlight' = Dummies
  BY <1>3, <1>4 DEF InFlight
<1>7. ~At("put")' /\ todo' \notin Reads /\ todo' # <<"dummy">>
  BY <1>5, ListsDiffer DEF At
<1>8. CountTypes'
  BY <1>4, <1>5, Queue DEF AdsInv, CountTypes
<1> QED BY <1>2, <1>4, <1>5, <1>6, <1>7, <1>8 DEF AdsInv, Counted, Pio

(* One of them is taken.                                                   *)
LEMMA DiscardStep == ASSUME AdsInv, DiscardWhenReadable PROVE AdsInv'
<1>1. /\ todo \in LastSteps /\ todo' = Tail(todo) /\ todo' \in LastSteps
      /\ Len(todo') = Len(todo) - 1 /\ Len(todo) \in 1..3
  BY StepsLeft, ListsDiffer DEF DiscardWhenReadable, AdsInv
<1>2. UNCHANGED <<iface, tx, engine, owed>> /\ rx # <<>> /\ rx' = Tail(rx)
  BY DEF DiscardWhenReadable
<1>3. rx' \in Seq(BOOLEAN) /\ Len(rx') = Len(rx) - 1 /\ Len(rx) \in Nat
  BY <1>2, Queue DEF AdsInv, CountTypes
<1>4. owed = 0 /\ InFlight = Len(todo) - 1 /\ ~(iface = "none")
  BY <1>1, ListsDiffer DEF AdsInv, Counted
<1>5. InFlight' = Len(todo') - 1
  <2>1. tx \in Nat
    BY DEF AdsInv, CountTypes
  <2>2. InFlight' = InFlight - 1
    BY <1>2, <1>3, <2>1 DEF InFlight
  <2> QED BY <1>1, <1>4, <2>2
<1>6. ~At("put")' /\ todo' \notin Reads /\ todo' # <<"dummy">>
  BY <1>1, ListsDiffer DEF At
<1>7. CountTypes'
  BY <1>1, <1>2, <1>3 DEF AdsInv, CountTypes
<1> QED BY <1>1, <1>2, <1>4, <1>5, <1>6, <1>7 DEF AdsInv, Counted, Pio

(* A calibration leaves nothing behind.                                    *)
LEMMA EndCalStep == ASSUME AdsInv, EndCal PROVE AdsInv'
<1>1. /\ todo = <<"end_cal">> /\ todo' = <<>> /\ UNCHANGED <<iface, tx, rx, owed>>
      /\ engine' = IF Pio THEN "idle" ELSE engine
  BY StepsLeft DEF EndCal, change_n_bits, AdsInv
<1>2. owed = 0 /\ InFlight = 0 /\ ~(iface = "none")
  BY <1>1 DEF AdsInv, Counted, LastSteps
<1>3. InFlight' = 0
  BY <1>1, <1>2, Queue DEF InFlight, AdsInv, CountTypes
<1>4. Held' = Held /\ ~At("put")' /\ todo' # <<"dummy">> /\ todo' \notin LastSteps
  BY <1>1, ListsDiffer DEF Held, Pio, At
<1>5. CountTypes'
  BY <1>1, ListsDiffer DEF AdsInv, CountTypes
<1> QED BY <1>1, <1>2, <1>3, <1>4, <1>5, HeldNat DEF AdsInv, Counted, Pio

(* All steps, and those of other drivers, which may change a format.       *)
LEMMA AdsInvNext ==
  ASSUME AdsInv, AdsUsage = {},
         AdsNext \/ UNCHANGED <<iface, tx, rx, engine, todo, owed>>
  PROVE  AdsInv'
<1>1. CASE AdsHardware
  BY <1>1, HardwareStep
<1>2. CASE AdsGoesOn
  BY <1>2, ReadStep, DummyStep, DiscardStep, EndCalStep DEF AdsGoesOn
<1>3. CASE AdsCall
  BY <1>3, CallStep
<1>4. CASE UNCHANGED <<iface, tx, rx, engine, todo, owed>>
  BY <1>4 DEF AdsInv, CountTypes, Counted, InFlight, Held, Pio, At
<1> QED BY <1>1, <1>2, <1>3, <1>4 DEF AdsNext

(* Between calls the words on their way are the ones asked for.            *)
LEMMA AdsInvLosesNothing == AdsInv => NothingLost
  BY ListsDiffer DEF AdsInv, Counted, InFlight, NothingLost, NoCall
---------------------------------------------------------------------------
(* Types                                                                   *)

FrameTypes ==
  /\ state \in States
  /\ tx <= Depth /\ Len(rx) <= Depth
  /\ csn \in {"high", "low", "held"}
  /\ own \in BOOLEAN
  /\ clocks \in 0..ADS7042_RECAL_CLOCKS
  /\ adc \in {"fresh", "uncal", "cal"}

(* A step of another driver, which may set a format between two calls.     *)
AdsStays == UNCHANGED <<iface, state, tx, rx, engine, csn, own, clocks, adc, todo, owed>>
AdsAside == AdsStays /\ (todo # <<>> => format' = format)

(* An interface the ADC is on has a format, and has words only when there  *)
(* is one.                                                                 *)
LEMMA OnInterface ==
  ASSUME AdsInv, FormatTypeOK
  PROVE  /\ iface # "none" => iface \in Interfaces /\ format[iface] \in Nat
         /\ engine = "shifting" \/ tx > 0 \/ rx # <<>> \/ todo # <<>> => iface # "none"
<1>1. iface # "none" => iface \in Interfaces
  BY AdsAssumption DEF AdsInv, CountTypes, Interfaces
<1>2. WordBits \subseteq Nat
  BY DEF WordBits
<1>3. iface # "none" => format[iface] \in Nat
  <2> HIDE DEF Interfaces, WordBits
  <2> QED BY <1>1, <1>2 DEF FormatTypeOK
<1>4. iface = "none" => engine # "shifting" /\ ~(tx > 0) /\ rx = <<>> /\ todo = <<>>
  <2>1. iface = "none" => todo = <<>> /\ InFlight = 0
    BY ListsDiffer DEF AdsInv, Counted
  <2> QED BY <2>1, Queue DEF InFlight, AdsInv, CountTypes
<1> QED BY <1>1, <1>3, <1>4

(* Nothing is being clocked when the format changes.                       *)
LEMMA QuietWhenSet ==
  ASSUME AdsInv, AdsUsage = {}, ads7042_offset_cal \/ EndCal
  PROVE  /\ engine = "idle" /\ engine' = "idle" /\ clocks' = clocks
         /\ tx = 0 /\ rx = <<>> /\ tx' = tx /\ rx' = rx /\ iface # "none"
<1>1. InFlight = 0 /\ iface # "none"
  <2>1. CASE ads7042_offset_cal
    BY <2>1, ListsDiffer DEF ads7042_offset_cal, NoCall, AdsInv, Counted
  <2>2. CASE EndCal
    <3>1. todo = <<"end_cal">>
      BY <2>2, StepsLeft DEF EndCal, AdsInv
    <3> QED BY <3>1 DEF AdsInv, Counted, LastSteps
  <2> QED BY <2>1, <2>2
<1>2. tx = 0 /\ rx = <<>> /\ engine # "shifting"
  BY <1>1, Queue DEF InFlight, AdsInv, CountTypes
<1>3. /\ engine # "pushed" /\ UNCHANGED <<tx, rx>>
      /\ engine' = IF Pio THEN "idle" ELSE engine
      /\ clocks' \in {clocks}
  BY <1>2 DEF ads7042_offset_cal, EndCal, change_n_bits
<1> QED BY <1>1, <1>2, <1>3 DEF AdsInv, CountTypes

(* The clocks of a frame are counted up to 32, and the ADC stays calibrated.*)
LEMMA ClockedType ==
  ASSUME clocks \in 0..ADS7042_RECAL_CLOCKS, NEW n \in Nat
  PROVE  Clocked(n) \in 0..ADS7042_RECAL_CLOCKS
  BY DEF Clocked, ADS7042_RECAL_CLOCKS

(* The ADC's state after a frame.                                          *)
LEMMA AdcAfterType ==
  ASSUME NEW n, NEW rises
  PROVE  /\ adc \in {"fresh", "uncal", "cal"} => AdcAfter(n, rises) \in {"fresh", "uncal", "cal"}
         /\ adc = "cal" => AdcAfter(n, rises) = "cal"
  BY DEF AdcAfter

(* Every step keeps the types.                                             *)
LEMMA FrameTypesNext ==
  ASSUME AdsInv, FrameTypes, FormatTypeOK, AdsUsage = {}, AdsNext \/ AdsStays
  PROVE  FrameTypes'
<1>1. tx \in Nat /\ rx \in Seq(BOOLEAN) /\ Depth \in Nat
  BY AdsAssumption DEF AdsInv, CountTypes, Depth
<1>2. CASE Pull
  BY <1>1, <1>2 DEF Pull, FrameTypes, Depth, Pio, ADS7042_RECAL_CLOCKS
<1>3. CASE Push
  <2>1. UNCHANGED <<iface, state, tx, own>> /\ Depth' = Depth
    BY <1>3 DEF Push, Depth, Pio
  <2>2. Len(rx') <= Depth
    <3>1. (own /\ format[iface] = ADS7042_FRAME_LEN) \in BOOLEAN
      OBVIOUS
    <3>2. rx' = IF Len(rx) < Depth
                THEN Append(rx, own /\ format[iface] = ADS7042_FRAME_LEN) ELSE rx
      BY <1>3 DEF Push
    <3> HIDE DEF ADS7042_FRAME_LEN
    <3> QED BY <1>1, <3>1, <3>2, Queue DEF FrameTypes
  <2>3. clocks' \in 0..ADS7042_RECAL_CLOCKS
    <3>1. format[iface] \in Nat
      BY <1>3, OnInterface DEF Push
    <3> QED BY <1>3, <3>1, ClockedType DEF Push, FrameTypes
  <2>4. adc' \in {"fresh", "uncal", "cal"}
    BY <1>3, AdcAfterType DEF Push, FrameTypes
  <2>5. csn' \in {"high", "low", "held"}
    BY <1>3 DEF Push, FrameTypes
  <2> QED BY <2>1, <2>2, <2>3, <2>4, <2>5 DEF FrameTypes
<1>4. CASE RaiseCsn
  BY <1>4, AdcAfterType DEF RaiseCsn, FrameTypes, Depth, Pio
<1>5. CASE ads7042_init_pio \/ ads7042_init_hw_spi
  <2>1. iface = "none" /\ UNCHANGED <<tx, rx, own, clocks, adc>>
        /\ state' \in {"PWRON", state} /\ csn' \in {"low", "high", csn}
    BY <1>5 DEF ads7042_init_pio, ads7042_init_hw_spi
  <2>2. tx = 0 /\ rx = <<>>
    BY <1>1, <2>1, OnInterface
  <2>3. 0 <= Depth'
    BY AdsAssumption DEF Depth
  <2> QED BY <2>1, <2>2, <2>3 DEF FrameTypes, States
<1>6. ASSUME Request, Writable, UNCHANGED <<iface, rx, csn, own, clocks, adc>>
      PROVE  FrameTypes'
  BY <1>1, <1>6 DEF Request, Writable, TxFull, FrameTypes, States, Depth, Pio
<1>7. CASE ads7042_start_async_read \/ PutWhenWritable
  BY <1>6, <1>7 DEF ads7042_start_async_read, PutWhenWritable
<1>8. ASSUME rx # <<>>, rx' = Tail(rx), UNCHANGED <<iface, state, tx, csn, own, clocks, adc>>
      PROVE  FrameTypes'
  BY <1>1, <1>8, Queue DEF FrameTypes, Depth, Pio
<1>9. CASE ads7042_get_data \/ GetWhenReadable \/ DiscardWhenReadable
  BY <1>8, <1>9 DEF ads7042_get_data, GetWhenReadable, DiscardWhenReadable, Fetch
<1>10. CASE dummy_read
  <2>1. UNCHANGED <<iface, state, own, adc>> /\ tx' <= Depth /\ rx' \in {<<>>, rx}
        /\ csn' \in {"held", csn} /\ clocks' \in {0, clocks} /\ Depth' = Depth
    BY <1>10 DEF dummy_read, Depth, Pio
  <2>2. Len(rx') <= Depth
    BY <1>1, <2>1 DEF FrameTypes
  <2> QED BY <2>1, <2>2 DEF FrameTypes, ADS7042_RECAL_CLOCKS
<1>11. CASE ads7042_offset_cal
  <2>1. clocks' = clocks /\ UNCHANGED <<iface, state, tx, rx, csn, own, adc>>
    BY <1>11, QuietWhenSet DEF ads7042_offset_cal
  <2> QED BY <2>1 DEF FrameTypes, Depth, Pio
<1>12. CASE EndCal
  <2>1. clocks' = clocks /\ UNCHANGED <<iface, tx, rx, own>> /\ state' = "CAL"
        /\ csn' \in {"high", csn}
    BY <1>12, QuietWhenSet DEF EndCal
  <2>2. adc' \in {"fresh", "uncal", "cal"}
    BY <1>12, AdcAfterType DEF EndCal, FrameTypes
  <2> QED BY <2>1, <2>2 DEF FrameTypes, Depth, Pio, States
<1>13. CASE UNCHANGED <<iface, state, tx, rx, csn, own, clocks, adc>>
  BY <1>13 DEF FrameTypes, Depth, Pio
<1>14. \/ ads7042_start_async_read_blocking \/ ads7042_get_data_blocking \/ ads7042_read_blocking
       \/ AdsStays
       => UNCHANGED <<iface, state, tx, rx, csn, own, clocks, adc>>
  BY DEF ads7042_start_async_read_blocking, ads7042_get_data_blocking, ads7042_read_blocking,
         Begin, AdsStays
<1> QED BY <1>2, <1>3, <1>4, <1>5, <1>7, <1>9, <1>10, <1>11, <1>12, <1>13, <1>14
        DEF AdsNext, AdsHardware, AdsGoesOn, AdsCall

(* They hold before the initialisation.                                    *)
LEMMA FrameTypesInit == AdsInit => FrameTypes
<1> SUFFICES ASSUME AdsInit PROVE FrameTypes
  OBVIOUS
<1>1. state \in States
  BY DEF AdsInit, States
<1>2. tx = 0 /\ Len(rx) = 0 /\ csn = "high" /\ clocks = 0 /\ adc = "fresh"
  BY DEF AdsInit
<1>3. 0 <= Depth
  BY AdsAssumption DEF Depth
<1>4. own \in BOOLEAN
  BY Zenon DEF AdsInit
<1>5. clocks \in 0..ADS7042_RECAL_CLOCKS
  BY <1>2 DEF ADS7042_RECAL_CLOCKS
<1>6. tx <= Depth /\ Len(rx) <= Depth
  BY <1>2, <1>3
<1> QED BY <1>1, <1>2, <1>4, <1>5, <1>6 DEF FrameTypes

(* With the count of the words they are all the module says of types.      *)
LEMMA AdsTypes == AdsInv /\ FrameTypes => AdsTypeOK
<1> SUFFICES ASSUME AdsInv, FrameTypes PROVE AdsTypeOK
  OBVIOUS
<1>1. todo \in Seq({"put", "get", "dummy", "discard", "end_cal"})
  <2> DEFINE Steps == {"put", "get", "dummy", "discard", "end_cal"}
  <2>1. <<>> \in Seq(Steps) /\ <<"put">> \in Seq(Steps) /\ <<"get">> \in Seq(Steps)
    OBVIOUS
  <2>2. <<"put", "get">> \in Seq(Steps) /\ <<"dummy">> \in Seq(Steps)
    OBVIOUS
  <2>3. <<"end_cal">> \in Seq(Steps) /\ <<"discard", "end_cal">> \in Seq(Steps)
    OBVIOUS
  <2>4. <<"discard", "discard", "end_cal">> \in Seq(Steps)
    OBVIOUS
  <2> HIDE DEF Steps
  <2>5. todo \in Seq(Steps)
    BY <2>1, <2>2, <2>3, <2>4 DEF AdsInv, CountTypes, Reads, LastSteps
  <2> QED BY <2>5 DEF Steps
<1>2. iface \in Interfaces \cup {"none"}
  BY AdsAssumption DEF AdsInv, CountTypes, Interfaces
<1>3. tx \in 0..Depth
  BY AdsAssumption DEF AdsInv, CountTypes, FrameTypes, Depth
<1>4. owed \in 0..(2 * Depth + 2)
  <2>1. owed \in Nat /\ owed <= Held
    <3>1. todo \notin Reads => owed = 0
      BY DEF AdsInv, CountTypes, Counted
    <3> QED BY <3>1, HeldNat DEF AdsInv, CountTypes, Counted
  <2>2. Held <= 2 * Depth + 2 /\ Depth \in Nat
    BY AdsAssumption DEF Held, Depth
  <2> QED BY <2>1, <2>2, HeldNat
<1> QED BY <1>1, <1>2, <1>3, <1>4 DEF AdsInv, CountTypes, FrameTypes, AdsTypeOK

---------------------------------------------------------------------------
(* Frames                                                                  *)

(* Words that are still to be clocked.                                     *)
Word == tx + (IF engine = "shifting" THEN 1 ELSE 0)

(* Outside a calibration the format is that of a result, and CSn fell for  *)
(* each word that is being clocked or waits.                               *)
Whole ==
  todo \in Reads /\ iface # "none" =>
    /\ format[iface] = ADS7042_FRAME_LEN
    /\ \A i \in DOMAIN rx : rx[i]
    /\ engine = "shifting" => own

(* The ADC has seen no frame before the first read or calibration.         *)
Unused ==
  /\ iface = "none" => state = "PWRON"
  /\ state = "PWRON" /\ todo \notin LastSteps =>
       /\ adc = "fresh" /\ clocks = 0 /\ csn # "held"
       /\ tx = 0 /\ rx = <<>> /\ engine = "idle"
  /\ At("put") /\ Pio => state # "PWRON"

(* CSn is low while a word is clocked and high otherwise, unless the PIO's *)
(* initialisation set it wrong and no frame has raised it yet.             *)
Selected ==
  todo \notin LastSteps /\ (Pio => state # "PWRON") =>
    csn = IF engine = "idle" THEN "high" ELSE "low"

(* A dummy read is about to begin: 16 clocks to a word, and 32 where the   *)
(* interface has them and the ADC needs them.                              *)
DummyReady ==
  todo = <<"dummy">> =>
    /\ engine = "idle"
    /\ format[iface] = IF Pio /\ state # "PWRON"
                       THEN ADS7042_RECAL_CLOCKS ELSE ADS7042_CAL_CLOCKS

(* Two words that make one frame.                                          *)
LongFrame ==
  /\ ~Pio /\ format[iface] = ADS7042_CAL_CLOCKS
  /\ clocks + ADS7042_CAL_CLOCKS * Word = ADS7042_RECAL_CLOCKS
  /\ Word = 0 => adc = "cal"

(* One word that is enough of a frame, before it has been clocked.         *)
EnoughToCome ==
  /\ Word = 1 /\ engine # "pushed"
  /\ \/ Pio /\ format[iface] = ADS7042_RECAL_CLOCKS
     \/ adc = "fresh" /\ format[iface] = ADS7042_CAL_CLOCKS
  /\ clocks = 0 \/ (engine = "idle" /\ csn = "high")

Enough ==
  /\ Word = 0 /\ adc = "cal"
  /\ engine = "idle" => csn = "high"

(* The dummy frame has the clocks that calibrate the ADC.                  *)
Calibrating ==
  todo \in LastSteps => IF csn = "held" THEN LongFrame ELSE EnoughToCome \/ Enough

FrameInv == Unused /\ Selected /\ DummyReady /\ Calibrating /\ CalibratedIsTrue

(* What a step of the interface leaves alone.                              *)
LEMMA HardwareLeaves ==
  ASSUME AdsHardware
  PROVE  /\ UNCHANGED <<format, iface, state, todo>>
         /\ (Pio <=> Pio') /\ (At("put") <=> At("put")')
  BY DEF AdsHardware, Pull, Push, RaiseCsn, At, Pio

(* A frame begins.  CSn was high, so it falls for the word that is pulled, *)
(* or this is the first of all frames, or the second half of a long one.   *)
LEMMA PullFrames ==
  ASSUME AdsInv, FrameTypes, FrameInv, Pull
  PROVE  FrameInv' /\ (Whole => Whole')
<1>1. /\ UNCHANGED <<format, iface, state, todo, rx, adc>>
      /\ (Pio <=> Pio') /\ (At("put") <=> At("put")')
  BY HardwareLeaves DEF Pull, AdsHardware
<1>2. /\ engine = "idle" /\ engine' = "shifting" /\ tx > 0 /\ tx \in Nat /\ tx' = tx - 1
      /\ csn' = (IF csn = "high" THEN "low" ELSE csn)
      /\ clocks' = IF csn = "high" THEN 0 ELSE clocks
  BY DEF Pull, AdsInv, CountTypes
<1>3. Word' = Word /\ Word > 0
  BY <1>2 DEF Word
<1>4. state = "PWRON" => todo \in LastSteps
  BY <1>2 DEF FrameInv, Unused
<1>5. iface # "none"
  <2>1. iface = "none" => todo \notin LastSteps
    BY ListsDiffer DEF AdsInv
  <2> QED BY <1>4, <2>1 DEF FrameInv, Unused
<1>6. Whole => Whole'
  <2> SUFFICES ASSUME Whole, todo \in Reads PROVE Whole'
    BY <1>1 DEF Whole
  <2>1. csn = "high"
    BY <1>2, <1>4, ListsDiffer DEF FrameInv, Selected
  <2>2. own'
    BY <2>1 DEF Pull
  <2> QED BY <1>1, <1>5, <2>2 DEF Whole
<1>7. Unused' /\ Selected'
  BY <1>1, <1>2, <1>4, <1>5 DEF FrameInv, Unused, Selected
<1>8. DummyReady'
  <2>1. todo # <<"dummy">>
    <3>1. todo = <<"dummy">> => InFlight = 0
      BY DEF AdsInv, Counted
    <3> QED BY <1>2, <3>1, Queue DEF InFlight, AdsInv, CountTypes
  <2> QED BY <1>1, <2>1 DEF DummyReady
<1>9. Calibrating'
  BY <1>1, <1>2, <1>3 DEF FrameInv, Calibrating, LongFrame, EnoughToCome, Enough
<1> QED BY <1>1, <1>6, <1>7, <1>8, <1>9 DEF FrameInv, CalibratedIsTrue

(* Its clocks are over: a result is one of its own 14 clocks, and the last *)
(* word of a dummy frame has brought the clocks up to what calibrates.     *)
LEMMA PushFrames ==
  ASSUME AdsInv, FrameTypes, FormatTypeOK, FrameInv, Push
  PROVE  FrameInv' /\ (Whole => Whole')
<1>1. /\ UNCHANGED <<format, iface, state, todo, tx, own>>
      /\ (Pio <=> Pio') /\ (At("put") <=> At("put")')
  BY HardwareLeaves DEF Push, AdsHardware
<1> DEFINE rises == ~Pio /\ csn = "low"
<1>2. /\ engine = "shifting" /\ engine' = (IF Pio THEN "pushed" ELSE "idle")
      /\ csn' = IF rises THEN "high" ELSE csn
      /\ clocks' = Clocked(format[iface]) /\ adc' = AdcAfter(clocks', rises)
  BY DEF Push
<1>3. Word \in Nat /\ Word' = Word - 1 /\ Word > 0
  BY <1>1, <1>2 DEF Word, AdsInv, CountTypes
<1>4. state = "PWRON" => todo \in LastSteps
  BY <1>2 DEF FrameInv, Unused
<1>5. iface # "none"
  <2>1. iface = "none" => todo \notin LastSteps
    BY ListsDiffer DEF AdsInv
  <2> QED BY <1>4, <2>1 DEF FrameInv, Unused
<1>6. Whole => Whole'
  <2> SUFFICES ASSUME Whole, todo \in Reads PROVE Whole'
    BY <1>1 DEF Whole
  <2>1. format[iface] = ADS7042_FRAME_LEN /\ own /\ \A i \in DOMAIN rx : rx[i]
    BY <1>2, <1>5 DEF Whole
  <2>2. (own /\ format[iface] = ADS7042_FRAME_LEN) = TRUE
    BY <2>1
  <2>3. rx' = rx \/ rx' = Append(rx, TRUE)
    BY <2>2 DEF Push
  <2>4. \A i \in DOMAIN rx' : rx'[i]
    <3>1. rx \in Seq(BOOLEAN)
      BY DEF AdsInv, CountTypes
    <3>2. /\ Append(rx, TRUE) \in Seq(BOOLEAN) /\ Len(Append(rx, TRUE)) = Len(rx) + 1
          /\ \A i \in 1..Len(rx) : Append(rx, TRUE)[i] = rx[i]
          /\ Append(rx, TRUE)[Len(rx) + 1] = TRUE
      BY <3>1, AppendProperties
    <3>3. \A i \in 1..Len(rx) + 1 : Append(rx, TRUE)[i]
      BY <2>1, <3>1, <3>2
    <3>4. DOMAIN Append(rx, TRUE) = 1..Len(rx) + 1
      BY <3>1, <3>2
    <3> QED BY <2>1, <2>3, <3>3, <3>4
  <2>5. engine' # "shifting"
    BY <1>2
  <2> QED BY <1>1, <2>1, <2>4, <2>5 DEF Whole
<1>7. Unused'
  BY <1>1, <1>4, <1>5 DEF FrameInv, Unused
<1>8. Selected'
  BY <1>1, <1>2 DEF FrameInv, Selected
<1>9. DummyReady'
  BY <1>1, <1>2 DEF FrameInv, DummyReady
<1>10. adc = "cal" => adc' = "cal"
  BY <1>2, AdcAfterType
<1>11. Calibrating'
  <2> SUFFICES ASSUME todo \in LastSteps PROVE Calibrating'
    BY <1>1 DEF Calibrating
  <2>1. CASE csn = "held"
    <3>1. ~Pio /\ format[iface] = 16 /\ clocks + 16 * Word = 32
      BY <2>1 DEF FrameInv, Calibrating, LongFrame, ADS7042_CAL_CLOCKS, ADS7042_RECAL_CLOCKS
    <3>2. clocks' + 16 * Word' = 32
      BY <1>2, <1>3, <3>1 DEF Clocked, ADS7042_RECAL_CLOCKS, FrameTypes
    <3>3. Word' = 0 => adc' = "cal"
      <4>1. clocks' \in Nat
        BY <1>2, <3>1, ClockedType DEF FrameTypes
      <4>2. ASSUME NEW w \in Nat, NEW c \in Nat, c + 16 * w = 32, w = 0
            PROVE  c = 32
        BY <4>2
      <4>3. Word' = 0 => clocks' = 32
        BY <3>2, <4>1, <4>2
      <4> QED BY <1>2, <4>3 DEF AdcAfter, ADS7042_RECAL_CLOCKS
    <3>4. csn' = "held"
      BY <1>2, <2>1
    <3> QED BY <1>1, <3>1, <3>2, <3>3, <3>4
            DEF Calibrating, LongFrame, ADS7042_CAL_CLOCKS, ADS7042_RECAL_CLOCKS
  <2>2. CASE csn # "held"
    <3>1. EnoughToCome
      BY <1>3, <2>2 DEF FrameInv, Calibrating, Enough
    <3>2. clocks = 0 /\ Word' = 0
      BY <1>2, <1>3, <3>1 DEF EnoughToCome
    <3>3. adc' = "cal"
      BY <1>2, <3>1, <3>2
         DEF EnoughToCome, Clocked, AdcAfter, ADS7042_CAL_CLOCKS, ADS7042_RECAL_CLOCKS
    <3>4. csn' # "held" /\ (engine' = "idle" => csn' = "high")
      BY <1>2, <2>2 DEF FrameTypes
    <3> QED BY <3>2, <3>3, <3>4 DEF Calibrating, Enough
  <2> QED BY <2>1, <2>2
<1> QED BY <1>1, <1>6, <1>7, <1>8, <1>9, <1>10, <1>11 DEF FrameInv, CalibratedIsTrue

(* The PIO ends a frame.                                                   *)
LEMMA RaiseFrames ==
  ASSUME AdsInv, FrameTypes, FrameInv, RaiseCsn
  PROVE  FrameInv' /\ (Whole => Whole')
<1>1. /\ UNCHANGED <<format, iface, state, todo, tx, rx, clocks>>
      /\ (Pio <=> Pio') /\ (At("put") <=> At("put")')
  BY HardwareLeaves DEF RaiseCsn, AdsHardware
<1>2. engine = "pushed" /\ engine' = "idle" /\ csn' = "high" /\ adc' = AdcAfter(clocks, TRUE)
  BY DEF RaiseCsn
<1>3. adc = "cal" => adc' = "cal"
  BY <1>2, AdcAfterType
<1>4. Pio /\ Word' = Word
  BY <1>1, <1>2 DEF AdsInv, Word
<1>5. state = "PWRON" => todo \in LastSteps
  BY <1>2 DEF FrameInv, Unused
<1>6. (Whole => Whole') /\ Unused'
  BY <1>1, <1>2, <1>5 DEF FrameInv, Whole, Unused
<1>7. Selected' /\ DummyReady'
  BY <1>1, <1>2 DEF FrameInv, Selected, DummyReady
<1>8. Calibrating'
  BY <1>1, <1>2, <1>3, <1>4 DEF FrameInv, Calibrating, LongFrame, EnoughToCome, Enough
<1> QED BY <1>1, <1>3, <1>6, <1>7, <1>8 DEF FrameInv, CalibratedIsTrue

(* The interface is set up for results, and nothing has been clocked.      *)
LEMMA InitFrames ==
  ASSUME AdsInv, FormatTypeOK, FrameInv, ads7042_init_pio \/ ads7042_init_hw_spi
  PROVE  FrameInv' /\ (Whole => Whole')
<1>1. /\ iface = "none" /\ todo = <<>> /\ InFlight = 0 /\ todo \in Reads /\ todo \notin LastSteps
  BY ListsDiffer DEF ads7042_init_pio, ads7042_init_hw_spi, AdsInv, Counted
<1>2. tx = 0 /\ rx = <<>> /\ engine = "idle"
  BY <1>1, Queue DEF InFlight, AdsInv, CountTypes, Pio
<1>3. state = "PWRON" /\ adc = "fresh" /\ clocks = 0 /\ csn = "high"
  BY <1>1, <1>2 DEF FrameInv, Unused, Selected, Pio
<1>4. /\ UNCHANGED <<tx, rx, engine, own, clocks, adc, todo>> /\ state' = "PWRON"
      /\ iface' \in {"pio", AdcSpi} /\ csn' \in {"low", "high"}
      /\ iface' # "pio" => csn' = "high"
      /\ format' = [format EXCEPT ![iface'] = ADS7042_FRAME_LEN]
  BY <1>3, AdsAssumption DEF ads7042_init_pio, ads7042_init_hw_spi, Spis
<1>5. iface' \in Interfaces /\ iface' # "none"
  BY <1>4, AdsAssumption DEF Interfaces, Spis
<1>6. format'[iface'] = ADS7042_FRAME_LEN
  <2> HIDE DEF Interfaces, WordBits
  <2> QED BY <1>4, <1>5 DEF FormatTypeOK
<1>7. ~At("put")' /\ todo' # <<"dummy">> /\ todo' \notin LastSteps
  BY <1>1, <1>4, ListsDiffer DEF At
<1>8. Whole'
  <2>1. \A i \in DOMAIN rx' : rx'[i]
    BY <1>2, <1>4
  <2> QED BY <1>2, <1>4, <1>6, <2>1 DEF Whole
<1>9. Unused' /\ Selected'
  BY <1>2, <1>3, <1>4, <1>5, <1>7 DEF Unused, Selected, Pio
<1> QED BY <1>4, <1>7, <1>8, <1>9 DEF FrameInv, DummyReady, Calibrating, CalibratedIsTrue

(* A request that is queued changes no frame.                              *)
LEMMA RequestFrames ==
  ASSUME FrameInv, Request, UNCHANGED <<format, iface, rx, engine, csn, own, clocks, adc>>,
         todo \in Reads, todo' \in Reads, ~At("put")', Pio => state # "PWRON", iface # "none"
  PROVE  FrameInv' /\ (Whole => Whole')
<1>1. /\ state' # "PWRON" /\ (state' = "CAL" => state = "CAL")
      /\ (Pio <=> Pio')
  BY DEF Request, Pio
<1>2. todo \notin LastSteps /\ todo' \notin LastSteps /\ todo' # <<"dummy">>
  BY ListsDiffer
<1>3. Whole => Whole'
  BY DEF Whole
<1>4. Unused' /\ Selected'
  BY <1>1, <1>2 DEF FrameInv, Unused, Selected
<1> QED BY <1>1, <1>2, <1>3, <1>4 DEF FrameInv, DummyReady, Calibrating, CalibratedIsTrue

(* Nor does a result that is taken: there is one, so frames there were.    *)
LEMMA TakeFrames ==
  ASSUME FrameInv, rx \in Seq(BOOLEAN), rx # <<>>, rx' = Tail(rx),
         UNCHANGED <<format, iface, state, tx, engine, csn, own, clocks, adc>>,
         todo \in Reads, todo' \in Reads, ~At("put")'
  PROVE  FrameInv' /\ (Whole => Whole')
<1>1. state # "PWRON" /\ (Pio <=> Pio') /\ iface # "none"
  BY ListsDiffer DEF FrameInv, Unused, Pio
<1>2. todo \notin LastSteps /\ todo' \notin LastSteps /\ todo' # <<"dummy">>
  BY ListsDiffer
<1>3. Whole => \A i \in DOMAIN rx : rx[i]
  BY <1>1 DEF Whole
<1>4. Whole => \A i \in DOMAIN rx' : rx'[i]
  <2>1. Len(rx) \in Nat /\ Len(rx) > 0 /\ DOMAIN rx = 1..Len(rx)
    BY Queue
  <2>2. DOMAIN rx' = 1..Len(rx) - 1 /\ \A i \in DOMAIN rx' : rx'[i] = rx[i + 1]
    BY HeadTailProperties
  <2>3. \A i \in DOMAIN rx' : i + 1 \in DOMAIN rx
    BY <2>1, <2>2
  <2> QED BY <1>3, <2>2, <2>3
<1>5. Whole => Whole'
  BY <1>1, <1>4 DEF Whole
<1>6. Unused' /\ Selected'
  BY <1>1, <1>2 DEF FrameInv, Unused, Selected
<1> QED BY <1>1, <1>2, <1>5, <1>6 DEF FrameInv, DummyReady, Calibrating, CalibratedIsTrue

(* A call that has only begun changes nothing; it may put a word only to   *)
(* an interface whose CSn is high.                                         *)
LEMMA BeginFrames ==
  ASSUME FrameInv, NEW steps \in Reads, Begin(steps), todo \in Reads,
         steps # <<>> /\ Head(steps) = "put" /\ Pio => state # "PWRON"
  PROVE  FrameInv' /\ (Whole => Whole')
<1>1. /\ todo' = steps /\ (Pio <=> Pio') /\ (At("put")' <=> steps # <<>> /\ Head(steps) = "put")
      /\ UNCHANGED <<format, iface, state, tx, rx, engine, csn, own, clocks, adc>>
  BY DEF Begin, Pio, At
<1>2. todo \notin LastSteps /\ todo' \notin LastSteps /\ todo' # <<"dummy">>
  BY <1>1, ListsDiffer
<1>3. Whole => Whole'
  BY <1>1 DEF Whole
<1>4. Unused' /\ Selected'
  BY <1>1, <1>2 DEF FrameInv, Unused, Selected
<1> QED BY <1>1, <1>2, <1>3, <1>4 DEF FrameInv, DummyReady, Calibrating, CalibratedIsTrue

(* A calibration sets the format when nothing is on its way.               *)
LEMMA OffsetCalFrames ==
  ASSUME AdsInv, FormatTypeOK, FrameInv, AdsUsage = {}, ads7042_offset_cal
  PROVE  FrameInv' /\ (Whole => Whole')
<1>1. /\ engine = "idle" /\ engine' = "idle" /\ clocks' = clocks
      /\ tx = 0 /\ rx = <<>> /\ tx' = tx /\ rx' = rx /\ iface # "none"
  BY QuietWhenSet
<1>2. /\ todo = <<>> /\ todo' = <<"dummy">> /\ UNCHANGED <<iface, state, csn, own, adc>>
      /\ (Pio <=> Pio')
      /\ format' = [format EXCEPT ![iface] = IF Pio \/ CalClocks <= 16 THEN CalClocks ELSE 16]
  BY DEF ads7042_offset_cal, change_n_bits, NoCall, Pio
<1>3. todo \notin LastSteps /\ todo' \notin Reads /\ todo' \notin LastSteps /\ ~At("put")'
  BY <1>2, ListsDiffer DEF At
<1>4. format'[iface] = IF Pio \/ CalClocks <= 16 THEN CalClocks ELSE 16
  <2>1. iface \in Interfaces
    BY <1>1, OnInterface
  <2> HIDE DEF Interfaces, WordBits, CalClocks
  <2> QED BY <1>2, <2>1 DEF FormatTypeOK
<1>5. DummyReady'
  BY <1>1, <1>2, <1>4 DEF DummyReady, CalClocks, ADS7042_CAL_CLOCKS, ADS7042_RECAL_CLOCKS
<1>6. Unused' /\ Selected'
  BY <1>1, <1>2, <1>3 DEF FrameInv, Unused, Selected
<1> QED BY <1>2, <1>3, <1>5, <1>6 DEF FrameInv, Whole, Calibrating, CalibratedIsTrue

(* The dummy read asks for the clocks that are needed, from a CSn that is  *)
(* high or a frame that is the first.                                      *)
LEMMA DummyFrames ==
  ASSUME AdsInv, FrameTypes, FrameInv, dummy_read
  PROVE  FrameInv' /\ (Whole => Whole')
<1>1. todo = <<"dummy">> /\ InFlight = 0
  BY StepsLeft DEF dummy_read, AdsInv, Counted
<1>2. tx = 0 /\ rx = <<>> /\ engine = "idle"
  BY <1>1, Queue DEF InFlight, AdsInv, CountTypes, FrameInv, DummyReady
<1>3. /\ UNCHANGED <<format, iface, state, engine, adc>>
      /\ tx' = Dummies /\ Dummies \in {1, 2} /\ (Pio <=> Pio')
      /\ csn' = (IF Dummies = 2 THEN "held" ELSE csn)
      /\ clocks' = IF Dummies = 2 /\ csn = "high" THEN 0 ELSE clocks
      /\ Dummies = IF ~Pio /\ state # "PWRON" THEN 2 ELSE 1
  BY <1>2 DEF dummy_read, ClearThenPut, Dummies, Pio
<1>4. todo' \in LastSteps /\ todo \notin LastSteps
  <2>1. AdsInv'
    BY DummyStep
  <2>2. todo' = Discards \o <<"end_cal">>
    BY DEF dummy_read
  <2>3. Discards = <<"discard">> \/ Discards = <<"discard", "discard">>
    BY <1>3 DEF Discards
  <2> QED BY <1>1, <2>2, <2>3, EndOfCal, ListsDiffer DEF LastSteps
<1>5. Word' = Dummies
  BY <1>2, <1>3 DEF Word
<1>6. todo' \notin Reads /\ todo' # <<"dummy">> /\ ~At("put")'
  BY <1>4, ListsDiffer DEF At
<1>7. Calibrating'
  <2>1. CASE Dummies = 2
    <3>1. csn = "high"
      BY <1>2, <1>3, <1>4, <2>1 DEF FrameInv, Selected
    <3>2. LongFrame'
      <4>1. clocks' = 0 /\ Word' = 2
        BY <1>3, <1>5, <2>1, <3>1
      <4>2. ~Pio' /\ format'[iface'] = ADS7042_CAL_CLOCKS
        BY <1>1, <1>3, <2>1 DEF FrameInv, DummyReady
      <4>3. clocks' + ADS7042_CAL_CLOCKS * Word' = ADS7042_RECAL_CLOCKS
        BY <4>1 DEF ADS7042_CAL_CLOCKS, ADS7042_RECAL_CLOCKS
      <4> QED BY <4>1, <4>2, <4>3 DEF LongFrame
    <3> QED BY <1>3, <2>1, <3>2 DEF Calibrating
  <2>2. CASE Dummies = 1
    <3>1. csn # "held"
      BY <1>2, <1>4 DEF FrameInv, Unused, Selected
    <3>2. \/ Pio /\ format[iface] = ADS7042_RECAL_CLOCKS
          \/ adc = "fresh" /\ format[iface] = ADS7042_CAL_CLOCKS
      BY <1>1, <1>3, <1>4, <2>2 DEF FrameInv, DummyReady, Unused
    <3>3. clocks = 0 \/ csn = "high"
      BY <1>2, <1>4 DEF FrameInv, Unused, Selected
    <3>4. EnoughToCome'
      BY <1>2, <1>3, <1>5, <2>2, <3>2, <3>3 DEF EnoughToCome
    <3> QED BY <1>3, <2>2, <3>1, <3>4 DEF Calibrating
  <2> QED BY <1>3, <2>1, <2>2
<1>8. iface # "none"
  BY <1>1 DEF AdsInv
<1> QED BY <1>3, <1>4, <1>6, <1>7, <1>8
        DEF FrameInv, Whole, Unused, Selected, DummyReady, CalibratedIsTrue

(* Taking a dummy word leaves the frame as it is.                          *)
LEMMA DiscardFrames ==
  ASSUME AdsInv, FrameInv, DiscardWhenReadable
  PROVE  FrameInv' /\ (Whole => Whole')
<1>1. todo \in LastSteps /\ todo' \in LastSteps
  BY StepsLeft DEF DiscardWhenReadable, AdsInv
<1>2. /\ UNCHANGED <<format, iface, state, tx, engine, csn, own, clocks, adc>>
      /\ (Pio <=> Pio') /\ Word' = Word
  BY DEF DiscardWhenReadable, Pio, Word
<1>3. todo' \notin Reads /\ todo' # <<"dummy">> /\ ~At("put")'
  BY <1>1, ListsDiffer DEF At
<1>4. Calibrating'
  BY <1>1, <1>2 DEF FrameInv, Calibrating, LongFrame, EnoughToCome, Enough
<1> QED BY <1>1, <1>2, <1>3, <1>4
        DEF FrameInv, Whole, Unused, Selected, DummyReady, CalibratedIsTrue

(* When all have been taken they have been clocked, so the ADC is          *)
(* calibrated; CSn is high again and the format is that of a result.       *)
LEMMA EndCalFrames ==
  ASSUME AdsInv, FormatTypeOK, FrameInv, AdsUsage = {}, EndCal
  PROVE  FrameInv' /\ (Whole => Whole')
<1>1. /\ engine = "idle" /\ engine' = "idle" /\ clocks' = clocks
      /\ tx = 0 /\ rx = <<>> /\ tx' = tx /\ rx' = rx /\ iface # "none"
  BY QuietWhenSet
<1>2. /\ todo' = <<>> /\ iface' = iface /\ state' = "CAL"
      /\ csn' = (IF csn = "held" THEN "high" ELSE csn)
      /\ adc' = AdcAfter(clocks, csn = "held")
      /\ format' = [format EXCEPT ![iface] =
                      IF Pio \/ ADS7042_FRAME_LEN <= 16 THEN ADS7042_FRAME_LEN ELSE 16]
  BY DEF EndCal, change_n_bits
<1>3. todo \in LastSteps
  BY StepsLeft DEF EndCal, AdsInv, LastSteps
<1>4. adc = "cal" /\ csn' = "high"
  <2>1. Word = 0
    BY <1>1 DEF Word
  <2> QED BY <1>1, <1>2, <1>3, <2>1 DEF FrameInv, Calibrating, LongFrame, EnoughToCome, Enough
<1>5. adc' = "cal"
  BY <1>2, <1>4, AdcAfterType
<1>6. format'[iface'] = ADS7042_FRAME_LEN
  <2>1. iface \in Interfaces
    BY <1>1, OnInterface
  <2>2. format' = [format EXCEPT ![iface] = ADS7042_FRAME_LEN]
    BY <1>2 DEF ADS7042_FRAME_LEN
  <2> HIDE DEF Interfaces, WordBits
  <2> QED BY <1>2, <2>1, <2>2 DEF FormatTypeOK
<1>7. todo' # <<"dummy">> /\ todo' \notin LastSteps /\ ~At("put")'
  BY <1>2, ListsDiffer DEF At
<1>8. Whole'
  <2>1. \A i \in DOMAIN rx' : rx'[i]
    BY <1>1
  <2> QED BY <1>1, <1>6, <2>1 DEF Whole
<1> QED BY <1>1, <1>2, <1>4, <1>5, <1>7, <1>8
        DEF FrameInv, Unused, Selected, DummyReady, Calibrating, CalibratedIsTrue

(* Every step of the driver, the interface and the ADC.                    *)
LEMMA AdsNextFrames ==
  ASSUME AdsInv, FrameTypes, FormatTypeOK, FrameInv, AdsUsage = {}, AdsNext
  PROVE  FrameInv' /\ (Whole => Whole')
<1>0. /\ rx \in Seq(BOOLEAN) /\ iface = "none" => todo = <<>>
      /\ CountTypes
  BY DEF AdsInv, CountTypes
<1>1. CASE AdsHardware
  BY <1>1, PullFrames, PushFrames, RaiseFrames DEF AdsHardware
<1>2. CASE PutWhenWritable
  <2>1. At("put") /\ todo' = Tail(todo) /\ todo \in Reads /\ todo' \in {<<>>, <<"get">>}
    BY <1>0, <1>2, StepsLeft DEF PutWhenWritable
  <2>2. iface # "none" /\ todo' \in Reads /\ ~At("put")'
    <3>1. iface # "none"
      BY <2>1 DEF AdsInv, At
    <3>2. CASE todo' = <<>>  BY <3>1, <3>2, ListsDiffer DEF At
    <3>3. CASE todo' = <<"get">>  BY <3>1, <3>3, ListsDiffer DEF At
    <3> QED BY <2>1, <3>2, <3>3
  <2>3. Pio => state # "PWRON"
    BY <2>1 DEF FrameInv, Unused
  <2> QED BY <1>2, <2>1, <2>2, <2>3, RequestFrames DEF PutWhenWritable
<1>3. CASE GetWhenReadable
  <2>1. todo' = Tail(todo) /\ todo \in Reads /\ todo' = <<>> /\ rx # <<>> /\ rx' = Tail(rx)
    BY <1>0, <1>3, StepsLeft DEF GetWhenReadable, Fetch
  <2>2. todo' \in Reads /\ ~At("put")'
    BY <2>1, ListsDiffer DEF At
  <2>3. rx \in Seq(BOOLEAN)
    BY DEF AdsInv, CountTypes
  <2> QED BY <1>3, <2>1, <2>2, <2>3, TakeFrames DEF GetWhenReadable
<1>4. CASE dummy_read \/ DiscardWhenReadable \/ EndCal
  BY <1>4, DummyFrames, DiscardFrames, EndCalFrames
<1>5. CASE ads7042_init_pio \/ ads7042_init_hw_spi
  BY <1>5, InitFrames
<1>6. MayStart => /\ iface # "none" /\ todo = <<>> /\ todo \in Reads
                  /\ Pio => state # "PWRON"
  BY ListsDiffer DEF MayStart, NoCall
<1>7. CASE ads7042_start_async_read
  <2>1. todo' = todo /\ ~At("put")' /\ Request
        /\ UNCHANGED <<format, iface, rx, engine, csn, own, clocks, adc>>
    BY <1>6, <1>7 DEF ads7042_start_async_read, At
  <2> QED BY <1>6, <1>7, <2>1, RequestFrames DEF ads7042_start_async_read
<1>8. CASE ads7042_start_async_read_blocking \/ ads7042_read_blocking
  BY <1>6, <1>8, BeginFrames, ListsDiffer DEF ads7042_start_async_read_blocking, ads7042_read_blocking
<1>9. CASE ads7042_get_data_blocking
  <2>1. todo \in Reads /\ <<"get">> \in Reads /\ Head(<<"get">>) # "put"
    BY <1>9, ListsDiffer DEF ads7042_get_data_blocking, NoCall
  <2> QED BY <1>9, <2>1, BeginFrames DEF ads7042_get_data_blocking
<1>10. CASE ads7042_get_data
  <2>1. todo' = todo /\ todo \in Reads /\ ~At("put")' /\ rx # <<>> /\ rx' = Tail(rx)
    BY <1>10, ListsDiffer DEF ads7042_get_data, Fetch, NoCall, At
  <2>2. rx \in Seq(BOOLEAN)
    BY DEF AdsInv, CountTypes
  <2> QED BY <1>10, <2>1, <2>2, TakeFrames DEF ads7042_get_data
<1>11. CASE ads7042_offset_cal
  BY <1>11, OffsetCalFrames
<1> QED BY <1>1, <1>2, <1>3, <1>4, <1>5, <1>7, <1>8, <1>9, <1>10, <1>11
        DEF AdsNext, AdsGoesOn, AdsCall

(* Every step keeps the invariant, as do steps of others that leave the    *)
(* format alone while a call is going on.                                  *)
LEMMA FrameInvNext ==
  ASSUME AdsInv, FrameTypes, FormatTypeOK, FrameInv, AdsUsage = {}, AdsNext \/ AdsAside
  PROVE  FrameInv'
<1>1. CASE AdsAside
  <2>1. /\ (Pio <=> Pio') /\ (At("put") <=> At("put")') /\ Word' = Word
        /\ todo \in LastSteps \/ todo = <<"dummy">> => todo # <<>> /\ iface # "none"
    BY <1>1, ListsDiffer DEF AdsAside, AdsStays, Pio, At, Word, AdsInv
  <2>2. Unused' /\ Selected'
    BY <1>1, <2>1 DEF AdsAside, AdsStays, FrameInv, Unused, Selected
  <2>3. DummyReady'
    BY <1>1, <2>1 DEF AdsAside, AdsStays, FrameInv, DummyReady
  <2>4. Calibrating'
    BY <1>1, <2>1 DEF AdsAside, AdsStays, FrameInv, Calibrating, LongFrame, EnoughToCome, Enough
  <2> QED BY <1>1, <2>2, <2>3, <2>4 DEF AdsAside, AdsStays, FrameInv, CalibratedIsTrue
<1> QED BY <1>1, AdsNextFrames

(* Results stay whole where nobody else sets the format at all.            *)
LEMMA WholeNext ==
  ASSUME AdsInv, FrameTypes, FormatTypeOK, FrameInv, Whole, AdsUsage = {},
         AdsNext \/ (AdsStays /\ (iface # "none" => format'[iface] = format[iface]))
  PROVE  Whole'
  BY AdsNextFrames DEF AdsStays, Whole

(* It holds before the initialisation.                                     *)
LEMMA FrameInvInit == AdsInit /\ AdsUsage = {} => FrameInv /\ Whole
<1> SUFFICES ASSUME AdsInit, AdsUsage = {} PROVE FrameInv /\ Whole
  OBVIOUS
<1>1. /\ iface = "none" /\ state = "PWRON" /\ tx = 0 /\ rx = <<>> /\ engine = "idle"
      /\ csn = "high" /\ clocks = 0 /\ adc = "fresh" /\ todo = <<>>
  BY DEF AdsInit
<1>2. todo # <<"dummy">> /\ todo \notin LastSteps /\ ~At("put") /\ ~Pio
  BY <1>1, ListsDiffer DEF At, Pio
<1> QED BY <1>1, <1>2
        DEF FrameInv, Whole, Unused, Selected, DummyReady, Calibrating, CalibratedIsTrue

(* What waits for the program outside a calibration is its own.            *)
LEMMA FramesAreWhole == AdsInv /\ FrameInv /\ Whole => WholeResults
<1> SUFFICES ASSUME AdsInv, FrameInv, Whole PROVE WholeResults
  OBVIOUS
<1>1. NoCall \/ At("put") \/ At("get") => todo \in Reads
  BY StepsLeft DEF AdsInv
<1>2. iface = "none" => rx = <<>>
  <2>1. iface = "none" => todo \notin LastSteps
    BY ListsDiffer DEF AdsInv
  <2> QED BY <2>1 DEF FrameInv, Unused
<1>3. rx = <<>> => \A i \in DOMAIN rx : rx[i]
  OBVIOUS
<1> QED BY <1>1, <1>2, <1>3 DEF FrameInv, Whole, WholeResults
=============================================================================
