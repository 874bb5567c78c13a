---------------------------- MODULE DriverProofs ----------------------------
(***************************************************************************)
(* Proofs about the drivers: a card is fresh, a servo did what it was told, *)
(* an answer of the fingerprint sensor is the answer to the command, what  *)
(* a call returns is true of the sensor and its caller may take it for one *)
(* step, the tags of a scan are those of that scan, no more than there     *)
(* are, and a reading of the climate is what was measured; for any noise   *)
(* on the lines, any number of calls and any sizes.                        *)
(***************************************************************************)
EXTENDS Fingerprint, TagReader, CardReader, Servo, Sht30,
        SequenceTheorems, FiniteSetTheorems, TLAPS

-----------------------------------------------------------------------------
(* What is taken from a serial port and what is left in it.                 *)

LEMMA AppendTyped ==
  ASSUME NEW S, NEW q \in Seq(S), NEW e \in S
  PROVE  /\ Append(q, e) \in Seq(S)
         /\ Len(Append(q, e)) = Len(q) + 1 /\ Len(q) \in Nat
BY AppendProperties, LenProperties

LEMMA TailTyped ==
  ASSUME NEW S, NEW q \in Seq(S), q # << >>
  PROVE  /\ Tail(q) \in Seq(S) /\ Head(q) \in S /\ q[1] \in S
         /\ Head(q) = q[1]
         /\ Len(q) \in Nat \ {0} /\ Len(Tail(q)) = Len(q) - 1
BY HeadTailProperties, LenProperties, EmptySeq

LEMMA Typed ==
  ASSUME NEW S, NEW q \in Seq(S)
  PROVE  /\ Len(q) \in Nat
         /\ \A i \in 1..Len(q) : q[i] \in S
BY LenProperties, ElementOfSeq

LEMMA Widened ==
  ASSUME NEW S, NEW T, NEW q \in Seq(S), S \subseteq T
  PROVE  q \in Seq(T)
BY SeqMonotonic

LEMMA TakenTyped ==
  ASSUME NEW S, NEW q \in Seq(S), NEW n \in Nat
  PROVE  /\ Taken(q, n) \in Seq(S)
         /\ Len(Taken(q, n)) \in 0..n
         /\ Len(Taken(q, n)) = Shorter(n, Len(q))
         /\ \A i \in 1..Len(Taken(q, n)) : Taken(q, n)[i] = q[i]
<1>1. Len(q) \in Nat /\ Shorter(n, Len(q)) \in 0..Len(q)
  BY LenProperties DEF Shorter
<1>2. \A i \in 1..Shorter(n, Len(q)) : q[i] \in S
  BY <1>1, ElementOfSeq
<1>3. /\ Taken(q, n) \in Seq(S)
      /\ Len(Taken(q, n)) = Shorter(n, Len(q))
      /\ \A i \in 1..Shorter(n, Len(q)) : Taken(q, n)[i] = q[i]
  BY <1>1, <1>2, SubSeqProperties DEF Taken
<1>4. Shorter(n, Len(q)) \in 0..n
  BY <1>1 DEF Shorter
<1> QED BY <1>3, <1>4

(* The symbols behind the first n are those that are left. *)
LEMMA LeftTyped ==
  ASSUME NEW S, NEW T, NEW q \in Seq(T), NEW n \in Nat,
         \A i \in 1..Len(q) : i > n => q[i] \in S
  PROVE  /\ Left(q, n) \in Seq(S)
         /\ Len(Left(q, n)) = IF n < Len(q) THEN Len(q) - n ELSE 0
         /\ Len(Left(q, n)) \in 0..Len(q)
<1>1. Len(q) \in Nat
  BY LenProperties
<1>2. CASE n < Len(q)
  <2>1. Shorter(n, Len(q)) = n /\ n + 1 \in Int
    BY <1>2 DEF Shorter
  <2>2. \A i \in (n + 1)..Len(q) : q[i] \in S
    BY <1>1
  <2> QED BY <1>1, <1>2, <2>1, <2>2, SubSeqProperties DEF Left
<1>3. CASE ~(n < Len(q))
  <2>1. Shorter(n, Len(q)) = Len(q)
    BY <1>3 DEF Shorter
  <2>2. Left(q, n) = << >>
    BY <1>1, <2>1, SubSeqEmpty DEF Left
  <2>3. << >> \in Seq(S) /\ Len(<< >>) = 0
    BY EmptySeq
  <2> QED BY <1>1, <1>3, <2>2, <2>3
<1> QED BY <1>2, <1>3

LEMMA LeftOfTyped ==
  ASSUME NEW S, NEW q \in Seq(S), NEW n \in Nat
  PROVE  /\ Left(q, n) \in Seq(S)
         /\ Len(Left(q, n)) = IF n < Len(q) THEN Len(q) - n ELSE 0
         /\ Len(Left(q, n)) \in 0..Len(q)
BY LeftTyped, Typed

-----------------------------------------------------------------------------
(* The reader of cards.  What waits in the port came in after the last      *)
(* read() had returned, and so did what the read under way has taken.       *)

Fresh(n) == [part : Parts \union {"noise"}, after : {n}]

CardReaderInv ==
  /\ CardReaderTypeOK
  /\ crAt \in {"header", "rest"} => reads < MaxReads
  /\ crIn \in Seq(Fresh(reads))
  /\ crAt = "rest" => crBuffer \in Seq(Fresh(reads))
  /\ crAt = "done" /\ success =>
       /\ reads \in Nat \ {0}
       /\ crBuffer \in Seq(Fresh(reads - 1)) /\ Len(crBuffer) = 3

LEMMA FreshCome ==
  ASSUME NEW n \in 0..MaxReads
  PROVE  Fresh(n) \subseteq Come
BY DEF Fresh, Come

LEMMA CardReturned ==
  ASSUME CardReaderInv, crAt \in {"header", "rest"}, NEW s \in BOOLEAN,
         CardReturns(s), UNCHANGED crBuffer, crIn' = << >>,
         s => crAt = "rest" /\ Len(crBuffer) = 3
  PROVE  CardReaderInv'
<1>1. /\ reads \in Nat /\ reads + 1 \in 1..MaxReads /\ (reads + 1) - 1 = reads
      /\ CardCap \in Nat
  BY CardReaderAssumption DEF CardReaderInv, CardReaderTypeOK
<1>2. crIn' \in Seq(Come) /\ crIn' \in Seq(Fresh(reads + 1)) /\ Len(crIn') = 0
  BY EmptySeq
<1>3. CardReaderTypeOK'
  BY <1>1, <1>2 DEF CardReaderInv, CardReaderTypeOK, CardReturns
<1>4. /\ crIn' \in Seq(Fresh(reads')) /\ crAt' = "done"
      /\ reads' \in Nat \ {0} /\ reads' - 1 = reads
  BY <1>1, <1>2 DEF CardReturns
<1>5. success' => crBuffer' \in Seq(Fresh(reads' - 1)) /\ Len(crBuffer') = 3
  BY <1>4 DEF CardReturns, CardReaderInv
<1> QED BY <1>3, <1>4, <1>5 DEF CardReaderInv

LEMMA CardReaderNextInv ==
  CardReaderInv /\ [CardReaderNext]_crVars => CardReaderInv'
<1> SUFFICES ASSUME CardReaderInv, [CardReaderNext]_crVars PROVE CardReaderInv'
  OBVIOUS
<1>0. /\ CardReaderTypeOK /\ reads \in 0..MaxReads /\ crIn \in Seq(Fresh(reads))
      /\ crIn \in Seq(Come) /\ Len(crIn) \in Nat
      /\ crBuffer \in Seq(Come) /\ Len(crBuffer) \in Nat /\ Len(crBuffer) <= 3
      /\ reads < MaxReads \/ crAt \notin {"header", "rest"}
  BY LenProperties, CardReaderAssumption DEF CardReaderInv, CardReaderTypeOK
<1>1. CASE UNCHANGED crVars
  BY <1>1 DEF CardReaderInv, CardReaderTypeOK, crVars, Fresh
<1>2. CASE CallRead
  <2>1. crBuffer' = << >> /\ crAt' = "header"
    BY <1>2 DEF CallRead
  <2>2. crBuffer' \in Seq(Come) /\ Len(crBuffer') = 0
    BY <2>1, EmptySeq
  <2> QED BY <1>2, <2>1, <2>2 DEF CallRead, CardReaderInv, CardReaderTypeOK, Fresh
<1>3. CASE CardTimesOut
  BY <1>3, CardReturned DEF CardTimesOut, Readable
<1>4. CASE DropNoise
  BY <1>4, CardReturned DEF DropNoise
<1>5. CASE Finished
  BY <1>5, CardReturned DEF Finished, FlushTrailing
<1>6. CASE ReadHeader
  <2>1. /\ Taken(crIn, 1) \in Seq(Fresh(reads)) /\ Left(crIn, 1) \in Seq(Fresh(reads))
        /\ Len(Taken(crIn, 1)) <= 1 /\ Len(Left(crIn, 1)) <= Len(crIn)
    <3>1. Len(Taken(crIn, 1)) \in 0..1 /\ Len(Left(crIn, 1)) \in 0..Len(crIn)
      BY <1>0, TakenTyped, LeftOfTyped
    <3> QED BY <1>0, <3>1, TakenTyped, LeftOfTyped
  <2>2. Taken(crIn, 1) \in Seq(Come) /\ Left(crIn, 1) \in Seq(Come)
    BY <1>0, <2>1, FreshCome, Widened
  <2>3. /\ crBuffer' \in Seq(Come) /\ crIn' \in Seq(Come)
        /\ crBuffer' \in Seq(Fresh(reads')) /\ crIn' \in Seq(Fresh(reads'))
        /\ Len(crBuffer') <= 3 /\ Len(crIn') <= CardCap
    BY <1>0, <1>6, <2>1, <2>2, LenProperties, CardReaderAssumption
    DEF ReadHeader, CardReaderTypeOK
  <2> QED BY <1>6, <2>3 DEF ReadHeader, CardReaderInv, CardReaderTypeOK
<1>7. CASE ReadRest
  <2>1. Unread \in Nat /\ crBuffer \in Seq(Fresh(reads)) /\ Len(crBuffer) + Unread = 3
    BY <1>0, <1>7 DEF ReadRest, Unread, CardReaderInv
  <2>2. /\ Taken(crIn, Unread) \in Seq(Fresh(reads))
        /\ Left(crIn, Unread) \in Seq(Fresh(reads))
        /\ Len(Taken(crIn, Unread)) \in 0..Unread
        /\ Len(Left(crIn, Unread)) \in 0..Len(crIn)
    BY <1>0, <2>1, TakenTyped, LeftOfTyped
  <2>3. /\ crBuffer' \in Seq(Fresh(reads)) /\ Len(crBuffer') <= 3
        /\ crIn' \in Seq(Fresh(reads))
    BY <1>0, <1>7, <2>1, <2>2, ConcatProperties DEF ReadRest
  <2>4. /\ crBuffer' \in Seq(Come) /\ crIn' \in Seq(Come)
        /\ crBuffer' \in Seq(Fresh(reads')) /\ crIn' \in Seq(Fresh(reads'))
        /\ Len(crIn') <= CardCap
    BY <1>0, <1>7, <2>2, <2>3, FreshCome, Widened, LenProperties, CardReaderAssumption
    DEF ReadRest, CardReaderTypeOK
  <2> QED BY <1>7, <2>3, <2>4 DEF ReadRest, CardReaderInv, CardReaderTypeOK
<1>8. CASE SendCard
  <2>1. crOut' \in Seq(Parts)
    BY <1>8, IsASeq DEF SendCard, Parts
  <2> QED BY <1>8, <2>1 DEF SendCard, CardReaderInv, CardReaderTypeOK, Fresh
<1>9. CASE CardArrives \/ CardGarbled
  <2>1. crOut \in Seq(Parts) /\ crOut # << >> /\ crOut' = Tail(crOut)
    BY <1>9 DEF CardArrives, CardGarbled, CardReaderInv, CardReaderTypeOK
  <2>2. crOut' \in Seq(Parts) /\ crOut[1] \in Parts
    BY <2>1, TailTyped
  <2>3. \A p \in Parts \union {"noise"} :
          /\ Arrival(p) \in Seq(Fresh(reads))
          /\ Len(Arrival(p)) = Len(crIn) + 1
    <3>1. TAKE p \in Parts \union {"noise"}
    <3>2. [part |-> p, after |-> reads] \in Fresh(reads)
      BY <3>1 DEF Fresh
    <3> QED BY <1>0, <3>2, AppendTyped DEF Arrival
  <2>4. /\ crIn' = crIn \/ \E p \in Parts \union {"noise"} : crIn' = Arrival(p)
        /\ crIn' # crIn => Len(crIn) < CardCap
        /\ UNCHANGED <<crAt, crBuffer, success, reads>>
        /\ crNoise' \in 0..MaxCardNoise
    BY <1>9, <2>2, CardReaderAssumption
    DEF CardArrives, CardGarbled, CardReaderInv, CardReaderTypeOK
  <2>5. crIn' \in Seq(Fresh(reads)) /\ Len(crIn') <= CardCap
    BY <1>0, <2>3, <2>4, CardReaderAssumption DEF CardReaderTypeOK
  <2>6. crIn' \in Seq(Come) /\ crIn' \in Seq(Fresh(reads'))
    BY <1>0, <2>4, <2>5, FreshCome, Widened
  <2> QED BY <2>2, <2>4, <2>5, <2>6 DEF CardReaderInv, CardReaderTypeOK, Fresh
<1> QED BY <1>1, <1>2, <1>3, <1>4, <1>5, <1>6, <1>7, <1>8, <1>9
       DEF CardReaderNext, readCard

LEMMA CardReaderInvHolds == CardReaderSpec => []CardReaderInv
<1>1. CardReaderInit => CardReaderInv
  <2>1. << >> \in Seq(Come) /\ << >> \in Seq(Parts) /\ << >> \in Seq(Fresh(0))
        /\ Len(<< >>) = 0
    BY EmptySeq
  <2> SUFFICES ASSUME CardReaderInit PROVE CardReaderInv
    OBVIOUS
  <2>2. CardReaderTypeOK
    <3>1. /\ crAt = "idle" /\ success \in BOOLEAN
          /\ crBuffer \in Seq(Come) /\ crOut \in Seq(Parts) /\ crIn \in Seq(Come)
      BY <2>1 DEF CardReaderInit
    <3>2. /\ Len(crBuffer) <= 3 /\ Len(crIn) <= CardCap
          /\ reads \in 0..MaxReads /\ crNoise \in 0..MaxCardNoise
      BY <2>1, CardReaderAssumption DEF CardReaderInit
    <3> QED BY <3>1, <3>2 DEF CardReaderTypeOK
  <2>3. crIn \in Seq(Fresh(reads)) /\ crAt = "idle"
    BY <2>1 DEF CardReaderInit
  <2> QED BY <2>2, <2>3 DEF CardReaderInv
<1> QED BY <1>1, CardReaderNextInv, PTL DEF CardReaderSpec

(* The driver of the card reader is well typed, and the port holds no more  *)
(* than its bound.                                                          *)
THEOREM CardReaderTypeCorrect == CardReaderSpec => []CardReaderTypeOK
<1>1. CardReaderInv => CardReaderTypeOK
  BY DEF CardReaderInv
<1> QED BY <1>1, CardReaderInvHolds, PTL

(* A card that is read came in after the read before it had returned,       *)
(* however often the reader repeats it, whatever noise there is.            *)
THEOREM CardsAreFresh == CardReaderSpec => []CardIsFresh
<1>1. CardReaderInv => CardIsFresh
  <2> SUFFICES ASSUME CardReaderInv, crAt = "done", success, NEW i \in 1..3
               PROVE  crBuffer[i].after = reads - 1
    BY DEF CardIsFresh
  <2>1. crBuffer[i] \in Fresh(reads - 1)
    BY Typed DEF CardReaderInv
  <2> QED BY <2>1 DEF Fresh
<1> QED BY <1>1, CardReaderInvHolds, PTL

-----------------------------------------------------------------------------
(* The servo.  While the driver is there its channel is; between the two    *)
(* writes of set_value() the channel is on; and nothing has been returned   *)
(* as done before the second of them.                                       *)

ServoPlace ==
  /\ svAt \notin {"down", "failed"} => exported
  /\ svAt = "move" => enabled
  /\ svAt \in {"period", "enable", "first", "wake", "move"} => ~returned

ServoInv == angle \in 0..255 /\ ServoPlace /\ ToldIsDone

(* The pulse of each angle is one that the servo understands. *)
LEMMA PulsesOfAngles ==
  /\ \A a \in 1..180 :
       PulseOf(angleToDutyCycle(a)) \in PulseOf(DUTY_MIN)..PulseOf(DUTY_MAX)
  /\ PulseOf(angleToDutyCycle(180)) = PulseOf(DUTY_MAX)
<1>1. ASSUME NEW a \in 1..180
      PROVE  angleToDutyCycle(a) \in DUTY_MIN..DUTY_MAX
  BY SMT DEF angleToDutyCycle, DUTY_MIN, DUTY_MAX
<1>2. angleToDutyCycle(180) = DUTY_MAX
  BY SMT DEF angleToDutyCycle, DUTY_MIN, DUTY_MAX
<1>3. ASSUME NEW d \in 5..10
      PROVE  PulseOf(d) = 200000 * d
  <2>1. PulseOf(d) = (20000000 * d) \div 100
    BY SMT DEF PulseOf, PERIOD
  <2>2. (20000000 * d) \div 100 = 200000 * d
    BY SMT
  <2> QED BY SMT, <2>1, <2>2
<1>4. /\ DUTY_MIN \in 5..10 /\ DUTY_MAX \in 5..10
      /\ \A d \in DUTY_MIN..DUTY_MAX : d \in 5..10 /\ 200000 * DUTY_MIN <= 200000 * d
                                      /\ 200000 * d <= 200000 * DUTY_MAX
  BY SMT DEF DUTY_MIN, DUTY_MAX
<1>5. ASSUME NEW d \in DUTY_MIN..DUTY_MAX
      PROVE  PulseOf(d) \in PulseOf(DUTY_MIN)..PulseOf(DUTY_MAX)
  BY SMT, <1>3, <1>4
<1> QED BY SMT, <1>1, <1>2, <1>5

(* Nothing is said as long as nothing is returned. *)
LEMMA NotYetDone ==
  ASSUME svAt' # "ready" \/ ~returned'
  PROVE  ToldIsDone'
BY DEF ToldIsDone

LEMMA ServoNextInv == ServoInv /\ [ServoNext]_servoVars => ServoInv'
<1> SUFFICES ASSUME ServoInv, [ServoNext]_servoVars PROVE ServoInv'
  OBVIOUS
<1>0. angle \in 0..255 /\ ServoPlace
  BY DEF ServoInv
<1>1. CASE UNCHANGED servoVars
  BY <1>1 DEF ServoInv, ServoPlace, ToldIsDone, servoVars, channel
<1>2. CASE init
  <2>1. angle' = angle /\ ServoPlace'
    <3>1. CASE Export
      <4>1. /\ angle' = angle /\ ~returned'
            /\ (svAt' = "period" /\ exported') \/ svAt' = "failed"
        BY <3>1 DEF Export
      <4> QED BY <4>1 DEF ServoPlace
    <3>2. CASE SetPeriod
      <4>1. /\ svAt = "period" /\ svAt' \in {"enable", "failed"}
            /\ UNCHANGED <<angle, returned, exported>>
        BY <3>2 DEF SetPeriod, Write, GoTo, GiveUp, channel
      <4> QED BY <1>0, <4>1 DEF ServoPlace
    <3>3. CASE FirstEnable
      <4>1. /\ svAt = "enable" /\ svAt' \in {"first", "failed"}
            /\ UNCHANGED <<angle, returned, exported>>
        BY <3>3 DEF FirstEnable, Write, SetEnable, GoTo, GiveUp, channel
      <4> QED BY <1>0, <4>1 DEF ServoPlace
    <3>4. CASE FirstDuty
      <4>1. /\ svAt = "first" /\ svAt' \in {"ready", "failed"}
            /\ UNCHANGED <<angle, returned, exported>>
        BY <3>4 DEF FirstDuty, Write, SetDuty, GoTo, GiveUp, channel
      <4> QED BY <1>0, <4>1 DEF ServoPlace
    <3> QED BY <1>2, <3>1, <3>2, <3>3, <3>4 DEF init
  <2>2. ~returned'
    BY <1>0, <1>2 DEF init, Export, SetPeriod, FirstEnable, FirstDuty, Write, GoTo,
                      GiveUp, ServoPlace
  <2> QED BY <1>0, <2>1, <2>2, NotYetDone DEF ServoInv
<1>3. CASE Wake
  <2>1. /\ svAt = "wake" /\ angle' = angle /\ exported' = exported
        /\ \/ svAt' = "move" /\ enabled' /\ returned' = returned
           \/ svAt' = "ready" /\ ~returned'
    BY <1>3 DEF Wake, Write, SetEnable, GoTo, Return, channel
  <2>2. ServoPlace' /\ ~returned'
    BY <1>0, <2>1 DEF ServoPlace
  <2> QED BY <1>0, <2>1, <2>2, NotYetDone DEF ServoInv
<1>4. CASE Release
  <2>1. angle' = angle /\ angle = 0 /\ ServoPlace' /\ (enabled' => unheeded')
    BY <1>0, <1>4 DEF Release, Write, SetEnable, Return, channel, ServoPlace
  <2> QED BY <1>0, <2>1 DEF ServoInv, ToldIsDone
<1>5. CASE Move
  <2> DEFINE a == IF angle > 180 THEN 180 ELSE angle
  <2>1. a \in 1..180 /\ (angle >= 180 => a = 180) /\ angle # 0 /\ angle' = angle
    BY <1>0, <1>5 DEF Move
  <2> HIDE DEF a
  <2>2. CASE SetDuty(angleToDutyCycle(a)) /\ Return(TRUE)
    <3>1. /\ pulse' \in PulseOf(DUTY_MIN)..PulseOf(DUTY_MAX)
          /\ angle >= 180 => pulse' = PulseOf(DUTY_MAX)
      BY <2>1, <2>2, PulsesOfAngles DEF SetDuty
    <3>2. exported' /\ enabled' /\ ServoPlace'
      BY <1>0, <1>5, <2>2 DEF Move, SetDuty, Return, ServoPlace
    <3> QED BY <1>0, <2>1, <3>1, <3>2 DEF ServoInv, ToldIsDone
  <2>3. CASE Return(FALSE) /\ UNCHANGED channel
    <3>1. ~returned' /\ ServoPlace'
      BY <1>0, <1>5, <2>3 DEF Move, Return, channel, ServoPlace
    <3> QED BY <1>0, <2>1, <3>1, NotYetDone DEF ServoInv
  <2>4. (SetDuty(angleToDutyCycle(a)) /\ Return(TRUE)) \/ (Return(FALSE) /\ UNCHANGED channel)
    BY <1>5 DEF Move, Write, a
  <2> QED BY <2>2, <2>3, <2>4
<1>6. CASE Destroy \/ Die
  <2>1. angle' = angle /\ ServoPlace' /\ svAt' = "down"
    BY <1>0, <1>6 DEF Destroy, Die, GoTo, ServoPlace
  <2> QED BY <1>0, <2>1, NotYetDone DEF ServoInv
<1>7. ASSUME NEW a \in Angles, set_value(a) PROVE ServoInv'
  <2>1. a \in 0..255
    BY ServoAssumption
  <2>2. angle' = a /\ ServoPlace' /\ ~returned'
    BY <1>0, <1>7 DEF set_value, channel, ServoPlace
  <2> QED BY <2>1, <2>2, NotYetDone DEF ServoInv
<1> QED BY <1>1, <1>2, <1>3, <1>4, <1>5, <1>6, <1>7 DEF ServoNext

(* When set_value() has returned true, the channel does what it was told,   *)
(* for any writes that fail and any deaths of the core.                     *)
THEOREM ServoIsAsTold == ServoSpec => []ToldIsDone
<1>1. ServoInit => ServoInv
  <2> SUFFICES ASSUME ServoInit PROVE ServoInv
    OBVIOUS
  <2>1. ServoPlace
    BY DEF ServoInit, ServoPlace
  <2>2. ToldIsDone
    BY DEF ServoInit, ToldIsDone
  <2> QED BY <2>1, <2>2 DEF ServoInit, ServoInv
<1>2. ServoInv => ToldIsDone
  BY DEF ServoInv
<1> QED BY <1>1, <1>2, ServoNextInv, PTL DEF ServoSpec

-----------------------------------------------------------------------------
(* The fingerprint sensor.  While the driver waits, the sensor works on the *)
(* command, or is sending its answer, or has sent it; then, and not before, *)
(* a second half has come in.  An answer under way tells how things are     *)
(* with the sensor, which does nothing more until the next command.         *)

Tells(a) ==
  /\ a.serial = serial
  /\ a.status = "success" => call.kind # "read"
  /\ a.status = "match" => call.kind = "read"
  /\ call.kind = "addUser" /\ a.status = "success" =>
       enrolled = command /\ (enrolled = 3 => call.slot \in templates)
  /\ call.kind = "deleteUser" /\ a.status = "success" => call.slot \notin templates
  /\ call.kind = "read" /\ a.status = "match" => a.slot \in templates

Firsts  == {h \in Halves : h.half = 1 /\ Tells(h.of)}
Seconds == {h \in Halves : h.half = 2 /\ Tells(h.of)}
Noise   == {Disturbance}

(* All that has come in for the command is of S. *)
HasCome(S) == fpGot \in Seq(S) /\ fpIn \in Seq(S)

Silent == doing = 0 /\ fpOut = << >>

Working == doing # 0 /\ doing = serial /\ fpOut = << >> /\ HasCome(Noise)
Sending ==
  /\ doing = 0 /\ HasCome(Noise \union Firsts)
  /\ \E h \in Seconds : fpOut = <<h>> \/ \E f \in Firsts : fpOut = <<f, h>>
Sent == Silent /\ HasCome(Noise \union Firsts \union Seconds)

FingerprintInv ==
  /\ FingerprintTypeOK
  /\ fpAt \in {"idle", "flush", "send"} => Silent
  /\ fpAt = "send" => fpIn \in Seq(Noise)
  /\ fpAt = "await" => Working \/ Sending \/ Sent
  /\ fpAt = "over" /\ status \in {"success", "match"} =>
       Silent /\ ResultTellsTemplates /\ (status = "match" <=> call.kind = "read")

(* The first half of an answer, the second, and a disturbance are told from *)
(* each other by what they hold.                                            *)
LEMMA HalvesApart ==
  /\ \A h \in Noise : h.half = 0
  /\ \A h \in Firsts : h.half = 1 /\ h \in Halves /\ Tells(h.of)
  /\ \A h \in Seconds : h.half = 2 /\ h \in Halves /\ Tells(h.of)
  /\ \A h \in Halves : h.half \in {1, 2} /\ h.of \in Answers
  /\ Noise \subseteq Halves \union Noise /\ Firsts \subseteq Halves /\ Seconds \subseteq Halves
BY DEF Noise, Firsts, Seconds, Disturbance, Halves

(* What an answer tells stays true while neither driver nor sensor go on.   *)
LEMMA TellsStill ==
  ASSUME UNCHANGED <<serial, call, command, enrolled, templates>>
  PROVE  Firsts' = Firsts /\ Seconds' = Seconds /\ Noise' = Noise
BY DEF Firsts, Seconds, Noise, Tells

LEMMA ReceivedOf ==
  ASSUME NEW S, HasCome(S), Len(fpGot) < 2, Receive
  PROVE  /\ fpGot' \in Seq(S) /\ fpIn' \in Seq(S)
         /\ Len(fpGot') <= 2
<1>1. /\ fpGot \in Seq(S) /\ fpIn \in Seq(S) /\ Len(fpGot) \in Nat
      /\ Missing \in Nat /\ Len(fpGot) + Missing = 2
  BY LenProperties DEF HasCome, Missing
<1>2. /\ Taken(fpIn, Missing) \in Seq(S) /\ Left(fpIn, Missing) \in Seq(S)
      /\ Len(Taken(fpIn, Missing)) \in 0..Missing
  BY <1>1, TakenTyped, LeftOfTyped
<1> QED BY <1>1, <1>2, ConcatProperties DEF Receive

LEMMA ReceiveKeeps == FingerprintInv /\ Receive => FingerprintInv'
<1> SUFFICES ASSUME FingerprintInv, Receive PROVE FingerprintInv'
  OBVIOUS
<1>1. /\ fpAt = "await" /\ fpAt' = "await" /\ Len(fpGot) < 2
      /\ UNCHANGED <<call, command, status, serial, doing, enrolled, templates, fpOut, fpNoise>>
  BY DEF Receive, sensorVars
<1>2. Firsts' = Firsts /\ Seconds' = Seconds /\ Noise' = Noise
  BY <1>1, TellsStill
<1>3. FingerprintTypeOK'
  <2>1. HasCome(Halves \union {Disturbance})
    BY DEF FingerprintInv, FingerprintTypeOK, HasCome
  <2>2. /\ fpGot' \in Seq(Halves \union {Disturbance}) /\ Len(fpGot') <= 2
        /\ fpIn' \in Seq(Halves \union {Disturbance})
    BY <1>1, <2>1, ReceivedOf
  <2> QED BY <1>1, <2>2 DEF FingerprintInv, FingerprintTypeOK
<1>4. CASE Working
  <2>1. fpGot' \in Seq(Noise) /\ fpIn' \in Seq(Noise)
    BY <1>1, <1>4, ReceivedOf DEF Working
  <2>2. Working'
    BY <1>1, <1>2, <1>4, <2>1 DEF Working, HasCome
  <2> QED BY <1>1, <1>3, <2>2 DEF FingerprintInv
<1>5. CASE Sending
  <2>1. fpGot' \in Seq(Noise \union Firsts) /\ fpIn' \in Seq(Noise \union Firsts)
    BY <1>1, <1>5, ReceivedOf DEF Sending
  <2>2. Sending'
    BY <1>1, <1>2, <1>5, <2>1 DEF Sending, HasCome
  <2> QED BY <1>1, <1>3, <2>2 DEF FingerprintInv
<1>6. CASE Sent
  <2>1. /\ fpGot' \in Seq(Noise \union Firsts \union Seconds)
        /\ fpIn' \in Seq(Noise \union Firsts \union Seconds)
    BY <1>1, <1>6, ReceivedOf DEF Sent
  <2>2. Sent'
    BY <1>1, <1>2, <1>6, <2>1 DEF Sent, Silent, HasCome
  <2> QED BY <1>1, <1>3, <2>2 DEF FingerprintInv
<1> QED BY <1>1, <1>4, <1>5, <1>6 DEF FingerprintInv

(* A whole answer is the sensor's to the last command, and all of it. *)
LEMMA WholeAnswer ==
  ASSUME FingerprintInv, fpAt = "await", Len(fpGot) = 2, Whole
  PROVE  Silent /\ fpGot[1].of \in Answers /\ Tells(fpGot[1].of)
<1>1. fpGot[1].half = 1 /\ fpGot[2].half = 2
  BY DEF Whole
<1>2. ~Working
  <2> SUFFICES ASSUME Working PROVE FALSE
    OBVIOUS
  <2>1. fpGot[1] \in Noise
    BY Typed DEF Working, HasCome
  <2> QED BY <1>1, <2>1, HalvesApart
<1>3. ~Sending
  <2> SUFFICES ASSUME Sending PROVE FALSE
    OBVIOUS
  <2>1. fpGot[2] \in Noise \union Firsts
    BY Typed DEF Sending, HasCome
  <2> QED BY <1>1, <2>1, HalvesApart
<1>4. Sent
  BY <1>2, <1>3 DEF FingerprintInv
<1>5. fpGot[1] \in Noise \union Firsts \union Seconds
  <2>1. fpGot \in Seq(Noise \union Firsts \union Seconds) /\ 1 \in 1..Len(fpGot)
    BY <1>4 DEF Sent, HasCome
  <2> QED BY <2>1, Typed
<1>6. fpGot[1] \in Firsts
  BY <1>1, <1>5, HalvesApart
<1> QED BY <1>4, <1>6, HalvesApart DEF Sent

LEMMA CompleteKeeps == FingerprintInv /\ Complete => FingerprintInv'
<1> SUFFICES ASSUME FingerprintInv, Complete PROVE FingerprintInv'
  OBVIOUS
<1>1. /\ fpAt = "await" /\ Len(fpGot) = 2
      /\ UNCHANGED <<call, fpGot, serial, doing, enrolled, templates, fpOut, fpIn, fpNoise>>
      /\ Returned(IF Whole THEN fpGot[1].of.status ELSE "broken")
  BY DEF Complete, sensorVars
<1>2. command \in 1..3
  BY DEF FingerprintInv, FingerprintTypeOK
<1>3. CASE ~Whole
  <2>1. fpAt' = "over" /\ status' = "broken" /\ command' = command
    BY <1>1, <1>3 DEF Returned
  <2>2. FingerprintTypeOK'
    BY <1>1, <2>1 DEF FingerprintInv, FingerprintTypeOK, Statuses
  <2> QED BY <2>1, <2>2 DEF FingerprintInv
<1>4. CASE Whole
  <2> DEFINE a == fpGot[1].of
  <2>1. Silent /\ a \in Answers /\ Tells(a)
    BY <1>1, <1>4, WholeAnswer
  <2>2. a.status \in Statuses /\ status' = a.status
    BY <1>1, <1>4, <2>1 DEF Returned, Answers
  <2>3. Silent'
    BY <1>1, <2>1 DEF Silent
  <2>4. /\ command' \in 1..3
        /\ fpAt' = "flush" \/ (fpAt' = "over" /\ command' = command)
        /\ call.kind = "addUser" /\ a.status = "success" /\ fpAt' = "over" => command = 3
    BY <1>1, <1>2, <1>4 DEF Returned
  <2>5. FingerprintTypeOK'
    BY <1>1, <2>2, <2>4 DEF FingerprintInv, FingerprintTypeOK
  <2>6. fpAt' = "over" => ResultTellsTemplates'
    BY <1>1, <2>1, <2>2, <2>4 DEF ResultTellsTemplates, Tells
  <2>7. status' \in {"success", "match"} => (status' = "match" <=> call'.kind = "read")
    BY <1>1, <2>1, <2>2 DEF Tells
  <2> QED BY <2>3, <2>4, <2>5, <2>6, <2>7 DEF FingerprintInv
<1> QED BY <1>3, <1>4

(* The sensor answers the command it works on, of which nothing has come in *)
(* yet, and is then done with it.                                           *)
LEMMA AnsweredKeeps ==
  ASSUME FingerprintInv, doing # 0, NEW s \in Statuses, NEW slot \in Slots,
         Answer(s, slot), enrolled' \in 0..3, templates' \subseteq Slots,
         NEW a, a = [serial |-> doing, status |-> s, slot |-> slot],
         a.serial = serial => Tells(a)'
  PROVE  FingerprintInv'
<1> DEFINE h1 == [half |-> 1, of |-> a]
           h2 == [half |-> 2, of |-> a]
<1>1. /\ doing' = 0 /\ fpOut' = fpOut \o <<h1, h2>>
      /\ UNCHANGED <<fpAt, call, command, fpGot, status, serial, fpIn, fpNoise>>
  BY DEF Answer, driverVars
<1>2. h1 \in Halves /\ h2 \in Halves /\ fpOut \in Seq(Halves)
  <2>1. doing \in 1..MaxCommands
    <3>1. doing \in 0..serial /\ serial \in 0..MaxCommands /\ MaxCommands \in Nat
      BY FingerprintAssumption DEF FingerprintInv, FingerprintTypeOK
    <3> QED BY <3>1
  <2>2. a \in Answers
    BY <2>1 DEF Answers
  <2> QED BY <2>2 DEF Halves, FingerprintInv, FingerprintTypeOK
<1>3. FingerprintTypeOK'
  <2>1. fpOut' \in Seq(Halves)
    BY <1>1, <1>2, IsASeq, ConcatProperties
  <2>2. doing' \in 0..serial'
    BY <1>1 DEF FingerprintInv, FingerprintTypeOK
  <2> QED BY <1>1, <2>1, <2>2 DEF FingerprintInv, FingerprintTypeOK
<1>4. fpAt \in {"await", "over"}
  BY DEF FingerprintInv, FingerprintTypeOK, Silent
<1>5. CASE fpAt = "over"
  BY <1>1, <1>3, <1>5 DEF FingerprintInv, Silent
<1>6. CASE fpAt = "await"
  <2>1. Working
    BY <1>6 DEF FingerprintInv, Sending, Sent, Silent
  <2>2. a.serial = serial /\ h1 \in Firsts' /\ h2 \in Seconds'
    BY <1>2, <2>1 DEF Working, Firsts, Seconds, Halves, Answers
  <2>3. fpOut' = <<h1, h2>>
    BY <1>1, <2>1, ConcatEmptySeq, IsASeq DEF Working
  <2>4. HasCome(Noise \union Firsts)'
    <3>1. Noise' = Noise /\ Noise \subseteq Noise \union Firsts'
      BY DEF Noise
    <3>2. fpGot' \in Seq(Noise) /\ fpIn' \in Seq(Noise)
      BY <1>1, <2>1 DEF Working, HasCome
    <3> QED BY <3>1, <3>2, Widened DEF HasCome
  <2>5. Sending'
    BY <1>1, <2>2, <2>3, <2>4 DEF Sending
  <2> QED BY <1>1, <1>3, <1>6, <2>5 DEF FingerprintInv
<1> QED BY <1>4, <1>5, <1>6

LEMMA SensorAnswersKeeps ==
  FingerprintInv /\ (Refuse \/ AcceptAdd \/ Delete \/ \E slot \in Slots : MatchFinger(slot))
    => FingerprintInv'
<1> SUFFICES ASSUME FingerprintInv,
                    Refuse \/ AcceptAdd \/ Delete \/ \E slot \in Slots : MatchFinger(slot)
             PROVE  FingerprintInv'
  OBVIOUS
<1>1. /\ call.slot \in Slots /\ enrolled \in 0..3 /\ templates \subseteq Slots
      /\ command \in 1..3 /\ Statuses = {"success", "match", "refused", "broken", "timeout"}
  BY DEF FingerprintInv, FingerprintTypeOK, Calls, Statuses
<1>2. CASE Refuse
  <2>1. PICK a : a = [serial |-> doing, status |-> "refused", slot |-> call.slot]
    OBVIOUS
  <2>2. a.serial = serial => Tells(a)'
    BY <1>2, <2>1 DEF Refuse, Answer, driverVars, Tells
  <2>3. doing # 0 /\ Answer("refused", call.slot) /\ UNCHANGED <<enrolled, templates>>
    BY <1>2 DEF Refuse
  <2> QED BY <1>1, <2>1, <2>2, <2>3, AnsweredKeeps
<1>3. CASE AcceptAdd
  <2>1. PICK a : a = [serial |-> doing, status |-> "success", slot |-> call.slot]
    OBVIOUS
  <2>2. /\ doing # 0 /\ Answer("success", call.slot) /\ call.kind = "addUser"
        /\ enrolled' = enrolled + 1 /\ command = enrolled + 1
        /\ templates' = IF enrolled' = 3 THEN templates \union {call.slot} ELSE templates
    BY <1>3 DEF AcceptAdd
  <2>3. a.serial = serial => Tells(a)'
    BY <1>1, <2>1, <2>2 DEF Answer, driverVars, Tells
  <2>4. enrolled' \in 0..3 /\ templates' \subseteq Slots
    BY <1>1, <2>2
  <2> QED BY <1>1, <2>1, <2>2, <2>3, <2>4, AnsweredKeeps
<1>4. CASE Delete
  <2>1. PICK a : a = [serial |-> doing, status |-> "success", slot |-> call.slot]
    OBVIOUS
  <2>2. /\ doing # 0 /\ Answer("success", call.slot) /\ call.kind = "deleteUser"
        /\ enrolled' = enrolled /\ templates' = templates \ {call.slot}
    BY <1>4 DEF Delete
  <2>3. a.serial = serial => Tells(a)'
    BY <2>1, <2>2 DEF Answer, driverVars, Tells
  <2>4. enrolled' \in 0..3 /\ templates' \subseteq Slots
    BY <1>1, <2>2
  <2> QED BY <1>1, <2>1, <2>2, <2>3, <2>4, AnsweredKeeps
<1>5. ASSUME NEW slot \in Slots, MatchFinger(slot) PROVE FingerprintInv'
  <2>1. PICK a : a = [serial |-> doing, status |-> "match", slot |-> slot]
    OBVIOUS
  <2>2. /\ doing # 0 /\ Answer("match", slot) /\ slot \in templates
        /\ UNCHANGED <<enrolled, templates>>
    BY <1>5 DEF MatchFinger
  <2>3. a.serial = serial => Tells(a)'
    BY <1>5, <2>1, <2>2 DEF MatchFinger, Answer, driverVars, Tells
  <2> QED BY <1>1, <2>1, <2>2, <2>3, AnsweredKeeps
<1> QED BY <1>2, <1>3, <1>4, <1>5

(* What comes in is a half that the sensor sent, or noise. *)
LEMMA CameIn ==
  ASSUME NEW S, fpIn \in Seq(S), NEW h \in S, fpIn' = Append(fpIn, h)
  PROVE  fpIn' \in Seq(S)
BY AppendTyped

LEMMA TransmitKeeps == FingerprintInv /\ Transmit => FingerprintInv'
<1> SUFFICES ASSUME FingerprintInv, Transmit PROVE FingerprintInv'
  OBVIOUS
<1>1. /\ fpOut # << >> /\ fpOut' = Tail(fpOut) /\ fpIn' = Append(fpIn, Head(fpOut))
      /\ UNCHANGED <<fpAt, call, command, fpGot, status, serial, doing, enrolled, templates,
                     fpNoise>>
  BY DEF Transmit, driverVars
<1>2. Firsts' = Firsts /\ Seconds' = Seconds /\ Noise' = Noise
  BY <1>1, TellsStill
<1>3. FingerprintTypeOK'
  <2>1. fpOut' \in Seq(Halves) /\ Head(fpOut) \in Halves
    BY <1>1, TailTyped DEF FingerprintInv, FingerprintTypeOK
  <2>2. fpIn' \in Seq(Halves \union {Disturbance})
    BY <1>1, <2>1, CameIn DEF FingerprintInv, FingerprintTypeOK
  <2> QED BY <1>1, <2>1, <2>2 DEF FingerprintInv, FingerprintTypeOK
<1>4. fpAt \in {"await", "over"} /\ ~Silent
  BY <1>1 DEF FingerprintInv, FingerprintTypeOK, Silent
<1>5. CASE fpAt = "over"
  BY <1>1, <1>3, <1>4, <1>5 DEF FingerprintInv
<1>6. CASE fpAt = "await"
  <2>1. Sending
    BY <1>1, <1>4, <1>6 DEF FingerprintInv, Working, Sent
  <2>2. PICK h \in Seconds : fpOut = <<h>> \/ \E f \in Firsts : fpOut = <<f, h>>
    BY <2>1 DEF Sending
  <2>3. CASE fpOut = <<h>>
    <3>1. Head(fpOut) = h /\ fpOut' = << >>
      BY <1>1, <2>3
    <3>2. /\ fpGot \in Seq(Noise \union Firsts \union Seconds)
          /\ fpIn \in Seq(Noise \union Firsts \union Seconds)
      BY <2>1, Widened DEF Sending, HasCome
    <3>3. fpIn' \in Seq(Noise \union Firsts \union Seconds)
      BY <1>1, <3>1, <3>2, CameIn
    <3>4. Sent'
      BY <1>1, <1>2, <2>1, <3>1, <3>2, <3>3 DEF Sending, Sent, Silent, HasCome
    <3> QED BY <1>1, <1>3, <1>6, <3>4 DEF FingerprintInv
  <2>4. ASSUME NEW f \in Firsts, fpOut = <<f, h>> PROVE FingerprintInv'
    <3>1. Head(fpOut) = f /\ fpOut' = <<h>>
      BY <1>1, <2>4
    <3>2. fpIn' \in Seq(Noise \union Firsts)
      BY <1>1, <2>1, <3>1, CameIn DEF Sending, HasCome
    <3>3. Sending'
      BY <1>1, <1>2, <2>1, <3>1, <3>2 DEF Sending, HasCome
    <3> QED BY <1>1, <1>3, <1>6, <3>3 DEF FingerprintInv
  <2> QED BY <2>2, <2>3, <2>4
<1> QED BY <1>4, <1>5, <1>6

(* Noise comes in: it passes for nothing. *)
LEMMA NoiseKeeps ==
  ASSUME FingerprintInv, fpIn' = Append(fpIn, Disturbance), fpNoise' \in 0..MaxNoise,
         UNCHANGED <<driverVars, sensorVars>>
  PROVE  FingerprintInv'
<1>1. UNCHANGED <<fpAt, call, command, fpGot, status, serial, doing, enrolled, templates, fpOut>>
  BY DEF driverVars, sensorVars
<1>2. Firsts' = Firsts /\ Seconds' = Seconds /\ Noise' = Noise /\ Disturbance \in Noise
  BY <1>1, TellsStill DEF Noise
<1>3. FingerprintTypeOK'
  <2>1. fpIn' \in Seq(Halves \union {Disturbance})
    BY CameIn DEF FingerprintInv, FingerprintTypeOK
  <2> QED BY <1>1, <2>1 DEF FingerprintInv, FingerprintTypeOK
<1>4. \A S : Disturbance \in S /\ HasCome(S) => fpGot' \in Seq(S) /\ fpIn' \in Seq(S)
  BY <1>1, CameIn DEF HasCome
<1>5. fpAt = "send" => fpIn' \in Seq(Noise)
  BY <1>2, CameIn DEF FingerprintInv
<1>6. fpAt = "await" => Working' \/ Sending' \/ Sent'
  <2> SUFFICES ASSUME fpAt = "await" PROVE Working' \/ Sending' \/ Sent'
    OBVIOUS
  <2>1. CASE Working
    <3>1. fpGot' \in Seq(Noise) /\ fpIn' \in Seq(Noise)
      BY <1>2, <1>4, <2>1 DEF Working
    <3> QED BY <1>1, <1>2, <2>1, <3>1 DEF Working, HasCome
  <2>2. CASE Sending
    <3>1. fpGot' \in Seq(Noise \union Firsts) /\ fpIn' \in Seq(Noise \union Firsts)
      BY <1>2, <1>4, <2>2 DEF Sending
    <3> QED BY <1>1, <1>2, <2>2, <3>1 DEF Sending, HasCome
  <2>3. CASE Sent
    <3>1. /\ fpGot' \in Seq(Noise \union Firsts \union Seconds)
          /\ fpIn' \in Seq(Noise \union Firsts \union Seconds)
      BY <1>2, <1>4, <2>3 DEF Sent
    <3> QED BY <1>1, <1>2, <2>3, <3>1 DEF Sent, Silent, HasCome
  <2> QED BY <2>1, <2>2, <2>3 DEF FingerprintInv
<1> QED BY <1>1, <1>2, <1>3, <1>5, <1>6 DEF FingerprintInv, Silent, ResultTellsTemplates

(* Something the sensor sent does not come in: less comes in, no more. *)
LEMMA LossKeeps ==
  ASSUME FingerprintInv, fpOut # << >>, fpOut' = Tail(fpOut), fpNoise' \in 0..MaxNoise,
         UNCHANGED <<driverVars, doing, enrolled, templates, fpIn>>
  PROVE  FingerprintInv'
<1>1. UNCHANGED <<fpAt, call, command, fpGot, status, serial>>
  BY DEF driverVars
<1>2. Firsts' = Firsts /\ Seconds' = Seconds /\ Noise' = Noise
  BY <1>1, TellsStill
<1>3. FingerprintTypeOK'
  <2>1. fpOut' \in Seq(Halves)
    BY TailTyped DEF FingerprintInv, FingerprintTypeOK
  <2> QED BY <1>1, <2>1 DEF FingerprintInv, FingerprintTypeOK
<1>4. fpAt \in {"await", "over"} /\ ~Silent
  BY DEF FingerprintInv, FingerprintTypeOK, Silent
<1>5. CASE fpAt = "over"
  BY <1>1, <1>3, <1>4, <1>5 DEF FingerprintInv
<1>6. CASE fpAt = "await"
  <2>1. Sending
    BY <1>4, <1>6 DEF FingerprintInv, Working, Sent
  <2>2. PICK h \in Seconds : fpOut = <<h>> \/ \E f \in Firsts : fpOut = <<f, h>>
    BY <2>1 DEF Sending
  <2>3. CASE fpOut = <<h>>
    <3>1. fpOut' = << >>
      BY <2>3
    <3>2. /\ fpGot' \in Seq(Noise \union Firsts \union Seconds)
          /\ fpIn' \in Seq(Noise \union Firsts \union Seconds)
      BY <1>1, <2>1, Widened DEF Sending, HasCome
    <3>3. Sent'
      BY <1>1, <1>2, <2>1, <3>1, <3>2 DEF Sending, Sent, Silent, HasCome
    <3> QED BY <1>1, <1>3, <1>6, <3>3 DEF FingerprintInv
  <2>4. ASSUME NEW f \in Firsts, fpOut = <<f, h>> PROVE FingerprintInv'
    <3>1. fpOut' = <<h>>
      BY <2>4
    <3>2. Sending'
      BY <1>1, <1>2, <2>1, <3>1 DEF Sending, HasCome
    <3> QED BY <1>1, <1>3, <1>6, <3>2 DEF FingerprintInv
  <2> QED BY <2>2, <2>3, <2>4
<1> QED BY <1>4, <1>5, <1>6

(* The rest of the driver: nothing is under way before a command is sent.   *)
LEMMA CallKeeps ==
  FingerprintInv /\ ((\E c \in Calls : wakeUp(c)) \/ Flush \/ Send \/ Timeout \/ sleep)
    => FingerprintInv'
<1> SUFFICES ASSUME FingerprintInv,
                    (\E c \in Calls : wakeUp(c)) \/ Flush \/ Send \/ Timeout \/ sleep
             PROVE  FingerprintInv'
  OBVIOUS
<1>0. \A S : << >> \in Seq(S) /\ Len(<< >>) = 0
  BY EmptySeq
<1>1. ASSUME NEW c \in Calls, wakeUp(c) PROVE FingerprintInv'
  BY <1>1 DEF wakeUp, sensorVars, FingerprintInv, FingerprintTypeOK, Silent
<1>2. CASE Flush
  <2>1. fpIn' = << >> /\ fpAt = "flush" /\ fpAt' = "send"
        /\ UNCHANGED <<call, command, fpGot, status, serial, doing, enrolled, templates, fpOut,
                       fpNoise>>
    BY <1>2 DEF Flush, sensorVars
  <2>2. FingerprintTypeOK'
    BY <1>0, <2>1 DEF FingerprintInv, FingerprintTypeOK
  <2>3. Silent' /\ fpIn' \in Seq(Noise) /\ Noise' = Noise
    BY <1>0, <2>1 DEF FingerprintInv, Silent, Noise
  <2> QED BY <2>1, <2>2, <2>3 DEF FingerprintInv
<1>3. CASE Send
  <2>1. /\ fpAt = "send" /\ fpAt' = "await" /\ fpGot' = << >>
        /\ serial < MaxCommands /\ serial' = serial + 1 /\ doing' = serial'
        /\ UNCHANGED <<call, command, status, enrolled, templates, fpOut, fpIn, fpNoise>>
    BY <1>3 DEF Send
  <2>2. serial \in Nat /\ serial' \in 1..MaxCommands
    <3>1. serial \in 0..MaxCommands /\ MaxCommands \in Nat
      BY FingerprintAssumption DEF FingerprintInv, FingerprintTypeOK
    <3> QED BY <2>1, <3>1
  <2>3. serial' \in 0..MaxCommands /\ doing' \in 0..serial' /\ doing' # 0
    BY <2>1, <2>2
  <2>4. FingerprintTypeOK'
    BY <1>0, <2>1, <2>3 DEF FingerprintInv, FingerprintTypeOK
  <2>5. fpOut' = << >> /\ fpGot' \in Seq(Noise') /\ fpIn' \in Seq(Noise')
    BY <1>0, <2>1 DEF FingerprintInv, Silent, Noise
  <2>6. Working'
    BY <2>1, <2>3, <2>5 DEF Working, HasCome
  <2> QED BY <2>1, <2>4, <2>6 DEF FingerprintInv
<1>4. CASE Timeout
  <2>1. /\ fpAt' = "over" /\ status' = "timeout" /\ command' = command
        /\ UNCHANGED <<call, fpGot, serial, doing, enrolled, templates, fpOut, fpIn, fpNoise>>
    BY <1>4 DEF Timeout, Returned, sensorVars
  <2> QED BY <2>1 DEF FingerprintInv, FingerprintTypeOK, Statuses
<1>5. CASE sleep
  <2>1. /\ fpAt' = "idle" /\ doing' = 0 /\ enrolled' = 0 /\ fpOut' = << >>
        /\ UNCHANGED <<call, command, fpGot, status, serial, templates, fpIn, fpNoise>>
    BY <1>5 DEF sleep
  <2>2. 0 \in 0..serial
    BY FingerprintAssumption DEF FingerprintInv, FingerprintTypeOK
  <2>3. FingerprintTypeOK'
    BY <1>0, <2>1, <2>2 DEF FingerprintInv, FingerprintTypeOK
  <2> QED BY <2>1, <2>3 DEF FingerprintInv, Silent
<1> QED BY <1>1, <1>2, <1>3, <1>4, <1>5

LEMMA FingerprintInvHolds == FingerprintSpec => []FingerprintInv
<1>1. FingerprintInit => FingerprintInv
  <2> SUFFICES ASSUME FingerprintInit PROVE FingerprintInv
    OBVIOUS
  <2>1. \A S : << >> \in Seq(S)
    BY EmptySeq
  <2>2. call \in Calls
    <3>1. Slots # {}
      BY FingerprintAssumption
    <3>2. PICK t : t = CHOOSE s \in Slots : TRUE
      OBVIOUS
    <3>3. t \in Slots
      BY <3>1, <3>2
    <3>4. call = [kind |-> "read", slot |-> t]
      BY <3>2 DEF FingerprintInit
    <3> QED BY <3>3, <3>4 DEF Calls
  <2>3. Len(<< >>) = 0 /\ MaxCommands \in Nat /\ MaxNoise \in Nat
    <3>1. Len(<< >>) = 0
      BY EmptySeq
    <3>2. MaxCommands \in Nat /\ MaxNoise \in Nat
      BY FingerprintAssumption
    <3> QED BY <3>1, <3>2
  <2>4. FingerprintTypeOK
    BY <2>1, <2>2, <2>3 DEF FingerprintInit, FingerprintTypeOK, Statuses
  <2> QED BY <2>4 DEF FingerprintInit, FingerprintInv, Silent
<1>2. FingerprintInv /\ [FingerprintNext]_fpVars => FingerprintInv'
  <2> SUFFICES ASSUME FingerprintInv, [FingerprintNext]_fpVars PROVE FingerprintInv'
    OBVIOUS
  <2>1. CASE UNCHANGED fpVars
    <3>1. /\ UNCHANGED <<fpAt, call, command, fpGot, status, serial, doing, enrolled, templates,
                         fpOut, fpIn, fpNoise>>
      BY <2>1 DEF fpVars, driverVars, sensorVars
    <3>2. Firsts' = Firsts /\ Seconds' = Seconds /\ Noise' = Noise
      BY <3>1, TellsStill
    <3> QED BY <3>1, <3>2 DEF FingerprintInv, FingerprintTypeOK, Silent, Working, Sending, Sent,
                              HasCome, ResultTellsTemplates
  <2>2. CASE Disturb
    <3>1. fpNoise' \in 0..MaxNoise /\ UNCHANGED <<driverVars, doing, enrolled, templates>>
      <4>1. fpNoise \in 0..MaxNoise /\ MaxNoise \in Nat
        BY FingerprintAssumption DEF FingerprintInv, FingerprintTypeOK
      <4> QED BY <2>2, <4>1 DEF Disturb
    <3>2. CASE fpIn' = Append(fpIn, Disturbance) /\ UNCHANGED fpOut
      BY <3>1, <3>2, NoiseKeeps DEF sensorVars
    <3>3. CASE fpOut # << >> /\ fpOut' = Tail(fpOut) /\ UNCHANGED fpIn
      BY <3>1, <3>3, LossKeeps
    <3> QED BY <2>2, <3>2, <3>3 DEF Disturb
  <2> QED BY <2>1, <2>2, CallKeeps, ReceiveKeeps, CompleteKeeps, TransmitKeeps,
             SensorAnswersKeeps
          DEF FingerprintNext, executeCommand, Sensor
<1> QED BY <1>1, <1>2, PTL DEF FingerprintSpec

(* The driver of the fingerprint sensor is well typed. *)
THEOREM FingerprintTypeCorrect == FingerprintSpec => []FingerprintTypeOK
<1>1. FingerprintInv => FingerprintTypeOK
  BY DEF FingerprintInv
<1> QED BY <1>1, FingerprintInvHolds, PTL

(* A whole answer is the answer to the command last sent, for any noise and *)
(* any number of commands that are given up.                                *)
THEOREM AnswersAreOfTheCommand == FingerprintSpec => []AnswerIsOfThisCommand
<1>1. FingerprintInv => AnswerIsOfThisCommand
  BY WholeAnswer DEF AnswerIsOfThisCommand, Tells
<1> QED BY <1>1, FingerprintInvHolds, PTL

(* What read(), addUser() and deleteUser() return is true of the sensor.    *)
THEOREM ResultsAreTrue == FingerprintSpec => []ResultTellsTemplates
<1>1. FingerprintInv => ResultTellsTemplates
  BY DEF FingerprintInv, ResultTellsTemplates
<1> QED BY <1>1, FingerprintInvHolds, PTL

-----------------------------------------------------------------------------
(* The driver and the sensor implement FingerStore.  The phase is that of   *)
(* the driver; what the sensor does maps to the effect of the call, because *)
(* it works on nothing outside a call, or to no step at all.                *)

LEMMA PhaseTyped ==
  ASSUME FingerprintInv
  PROVE  /\ Phase = "idle" <=> fpAt = "idle"
         /\ Phase = "open" <=> fpAt \notin {"idle", "over"}
         /\ Phase = "failed" <=> fpAt = "over" /\ status \notin {"success", "match"}
         /\ Phase = "success" <=> fpAt = "over" /\ status = "success"
         /\ Phase = "match" <=> fpAt = "over" /\ status = "match"
BY DEF Phase, FingerprintInv, FingerprintTypeOK

(* A call that comes to its end. *)
LEMMA ReturnMaps ==
  ASSUME FingerprintInv, FingerprintInv', NEW s, Returned(s), fpAt = "await",
         UNCHANGED <<call, fpGot, templates>>
  PROVE  [Store!Next]_Store!storeVars
<1>1. Phase = "open" /\ Found = call.slot
  BY PhaseTyped DEF Found
<1>2. CASE fpAt' = "flush"
  <2>1. Phase' = "open" /\ Found' = call'.slot
    BY <1>2, PhaseTyped DEF Phase, Found
  <2> QED BY <1>1, <2>1 DEF Store!storeVars
<1>3. CASE fpAt' = "over" /\ status' = "success"
  <2>1. Phase' = "success" /\ Found' = call'.slot
    BY <1>3 DEF Phase, Found
  <2>2. call.kind # "read" /\ ResultTellsTemplates'
    BY <1>3 DEF FingerprintInv
  <2>3. templates = Store!Done
    BY <1>3, <2>2 DEF ResultTellsTemplates, Store!Done
  <2> QED BY <1>1, <2>1, <2>2, <2>3 DEF Store!Next, Store!Succeed
<1>4. CASE fpAt' = "over" /\ status' = "match"
  <2>1. Phase' = "match" /\ Found' = fpGot[1].of.slot
    BY <1>4 DEF Phase, Found
  <2>2. call.kind = "read" /\ ResultTellsTemplates'
    BY <1>4 DEF FingerprintInv
  <2>3. Found' \in templates /\ Found' \in Slots
    BY <1>4, <2>1, <2>2 DEF ResultTellsTemplates, FingerprintInv, FingerprintTypeOK
  <2>4. Store!MatchSlot(Found')
    BY <1>1, <2>1, <2>2, <2>3 DEF Store!MatchSlot
  <2> QED BY <2>3, <2>4 DEF Store!Next
<1>5. CASE fpAt' = "over" /\ status' \notin {"success", "match"}
  <2>1. Phase' = "failed" /\ Found' = call'.slot
    BY <1>5 DEF Phase, Found
  <2> QED BY <1>1, <2>1 DEF Store!Next, Store!Fail
<1>6. fpAt' \in {"flush", "over"}
  BY DEF Returned
<1> QED BY <1>2, <1>3, <1>4, <1>5, <1>6

(* The sensor acts on a call that is open or was given up. *)
LEMMA EffectMaps ==
  ASSUME FingerprintInv, AcceptAdd \/ Delete
  PROVE  [Store!Next]_Store!storeVars
<1>1. doing # 0 /\ UNCHANGED <<fpAt, call, status, fpGot>>
  BY DEF AcceptAdd, Delete, Answer, driverVars
<1>2. Phase \in {"open", "failed"}
  BY <1>1, PhaseTyped DEF FingerprintInv, FingerprintTypeOK, Silent
<1>3. Phase' = Phase /\ Found' = Found
  BY <1>1 DEF Phase, Found
<1>4. templates' = templates \/ templates' = Store!Done
  BY DEF AcceptAdd, Delete, Store!Done
<1>5. CASE templates' = templates
  BY <1>1, <1>3, <1>5 DEF Store!storeVars
<1>6. CASE templates' = Store!Done
  BY <1>1, <1>2, <1>3, <1>6 DEF Store!Next, Store!TakeEffect
<1> QED BY <1>4, <1>5, <1>6

(* Whatever else happens leaves the abstract state alone. *)
LEMMA StutterMaps ==
  ASSUME FingerprintInv, UNCHANGED <<fpAt, call, status, templates>>,
         UNCHANGED fpGot \/ fpAt # "over"
  PROVE  [Store!Next]_Store!storeVars
<1>1. Phase' = Phase
  BY DEF Phase
<1>2. Found' = Found
  BY <1>1, PhaseTyped DEF Found
<1> QED BY <1>1, <1>2 DEF Store!storeVars

LEMMA FingerprintMaps ==
  FingerprintInv /\ FingerprintInv' /\ [FingerprintNext]_fpVars
    => [Store!Next]_Store!storeVars
<1> SUFFICES ASSUME FingerprintInv, FingerprintInv', [FingerprintNext]_fpVars
             PROVE  [Store!Next]_Store!storeVars
  OBVIOUS
<1>1. ASSUME NEW c \in Calls, wakeUp(c) PROVE [Store!Next]_Store!storeVars
  <2>1. /\ Phase = "idle" /\ Phase' = "open" /\ Found' = c.slot
        /\ call' = c /\ templates' = templates
    BY <1>1 DEF wakeUp, sensorVars, Phase, Found
  <2>2. c \in Store!Calls
    BY DEF Calls, Store!Calls
  <2> QED BY <2>1, <2>2 DEF Store!Next, Store!Begin
<1>2. CASE Flush \/ Send
  <2>1. /\ UNCHANGED <<call, status, templates>>
        /\ fpAt \notin {"idle", "over"} /\ fpAt' \notin {"idle", "over"}
    BY <1>2 DEF Flush, Send, sensorVars
  <2>2. Phase = "open" /\ Phase' = "open"
    BY <2>1 DEF Phase
  <2>3. Found' = Found
    BY <2>1, <2>2 DEF Found
  <2> QED BY <2>1, <2>2, <2>3 DEF Store!storeVars
<1>3. CASE Receive
  BY <1>3, StutterMaps DEF Receive, sensorVars
<1>4. CASE Complete \/ Timeout
  <2>1. /\ fpAt = "await" /\ UNCHANGED <<call, fpGot, templates>>
        /\ \E s : Returned(s)
    BY <1>4 DEF Complete, Timeout, sensorVars
  <2> QED BY <2>1, ReturnMaps
<1>5. CASE sleep
  <2>1. /\ fpAt = "over" /\ fpAt' = "idle" /\ UNCHANGED <<call, templates>>
    BY <1>5 DEF sleep
  <2>2. Phase \in {"success", "match", "failed"} /\ Phase' = "idle" /\ Found' = call.slot
    BY <2>1 DEF Phase, Found
  <2> QED BY <2>1, <2>2 DEF Store!Next, Store!End
<1>6. CASE Sensor \/ Disturb
  <2>1. CASE AcceptAdd \/ Delete
    BY <2>1, EffectMaps
  <2>2. CASE Refuse \/ Transmit \/ Disturb \/ \E slot \in Slots : MatchFinger(slot)
    BY <2>2, StutterMaps
       DEF Refuse, Transmit, Disturb, MatchFinger, Answer, driverVars
  <2> QED BY <1>6, <2>1, <2>2 DEF Sensor
<1>7. CASE UNCHANGED fpVars
  BY <1>7, StutterMaps DEF fpVars, driverVars, sensorVars
<1> QED BY <1>1, <1>2, <1>3, <1>4, <1>5, <1>6, <1>7 DEF FingerprintNext, executeCommand

(* Seen from outside, a call of the driver is one step that is done or not: *)
(* no answer, noise or time-out lets a command act outside its call, and    *)
(* success means done.  So VaultAccess may model it as one step.            *)
THEOREM FingerprintImplementsStore == FingerprintSpec => ImplementsFingerStore
<1>1. FingerprintInit => Store!Init
  <2> SUFFICES ASSUME FingerprintInit PROVE Store!Init
    OBVIOUS
  <2>1. (CHOOSE s \in Slots : TRUE) \in Slots
    BY FingerprintAssumption
  <2>2. call \in Store!Calls /\ Phase = "idle" /\ Found = call.slot
    BY <2>1 DEF FingerprintInit, Phase, Found, Store!Calls
  <2> QED BY <2>2 DEF FingerprintInit, Store!Init
<1> QED BY <1>1, FingerprintInvHolds, FingerprintMaps, PTL
        DEF FingerprintSpec, Store!Spec, ImplementsFingerStore

-----------------------------------------------------------------------------
(* The tag reader.  Once both flushes are done all that is in the port, or  *)
(* on its way, is of this scan; before the second, at most as much as it    *)
(* discards is not, and the module is silent.                               *)

(* Symbols that belong to scan n, or to none. *)
OfScan(n) == {s \in Symbols : s.of.tag # "phantom" => s.of.scan = n}

(* Symbols that the module sent, or the first n glitches. *)
SoFar(n) == {s \in Symbols : s.of.tag = "phantom" => s.of.scan \in 1..n}

(* What the list may hold. *)
Listed ==
  {f \in Frames \union Phantoms :
     /\ f.tag \in Tags \/ (f.tag = "phantom" /\ f.scan \in 1..glitches)
     /\ f.tag # "phantom" => f.scan = scan}

(* All on the line and in the driver's buffer is of S. *)
LineOf(S) == rawBuffer \in Seq(S) /\ trOut \in Seq(S) /\ trIn \in Seq(S)

(* What a frame of the scan is made of. *)
SentNow(S) == \A t \in Tags \union {"reply"} : FrameOf([tag |-> t, scan |-> scan]) \in Seq(S)

FlushedOnce ==
  \A i \in 1..Len(trIn) : i > FlushMax => trIn[i] \in OfScan(scan)

TagReaderInv ==
  /\ TagReaderTypeOK
  /\ trAt # "off" => scan # 0
  /\ module = "inventory" => trAt = "scan"
  /\ rawBuffer # << >> => Len(tagList) < MAX_TAGS
  /\ trAt \in {"off", "setPower"} => trOut = << >>
  /\ trAt = "setPower" => FlushedOnce
  /\ trAt \notin {"off", "setPower"} => LineOf(OfScan(scan))
  /\ LineOf(SoFar(glitches))
  /\ tagList \in Seq(Listed)
  /\ \A i, j \in 1..Len(tagList) : SameEpc(tagList[i], tagList[j]) => i = j

LEMMA TagReaderConstants ==
  /\ FlushMax \in Nat /\ RxCap \in Nat /\ RxCap <= 2 * FlushMax
  /\ MAX_TAGS \in Nat \ {0} /\ MaxScans \in Nat /\ MaxGlitches \in Nat
BY TagReaderAssumption

LEMMA SymbolKinds ==
  /\ \A k \in 1..MaxGlitches : Glitch(k) \in Symbols /\ Glitch(k) \in SoFar(k)
  /\ \A k \in 1..MaxGlitches : \A n : Glitch(k) \in OfScan(n)
  /\ \A s \in Symbols : s.of \in Frames \union Phantoms
  /\ \A n : SoFar(n) \subseteq Symbols /\ OfScan(n) \subseteq Symbols
  /\ \A n \in Nat : SoFar(n) \subseteq SoFar(n + 1)
  /\ \A f \in Frames : f.tag \in Tags \union {"reply"} /\ f.scan \in 1..MaxScans
<1>1. ASSUME NEW k \in 1..MaxGlitches
      PROVE  Glitch(k) \in Symbols /\ Glitch(k).of = [tag |-> "phantom", scan |-> k]
  <2>1. [tag |-> "phantom", scan |-> k] \in Phantoms
    BY DEF Phantoms
  <2> QED BY <2>1 DEF Symbols, Glitch
<1>2. ASSUME NEW k \in 1..MaxGlitches
      PROVE  Glitch(k) \in SoFar(k) /\ \A n : Glitch(k) \in OfScan(n)
  <2>1. Glitch(k) \in Symbols /\ Glitch(k).of = [tag |-> "phantom", scan |-> k]
    BY <1>1
  <2>2. Glitch(k).of.tag = "phantom" /\ Glitch(k).of.scan = k
    BY DEF Glitch
  <2>3. k \in 1..k
    BY SMT
  <2> QED BY <2>1, <2>2, <2>3 DEF SoFar, OfScan
<1>3. \A s \in Symbols : s.of \in Frames \union Phantoms
  BY DEF Symbols
<1> QED BY <1>1, <1>2, <1>3 DEF SoFar, OfScan, Frames

(* A frame that is sent now is of this scan. *)
LEMMA FramesOfScan ==
  ASSUME scan \in 1..MaxScans
  PROVE  SentNow(Symbols) /\ SentNow(OfScan(scan)) /\ \A n \in Nat : SentNow(SoFar(n))
<1> SUFFICES ASSUME NEW t \in Tags \union {"reply"}
             PROVE  /\ FrameOf([tag |-> t, scan |-> scan]) \in Seq(Symbols)
                    /\ FrameOf([tag |-> t, scan |-> scan]) \in Seq(OfScan(scan))
                    /\ \A n \in Nat : FrameOf([tag |-> t, scan |-> scan]) \in Seq(SoFar(n))
  BY DEF SentNow
<1> DEFINE f == [tag |-> t, scan |-> scan]
<1>1. f \in Frames /\ f.scan = scan /\ f.tag # "phantom"
  BY TagReaderAssumption DEF Frames
<1> HIDE DEF f
<1>2. ASSUME NEW p \in {"head", "body", "tail"}
      PROVE  [part |-> p, of |-> f] \in OfScan(scan) \intersect SoFar(0)
  BY <1>1 DEF OfScan, Symbols, SoFar
<1>3. ASSUME NEW i \in 1..3
      PROVE  <<"head", "body", "tail">>[i] \in {"head", "body", "tail"}
  BY <1>3
<1>4. FrameOf(f) \in [1..3 -> OfScan(scan) \intersect SoFar(0)]
  BY <1>2, <1>3 DEF FrameOf
<1>5. FrameOf(f) \in Seq(OfScan(scan) \intersect SoFar(0))
  BY <1>4, SeqDef
<1>6. OfScan(scan) \intersect SoFar(0) \subseteq Symbols
  BY SymbolKinds
<1>7. \A n \in Nat : OfScan(scan) \intersect SoFar(0) \subseteq SoFar(n)
  BY DEF SoFar
<1> QED BY <1>5, <1>6, <1>7, Widened DEF f

(* No step puts anything on the line or into the buffer but what was there, *)
(* frames of this scan, and glitches.                                       *)
LEMMA LineCarried ==
  ASSUME TagReaderInv, TagReaderNext, NEW S, LineOf(S),
         glitches' # glitches => Glitch(glitches') \in S,
         scan # 0 => SentNow(S)
  PROVE  /\ rawBuffer' \in Seq(S) /\ trOut' \in Seq(S) /\ trIn' \in Seq(S)
         /\ Len(rawBuffer') <= 3 /\ Len(trIn') <= RxCap
<1>1. /\ rawBuffer \in Seq(S) /\ trOut \in Seq(S) /\ trIn \in Seq(S)
      /\ Len(rawBuffer) \in Nat /\ Len(rawBuffer) <= 3
      /\ Len(trIn) \in Nat /\ Len(trIn) <= RxCap
      /\ RxCap \in Nat /\ FlushMax \in Nat
  <2>1. rawBuffer \in Seq(S) /\ trOut \in Seq(S) /\ trIn \in Seq(S)
    BY DEF LineOf
  <2>2. Len(rawBuffer) <= 3 /\ Len(trIn) <= RxCap
    BY DEF TagReaderInv, TagReaderTypeOK
  <2> QED BY <2>1, <2>2, LenProperties, TagReaderConstants
<1>2. /\ rawBuffer' = << >> => rawBuffer' \in Seq(S) /\ Len(rawBuffer') <= 3
      /\ trOut' = << >> => trOut' \in Seq(S)
      /\ rawBuffer = << >> => Len(rawBuffer) = 0
  <2>1. \A q : q = << >> => q \in Seq(S)
    BY EmptySeq
  <2>2. \A q : q = << >> => Len(q) = 0
    BY EmptySeq
  <2> QED BY <2>1, <2>2
<1>3. ASSUME NEW n \in Nat
      PROVE  /\ Left(trIn, n) \in Seq(S) /\ Taken(trIn, n) \in Seq(S)
             /\ Len(Left(trIn, n)) \in 0..Len(trIn) /\ Len(Taken(trIn, n)) \in 0..n
  BY <1>1, LeftOfTyped, TakenTyped
<1>4. ASSUME NEW e \in S
      PROVE  Append(trIn, e) \in Seq(S) /\ Len(Append(trIn, e)) = Len(trIn) + 1
  BY <1>1, AppendTyped
<1>5. trOut # << >> => Tail(trOut) \in Seq(S) /\ trOut[1] \in S /\ Len(trOut) \in Nat \ {0}
  BY <1>1, TailTyped
<1>6. CASE powerOn
  <2>1. trIn' = Left(trIn, FlushMax) /\ UNCHANGED <<rawBuffer, trOut>>
    BY <1>6 DEF powerOn, flushUART
  <2> QED BY <1>1, <1>3, <2>1
<1>7. CASE setPower \/ getPower
  <2>1. scan # 0
    BY <1>7 DEF setPower, getPower, TagReaderInv
  <2>2. /\ rawBuffer' = << >> /\ trIn' = Left(trIn, FlushMax)
        /\ trOut' = trOut \o FrameOf([tag |-> "reply", scan |-> scan])
    BY <1>7 DEF setPower, getPower, Ask, flushUART
  <2>3. trOut' \in Seq(S)
    BY <1>1, <2>1, <2>2, ConcatProperties DEF SentNow
  <2>4. trIn' \in Seq(S) /\ Len(trIn') \in 0..Len(trIn)
    BY <1>3, <2>2, TagReaderConstants
  <2> QED BY <1>1, <1>2, <2>2, <2>3, <2>4
<1>8. CASE StartInventory \/ StartFails \/ FrameTimesOut \/ FrameRead \/ powerOff
  <2>1. /\ trIn' = trIn /\ (trOut' = trOut \/ trOut' = << >>)
        /\ rawBuffer' = rawBuffer \/ rawBuffer' = << >>
    BY <1>8 DEF StartInventory, StartFails, FrameTimesOut, Failed, FrameRead, powerOff,
                scanVars, lineVars
  <2> QED BY <1>1, <1>2, <2>1
<1>9. CASE ReadSymbol
  <2>1. Wanted \in Nat /\ Len(rawBuffer) + Wanted <= 3
    BY <1>1, <1>2, <1>9 DEF ReadSymbol, Reading, Wanted
  <2>2. /\ trIn' = Left(trIn, Wanted) /\ trOut' = trOut
        /\ rawBuffer' = << >> \/ rawBuffer' = rawBuffer \o Taken(trIn, Wanted)
    BY <1>9 DEF ReadSymbol, Failed
  <2>3. /\ rawBuffer \o Taken(trIn, Wanted) \in Seq(S)
        /\ Len(rawBuffer \o Taken(trIn, Wanted)) = Len(rawBuffer) + Len(Taken(trIn, Wanted))
    BY <1>1, <1>3, <2>1, ConcatProperties
  <2>4. Len(rawBuffer \o Taken(trIn, Wanted)) <= 3
    BY <1>1, <1>3, <2>1, <2>3
  <2>5. trIn' \in Seq(S) /\ Len(trIn') <= RxCap
    BY <1>1, <1>3, <2>1, <2>2, TagReaderConstants
  <2> QED BY <1>1, <1>2, <2>2, <2>3, <2>4, <2>5
<1>10. CASE ReportTag
  <2>1. scan # 0
    BY <1>10 DEF ReportTag, TagReaderInv
  <2>2. trOut' \in Seq(S) /\ UNCHANGED <<rawBuffer, trIn>>
    BY <1>10, <2>1 DEF ReportTag, SentNow, scanVars
  <2> QED BY <1>1, <2>2
<1>11. CASE SymbolArrives
  <2>1. /\ trOut # << >> /\ Len(trIn) < RxCap /\ rawBuffer' = rawBuffer
        /\ trOut' = Tail(trOut) /\ trIn' = Append(trIn, trOut[1])
    BY <1>11 DEF SymbolArrives, scanVars
  <2>2. trOut' \in Seq(S) /\ trIn' \in Seq(S) /\ Len(trIn') = Len(trIn) + 1
    BY <1>4, <1>5, <2>1
  <2> QED BY <1>1, <2>1, <2>2
<1>12. CASE LineGlitch
  <2> DEFINE g == Glitch(glitches')
  <2>1. /\ rawBuffer' = rawBuffer /\ g \in S
        /\ \/ Len(trIn) < RxCap /\ trIn' = Append(trIn, g) /\ trOut' = trOut
           \/ trOut # << >> /\ trOut' = Tail(trOut) /\ trIn' = trIn
           \/ trOut # << >> /\ trOut' = [trOut EXCEPT ![1] = g] /\ trIn' = trIn
    <3>1. glitches \in Nat /\ glitches' = glitches + 1
      BY <1>12, TagReaderConstants DEF LineGlitch, TagReaderInv, TagReaderTypeOK
    <3> QED BY <1>12, <3>1 DEF LineGlitch, scanVars
  <2> HIDE DEF g
  <2>2. trOut # << >> => [trOut EXCEPT ![1] = g] \in Seq(S)
    BY <1>1, <1>5, <2>1, ExceptSeq
  <2>3. trOut' \in Seq(S) /\ trIn' \in Seq(S)
    BY <1>1, <1>4, <1>5, <2>1, <2>2
  <2>4. Len(trIn') <= RxCap
    BY <1>1, <1>4, <2>1
  <2> QED BY <1>1, <2>1, <2>3, <2>4
<1> QED BY <1>6, <1>7, <1>8, <1>9, <1>10, <1>11, <1>12 DEF TagReaderNext, readFrame

LEMMA PlaceKept ==
  ASSUME TagReaderInv, TagReaderNext
  PROVE  /\ trAt' \in {"off", "setPower", "setReply", "getPower", "getReply", "start", "scan"}
         /\ scan' \in 0..MaxScans /\ module' \in {"off", "on", "inventory"}
         /\ glitches' \in 0..MaxGlitches
         /\ trAt' # "off" => scan' # 0
         /\ module' = "inventory" => trAt' = "scan"
         /\ trAt' \in {"off", "setPower"} => trOut' = << >>
         /\ glitches' = glitches \/ (glitches' = glitches + 1 /\ glitches' \in 1..MaxGlitches)
<1>1. /\ trAt \in {"off", "setPower", "setReply", "getPower", "getReply", "start", "scan"}
      /\ scan \in 0..MaxScans /\ module \in {"off", "on", "inventory"}
      /\ glitches \in 0..MaxGlitches /\ MaxScans \in Nat /\ MaxGlitches \in Nat
      /\ trAt # "off" => scan # 0
      /\ module = "inventory" => trAt = "scan"
      /\ trAt \in {"off", "setPower"} => trOut = << >>
  BY TagReaderConstants DEF TagReaderInv, TagReaderTypeOK
<1>2. CASE powerOn
  BY <1>1, <1>2 DEF powerOn
<1>3. CASE setPower \/ getPower
  BY <1>1, <1>3 DEF setPower, getPower, Ask
<1>4. CASE StartInventory \/ StartFails
  BY <1>1, <1>4 DEF StartInventory, StartFails, scanVars
<1>5. CASE ReadSymbol
  BY <1>1, <1>5 DEF ReadSymbol, Reading, Failed
<1>6. CASE FrameTimesOut
  BY <1>1, <1>6 DEF FrameTimesOut, Reading, Failed
<1>7. CASE FrameRead
  BY <1>1, <1>7 DEF FrameRead, lineVars
<1>8. CASE powerOff
  BY <1>1, <1>8 DEF powerOff, scanVars
<1>9. CASE ReportTag \/ SymbolArrives
  BY <1>1, <1>9 DEF ReportTag, SymbolArrives, scanVars
<1>10. CASE LineGlitch
  BY <1>1, <1>10 DEF LineGlitch, scanVars
<1> QED BY <1>2, <1>3, <1>4, <1>5, <1>6, <1>7, <1>8, <1>9, <1>10
       DEF TagReaderNext, readFrame

(* A scan begins at powerOn only, and only FrameRead adds to the list.      *)
LEMMA ScanChanges ==
  ASSUME TagReaderNext, ~powerOn
  PROVE  /\ scan' = scan
         /\ ~FrameRead => tagList' = tagList
         /\ trAt' \in {"off", "setPower"} =>
              powerOff \/ StartFails \/ UNCHANGED <<trAt, rawBuffer, module>>
         /\ \/ rawBuffer' = << >> \/ rawBuffer' = rawBuffer
            \/ ReadSymbol /\ Len(tagList) < MAX_TAGS
BY DEF TagReaderNext, readFrame, setPower, getPower, Ask, StartInventory, StartFails, ReadSymbol,
       FrameTimesOut, Reading, Failed, FrameRead, powerOff, ReportTag, SymbolArrives,
       LineGlitch, scanVars, lineVars

(* A tag is added to the list once, and is of this scan. *)
LEMMA ListKept ==
  ASSUME TagReaderInv, TagReaderNext
  PROVE  /\ tagList' \in Seq(Listed') /\ Len(tagList') <= MAX_TAGS
         /\ \A i, j \in 1..Len(tagList') : SameEpc(tagList'[i], tagList'[j]) => i = j
         /\ rawBuffer' # << >> => Len(tagList') < MAX_TAGS
<1>0. /\ tagList \in Seq(Listed) /\ Len(tagList) \in Nat /\ Len(tagList) <= MAX_TAGS
      /\ MAX_TAGS \in Nat \ {0}
      /\ \A i, j \in 1..Len(tagList) : SameEpc(tagList[i], tagList[j]) => i = j
      /\ rawBuffer # << >> => Len(tagList) < MAX_TAGS
  BY LenProperties, TagReaderConstants DEF TagReaderInv, TagReaderTypeOK
<1>1. CASE powerOn
  <2>1. tagList' = << >> /\ \A S : << >> \in Seq(S) /\ Len(<< >>) = 0
    BY <1>1, EmptySeq DEF powerOn
  <2>2. tagList' \in Seq(Listed') /\ Len(tagList') = 0
    BY <2>1
  <2> QED BY <1>0, <2>2
<1>2. CASE ~powerOn
  <2>1. Listed \subseteq Listed'
    <3>1. glitches \in Nat /\ (glitches' = glitches \/ glitches' = glitches + 1)
      BY PlaceKept, TagReaderConstants DEF TagReaderInv, TagReaderTypeOK
    <3>2. 1..glitches \subseteq 1..glitches'
      BY <3>1
    <3> QED BY <1>2, <3>2, ScanChanges DEF Listed
  <2>2. tagList \in Seq(Listed')
    BY <1>0, <2>1, Widened
  <2>3. CASE tagList' = tagList
    BY <1>0, <1>2, <2>2, <2>3, ScanChanges
  <2>4. CASE tagList' # tagList
    <3> DEFINE e == rawBuffer[2].of
    <3>1. FrameRead
      BY <1>2, <2>4, ScanChanges
    <3>2. /\ Len(rawBuffer) = 3 /\ rawBuffer' = << >> /\ trAt = "scan" /\ NewTag
          /\ tagList' = Append(tagList, e) /\ UNCHANGED <<scan, glitches>>
      BY <2>4, <3>1 DEF FrameRead, lineVars
    <3>3. rawBuffer # << >>
      BY <3>2, EmptySeq
    <3>4. LineOf(OfScan(scan)) /\ LineOf(SoFar(glitches)) /\ rawBuffer \in Seq(Symbols)
      BY <3>2 DEF TagReaderInv, TagReaderTypeOK
    <3>5. 2 \in 1..Len(rawBuffer)
      BY <3>2
    <3>6. rawBuffer[2] \in OfScan(scan) /\ rawBuffer[2] \in SoFar(glitches)
      BY <3>4, <3>5, Typed DEF LineOf
    <3>7. /\ e \in Frames \union Phantoms /\ e.tag # "reply"
          /\ e.tag # "phantom" => e.scan = scan
          /\ e.tag = "phantom" => e.scan \in 1..glitches
      BY <3>2, <3>6, SymbolKinds DEF OfScan, SoFar, NewTag
    <3>8. e.tag \in Tags \/ (e.tag = "phantom" /\ e.scan \in 1..glitches)
      BY <3>7, SymbolKinds DEF Phantoms
    <3>9. e \in Listed'
      BY <3>2, <3>7, <3>8 DEF Listed
    <3> HIDE DEF e
    <3>10. /\ tagList' \in Seq(Listed') /\ Len(tagList') = Len(tagList) + 1
           /\ \A i \in 1..Len(tagList) : tagList'[i] = tagList[i]
           /\ tagList'[Len(tagList) + 1] = e
      BY <2>2, <3>2, <3>9, AppendProperties
    <3>11. \A i \in 1..Len(tagList) : ~SameEpc(tagList[i], e) /\ ~SameEpc(e, tagList[i])
      <4>1. DOMAIN tagList = 1..Len(tagList)
        BY <1>0, LenProperties
      <4>2. \A i \in 1..Len(tagList) : ~SameEpc(tagList[i], e)
        BY <3>2, <4>1 DEF NewTag, isTagSeen, e
      <4> QED BY <4>2 DEF SameEpc
    <3>12. ASSUME NEW i \in 1..Len(tagList'), NEW j \in 1..Len(tagList'),
                  SameEpc(tagList'[i], tagList'[j])
           PROVE  i = j
      BY <1>0, <3>10, <3>11, <3>12
    <3> QED BY <1>0, <3>2, <3>3, <3>10, <3>12
  <2> QED BY <2>3, <2>4
<1> QED BY <1>1, <1>2

(* Both flushes together leave nothing of an earlier scan. *)
LEMMA FlushesSuffice ==
  ASSUME TagReaderInv, TagReaderNext
  PROVE  /\ trAt' = "setPower" => FlushedOnce'
         /\ trAt' \notin {"off", "setPower"} => LineOf(OfScan(scan))'
<1>1. /\ trIn \in Seq(Symbols) /\ Len(trIn) \in Nat /\ Len(trIn) <= RxCap
      /\ FlushMax \in Nat /\ RxCap \in Nat /\ RxCap <= 2 * FlushMax
      /\ scan \in 0..MaxScans /\ scan' \in 0..MaxScans
  BY LenProperties, TagReaderConstants, PlaceKept DEF TagReaderInv, TagReaderTypeOK
<1>2. CASE powerOn
  <2>1. /\ trAt' = "setPower" /\ trIn' = Left(trIn, FlushMax)
        /\ Len(trIn') = IF FlushMax < Len(trIn) THEN Len(trIn) - FlushMax ELSE 0
    BY <1>1, <1>2, LeftOfTyped DEF powerOn, flushUART
  <2>2. Len(trIn') \in Nat /\ Len(trIn') <= FlushMax
    BY <1>1, <2>1
  <2>3. FlushedOnce'
    BY <1>1, <2>2 DEF FlushedOnce
  <2> QED BY <2>1, <2>3
<1>3. CASE setPower
  <2>1. /\ trAt = "setPower" /\ trAt' = "setReply" /\ rawBuffer' = << >>
        /\ trIn' = Left(trIn, FlushMax) /\ scan' = scan
        /\ trOut' = trOut \o FrameOf([tag |-> "reply", scan |-> scan])
    BY <1>3 DEF setPower, Ask, flushUART
  <2>2. scan # 0 /\ trOut = << >> /\ FlushedOnce
    BY <2>1 DEF TagReaderInv
  <2>3. trIn' \in Seq(OfScan(scan))
    BY <1>1, <2>1, <2>2, LeftTyped DEF FlushedOnce
  <2>4. trOut' \in Seq(OfScan(scan)) /\ rawBuffer' \in Seq(OfScan(scan))
    <3>1. FrameOf([tag |-> "reply", scan |-> scan]) \in Seq(OfScan(scan))
      BY <1>1, <2>2, FramesOfScan DEF SentNow
    <3> QED BY <2>1, <2>2, <3>1, ConcatProperties, EmptySeq
  <2> QED BY <2>1, <2>3, <2>4 DEF LineOf
<1>4. CASE ~powerOn /\ ~setPower
  <2>1. scan' = scan
    BY <1>4, ScanChanges
  <2>2. CASE trAt \notin {"off", "setPower"}
    <3>1. LineOf(OfScan(scan)) /\ scan \in 1..MaxScans
      BY <1>1, <2>2 DEF TagReaderInv
    <3>2. SentNow(OfScan(scan)) /\ (glitches' # glitches => Glitch(glitches') \in OfScan(scan))
      BY <3>1, FramesOfScan, SymbolKinds, PlaceKept
    <3>3. /\ rawBuffer' \in Seq(OfScan(scan)) /\ trOut' \in Seq(OfScan(scan))
          /\ trIn' \in Seq(OfScan(scan))
      BY <3>1, <3>2, LineCarried
    <3>4. trAt' # "setPower"
      BY <1>4, <2>2, ScanChanges DEF powerOff, StartFails
    <3> QED BY <2>1, <3>3, <3>4 DEF LineOf
  <2>3. CASE trAt \in {"off", "setPower"}
    <3>1. /\ trOut = << >> /\ module # "inventory"
          /\ trAt = "setPower" => FlushedOnce
      BY <2>3 DEF TagReaderInv
    <3> DEFINE g == Glitch(glitches')
    <3>a. (g \in Symbols /\ g \in OfScan(scan)) \/ glitches' = glitches
      BY PlaceKept, SymbolKinds
    <3>2. trAt' = trAt /\ (trIn' = trIn \/ (glitches' # glitches /\ trIn' = Append(trIn, g)))
      <4>1. CASE FrameRead
        BY <2>3, <4>1 DEF FrameRead, lineVars
      <4>2. CASE LineGlitch
        <5>1. glitches' # glitches
          BY <4>2, TagReaderConstants DEF LineGlitch, TagReaderInv, TagReaderTypeOK
        <5> QED BY <3>1, <4>2, <5>1 DEF LineGlitch
      <4> QED BY <1>4, <2>3, <3>1, <4>1, <4>2
              DEF TagReaderNext, readFrame, getPower, StartInventory, StartFails, ReadSymbol,
                  FrameTimesOut, Reading, powerOff, ReportTag, SymbolArrives
    <3>3. ASSUME trAt = "setPower", NEW i \in 1..Len(trIn'), i > FlushMax
          PROVE  trIn'[i] \in OfScan(scan)
      <4>1. CASE trIn' = trIn
        BY <3>1, <3>3, <4>1 DEF FlushedOnce
      <4>2. CASE glitches' # glitches /\ trIn' = Append(trIn, g)
        <5>1. /\ Len(trIn') = Len(trIn) + 1 /\ trIn'[Len(trIn) + 1] = g
              /\ \A k \in 1..Len(trIn) : trIn'[k] = trIn[k]
          BY <1>1, <3>a, <4>2, AppendProperties
        <5>2. CASE i \in 1..Len(trIn)
          BY <3>1, <3>3, <5>1, <5>2 DEF FlushedOnce
        <5>3. CASE i = Len(trIn) + 1
          BY <3>a, <4>2, <5>1, <5>3
        <5> QED BY <1>1, <5>1, <5>2, <5>3
      <4> QED BY <3>2, <4>1, <4>2
    <3>4. trAt' = "setPower" => FlushedOnce'
      BY <2>1, <3>2, <3>3 DEF FlushedOnce
    <3> QED BY <2>3, <3>2, <3>4
  <2> QED BY <2>2, <2>3
<1> QED BY <1>2, <1>3, <1>4

LEMMA TagReaderInvHolds == TagReaderSpec => []TagReaderInv
<1>1. TagReaderInit => TagReaderInv
  <2> SUFFICES ASSUME TagReaderInit PROVE TagReaderInv
    OBVIOUS
  <2>1. \A S : << >> \in Seq(S) /\ Len(<< >>) = 0
    BY EmptySeq
  <2>2. /\ rawBuffer = << >> /\ tagList = << >> /\ trOut = << >> /\ trIn = << >>
        /\ trAt = "off" /\ module = "off" /\ scan = 0 /\ glitches = 0
    BY DEF TagReaderInit
  <2>3. TagReaderTypeOK
    <3>1. /\ Len(rawBuffer) <= 3 /\ Len(tagList) <= MAX_TAGS /\ Len(trIn) <= RxCap
          /\ scan \in 0..MaxScans /\ glitches \in 0..MaxGlitches
      BY <2>1, <2>2, TagReaderConstants
    <3> QED BY <2>1, <2>2, <3>1 DEF TagReaderTypeOK
  <2>4. LineOf(SoFar(glitches)) /\ tagList \in Seq(Listed) /\ Len(tagList) = 0
    BY <2>1, <2>2 DEF LineOf
  <2>5. \A i, j \in 1..Len(tagList) : SameEpc(tagList[i], tagList[j]) => i = j
    BY <2>4
  <2> QED BY <2>2, <2>3, <2>4, <2>5 DEF TagReaderInv
<1>2. TagReaderInv /\ [TagReaderNext]_trVars => TagReaderInv'
  <2> SUFFICES ASSUME TagReaderInv, [TagReaderNext]_trVars PROVE TagReaderInv'
    OBVIOUS
  <2>1. CASE UNCHANGED trVars
    BY <2>1 DEF TagReaderInv, TagReaderTypeOK, FlushedOnce, LineOf, OfScan, Listed, trVars,
                scanVars, lineVars
  <2>2. CASE TagReaderNext
    <3>1. scan # 0 => SentNow(Symbols) /\ \A n \in Nat : SentNow(SoFar(n))
      BY FramesOfScan, TagReaderConstants DEF TagReaderInv, TagReaderTypeOK
    <3>2. LineOf(Symbols) /\ (glitches' # glitches => Glitch(glitches') \in Symbols)
      BY <2>2, SymbolKinds, PlaceKept DEF TagReaderInv, TagReaderTypeOK, LineOf
    <3>3. /\ rawBuffer' \in Seq(Symbols) /\ trOut' \in Seq(Symbols) /\ trIn' \in Seq(Symbols)
          /\ Len(rawBuffer') <= 3 /\ Len(trIn') <= RxCap
      BY <2>2, <3>1, <3>2, LineCarried
    <3>4. LineOf(SoFar(glitches))'
      <4> SUFFICES ASSUME NEW n, n = glitches'
                   PROVE  /\ rawBuffer' \in Seq(SoFar(n)) /\ trOut' \in Seq(SoFar(n))
                          /\ trIn' \in Seq(SoFar(n))
        BY DEF LineOf, SoFar
      <4>1. /\ glitches \in Nat /\ n \in Nat /\ (n = glitches \/ n = glitches + 1)
            /\ glitches' # glitches => n \in 1..MaxGlitches
        BY <2>2, PlaceKept, TagReaderConstants DEF TagReaderInv, TagReaderTypeOK
      <4>2. SoFar(glitches) \subseteq SoFar(n)
        BY <4>1, SymbolKinds
      <4>3. LineOf(SoFar(n))
        BY <4>2, Widened DEF TagReaderInv, LineOf
      <4>4. glitches' # glitches => Glitch(glitches') \in SoFar(n)
        BY <4>1, SymbolKinds
      <4>5. scan # 0 => SentNow(SoFar(n))
        BY <3>1, <4>1
      <4> QED BY <2>2, <4>3, <4>4, <4>5, LineCarried
    <3>5. tagList' \in Seq(Frames \union Phantoms)
      <4>1. Listed' \subseteq Frames \union Phantoms
        BY DEF Listed
      <4> QED BY <2>2, <4>1, ListKept, Widened
    <3>6. TagReaderTypeOK'
      BY <2>2, <3>3, <3>5, PlaceKept, ListKept DEF TagReaderTypeOK
    <3> QED BY <2>2, <3>4, <3>6, PlaceKept, ListKept, FlushesSuffice DEF TagReaderInv
  <2> QED BY <2>1, <2>2
<1> QED BY <1>1, <1>2, PTL DEF TagReaderSpec

(* The driver of the tag reader is well typed, and lists no more tags than  *)
(* its buffer has places for.                                               *)
THEOREM TagReaderTypeCorrect == TagReaderSpec => []TagReaderTypeOK
<1>1. TagReaderInv => TagReaderTypeOK
  BY DEF TagReaderInv
<1> QED BY <1>1, TagReaderInvHolds, PTL

(* No tag of an earlier scan is listed in a later one, for any number of    *)
(* tags and scans, as long as the port holds no more than two flushes take. *)
THEOREM TagsAreOfTheScan == TagReaderSpec => []TagsAreOfThisScan
<1>1. TagReaderInv => TagsAreOfThisScan
  <2> SUFFICES ASSUME TagReaderInv, NEW i \in DOMAIN tagList
               PROVE  tagList[i].tag # "phantom" => tagList[i].scan = scan
    BY DEF TagsAreOfThisScan
  <2>1. tagList \in Seq(Listed)
    BY DEF TagReaderInv
  <2>2. tagList[i] \in Listed
    BY <2>1, LenProperties, Typed
  <2> QED BY <2>2 DEF Listed
<1> QED BY <1>1, TagReaderInvHolds, PTL

(* No more tags are counted than there are, but for one for each            *)
(* disturbance of the line.                                                 *)
THEOREM TagCountIsHonest == TagReaderSpec => []CountIsHonest
<1>1. TagReaderInv => CountIsHonest
  <2> SUFFICES ASSUME TagReaderInv PROVE CountIsHonest
    OBVIOUS
  <2> DEFINE n == Len(tagList)
             R == Tags \X {0}
             P == {"phantom"} \X (1..glitches)
             T == R \union P
             f == [i \in 1..n |->
                     <<tagList[i].tag, IF tagList[i].tag = "phantom" THEN tagList[i].scan ELSE 0>>]
  <2>1. /\ tagList \in Seq(Listed) /\ n \in Nat /\ glitches \in Nat
        /\ \A i, j \in 1..n : SameEpc(tagList[i], tagList[j]) => i = j
    BY LenProperties, TagReaderConstants DEF TagReaderInv, TagReaderTypeOK
  <2>2. \A i \in 1..n : f[i] \in T
    <3>1. \A i \in 1..n : tagList[i] \in Listed
      BY <2>1, Typed
    <3> QED BY <3>1, TagReaderAssumption DEF Listed
  <2>3. f \in Injection(1..n, T)
    <3>1. \A i, j \in 1..n : f[i] = f[j] => i = j
      BY <2>1 DEF SameEpc
    <3> QED BY <2>2, <3>1 DEF Injection, IsInjective
  <2>4. IsFiniteSet(Tags) /\ Cardinality(Tags) \in Nat
    BY TagReaderAssumption, FS_CardinalityType
  <2>5. IsFiniteSet(T) /\ Cardinality(T) <= Cardinality(Tags) + glitches
    <3>1. IsFiniteSet(R) /\ Cardinality(R) = Cardinality(Tags)
      <4>1. IsFiniteSet({0}) /\ Cardinality({0}) = 1
        BY FS_Singleton
      <4>2. IsFiniteSet(R) /\ Cardinality(R) = Cardinality(Tags) * Cardinality({0})
        BY <2>4, <4>1, FS_Product
      <4> QED BY <2>4, <4>1, <4>2
    <3>2. IsFiniteSet(P) /\ Cardinality(P) = glitches
      <4>1. IsFiniteSet({"phantom"}) /\ Cardinality({"phantom"}) = 1
        BY FS_Singleton
      <4>2. /\ IsFiniteSet(1..glitches)
            /\ Cardinality(1..glitches) = IF 1 > glitches THEN 0 ELSE glitches - 1 + 1
        BY <2>1, FS_Interval
      <4>3. Cardinality(1..glitches) = glitches
        BY <2>1, <4>2
      <4>4. IsFiniteSet(P) /\ Cardinality(P) = Cardinality({"phantom"}) * Cardinality(1..glitches)
        BY <4>1, <4>2, FS_Product
      <4> QED BY <2>1, <4>1, <4>3, <4>4
    <3>3. /\ IsFiniteSet(T)
          /\ Cardinality(T) = Cardinality(R) + Cardinality(P) - Cardinality(R \cap P)
      BY <3>1, <3>2, FS_Union
    <3>4. Cardinality(R \cap P) \in Nat
      <4>1. IsFiniteSet(R \cap P)
        BY <3>1, FS_Subset
      <4> QED BY <4>1, FS_CardinalityType
    <3> QED BY <2>1, <2>4, <3>1, <3>2, <3>3, <3>4
  <2>6. IsFiniteSet(1..n) /\ Cardinality(1..n) = n
    <3>1. /\ IsFiniteSet(1..n)
          /\ Cardinality(1..n) = IF 1 > n THEN 0 ELSE n - 1 + 1
      BY <2>1, FS_Interval
    <3> QED BY <2>1, <3>1
  <2>7. Cardinality(1..n) <= Cardinality(T) /\ Cardinality(T) \in Nat
    BY <2>3, <2>5, FS_Injection, FS_CardinalityType
  <2>8. n <= Cardinality(Tags) + glitches
    BY <2>1, <2>4, <2>5, <2>6, <2>7
  <2> QED BY <2>8 DEF CountIsHonest
<1> QED BY <1>1, TagReaderInvHolds, PTL

-----------------------------------------------------------------------------
(* The climate sensor: what its checksum does to bytes.                     *)

LEMMA ShiftedBits ==
  ASSUME NEW c, c \subseteq Bits
  PROVE  /\ Shifted(c) \subseteq Bits
         /\ 0 \in Shifted(c) <=> 7 \in c
         /\ 1 \in Shifted(c) <=> 0 \in c
         /\ 2 \in Shifted(c) <=> 1 \in c
         /\ 3 \in Shifted(c) <=> 2 \in c
         /\ 4 \in Shifted(c) <=> (3 \in c <=> 7 \notin c)
         /\ 5 \in Shifted(c) <=> (4 \in c <=> 7 \notin c)
         /\ 6 \in Shifted(c) <=> 5 \in c
         /\ 7 \in Shifted(c) <=> 6 \in c
BY DEF Shifted, SymDiff, Bits

LEMMA XorLinear ==
  ASSUME NEW a, NEW b, a \subseteq Bits, b \subseteq Bits
  PROVE  Shifted(SymDiff(a, b)) = SymDiff(Shifted(a), Shifted(b))
BY DEF Shifted, SymDiff, Bits

LEMMA ByteCrcBits ==
  ASSUME NEW c, c \subseteq Bits
  PROVE  /\ ByteCrc(c) \subseteq Bits
         /\ 0 \in ByteCrc(c) <=> (0 \in c <=> (3 \in c <=> (4 \in c <=> 6 \notin c)))
         /\ 1 \in ByteCrc(c) <=> (1 \in c <=> (4 \in c <=> (5 \in c <=> 7 \notin c)))
         /\ 2 \in ByteCrc(c) <=> (2 \in c <=> (5 \in c <=> 6 \in c))
         /\ 3 \in ByteCrc(c) <=> (3 \in c <=> (6 \in c <=> 7 \in c))
         /\ 4 \in ByteCrc(c) <=> (0 \in c <=> (3 \in c <=> (6 \in c <=> 7 \notin c)))
         /\ 5 \in ByteCrc(c) <=> (0 \in c <=> (1 \in c <=> (3 \in c <=> (6 \in c <=> 7 \in c))))
         /\ 6 \in ByteCrc(c) <=> (1 \in c <=> (2 \in c <=> (4 \in c <=> 7 \notin c)))
         /\ 7 \in ByteCrc(c) <=> (2 \in c <=> (3 \in c <=> 5 \in c))
<1> DEFINE Twice(b) == Shifted(Shifted(b))
           Four(b)  == Twice(Twice(b))
<1>1. ASSUME NEW b, b \subseteq Bits
      PROVE  /\ Twice(b) \subseteq Bits
             /\ 0 \in Twice(b) <=> (6 \in b)
             /\ 1 \in Twice(b) <=> (7 \in b)
             /\ 2 \in Twice(b) <=> (0 \in b)
             /\ 3 \in Twice(b) <=> (1 \in b)
             /\ 4 \in Twice(b) <=> (2 \in b <=> 6 \notin b)
             /\ 5 \in Twice(b) <=> (3 \in b <=> (6 \in b <=> 7 \in b))
             /\ 6 \in Twice(b) <=> (4 \in b <=> 7 \notin b)
             /\ 7 \in Twice(b) <=> (5 \in b)
  BY <1>1, ShiftedBits
<1>2. ASSUME NEW b, b \subseteq Bits
      PROVE  /\ Four(b) \subseteq Bits
             /\ 0 \in Four(b) <=> (4 \in b <=> 7 \notin b)
             /\ 1 \in Four(b) <=> (5 \in b)
             /\ 2 \in Four(b) <=> (6 \in b)
             /\ 3 \in Four(b) <=> (7 \in b)
             /\ 4 \in Four(b) <=> (0 \in b <=> (4 \in b <=> 7 \in b))
             /\ 5 \in Four(b) <=> (1 \in b <=> (4 \in b <=> (5 \in b <=> 7 \notin b)))
             /\ 6 \in Four(b) <=> (2 \in b <=> (5 \in b <=> 6 \in b))
             /\ 7 \in Four(b) <=> (3 \in b <=> (6 \in b <=> 7 \in b))
  <2> HIDE DEF Twice
  <2> QED BY <1>1, <1>2
<1>3. ByteCrc(c) = Four(Four(c))
  BY DEF ByteCrc
<1> HIDE DEF Four
<1>4. Four(c) \subseteq Bits
  BY <1>2
<1> QED BY <1>2, <1>3, <1>4

(* A byte whose lowest k bits alone are set does not become one whose       *)
(* lowest k bits are clear, unless it is empty.                             *)
Low(k) == {i \in Bits : i < k}

LEMMA NoBurst ==
  ASSUME NEW c, c \subseteq Bits, NEW k \in 0..8,
         c \subseteq Low(k), ByteCrc(c) \intersect Low(k) = {}
  PROVE  c = {}
<1>1. \A i \in {0, 1, 2, 3, 4, 5, 6, 7} :
        (i \in c => i < k) /\ (i < k => i \notin ByteCrc(c))
  BY DEF Low, Bits
<1>2. \A i \in {0, 1, 2, 3, 4, 5, 6, 7} : i \notin c
  <2>1. k \in {0, 1, 2, 3, 4, 5, 6, 7, 8}
    OBVIOUS
  <2>2. /\ 0 \in c => 0 < k
        /\ 1 \in c => 1 < k
        /\ 2 \in c => 2 < k
        /\ 3 \in c => 3 < k
        /\ 4 \in c => 4 < k
        /\ 5 \in c => 5 < k
        /\ 6 \in c => 6 < k
        /\ 7 \in c => 7 < k
    BY <1>1
  <2> QED BY <1>1, <2>1, <2>2, ByteCrcBits
<1> QED BY <1>2 DEF Bits

(* The checksum of a bit has two bits at least, and so has that of it.      *)
LEMMA NoPair ==
  ASSUME NEW p \in Bits, NEW q \in Bits
  PROVE  ByteCrc({p}) # {q} /\ ByteCrc(ByteCrc({p})) # {q}
<1>1. {p} \subseteq Bits /\ ByteCrc({p}) \subseteq Bits
  BY ByteCrcBits
<1>2. p \in {0, 1, 2, 3, 4, 5, 6, 7}
  BY DEF Bits
<1>3. ByteCrc({p}) # {q}
  BY <1>1, <1>2, ByteCrcBits
<1>4. ByteCrc(ByteCrc({p})) # {q}
  BY <1>1, <1>2, ByteCrcBits
<1> QED BY <1>3, <1>4

LEMMA SymDiffBits ==
  ASSUME NEW a, NEW b, a \subseteq Bits, b \subseteq Bits
  PROVE  SymDiff(a, b) \subseteq Bits
BY DEF SymDiff

LEMMA ByteCrcLinear ==
  ASSUME NEW a, NEW b, a \subseteq Bits, b \subseteq Bits
  PROVE  ByteCrc(SymDiff(a, b)) = SymDiff(ByteCrc(a), ByteCrc(b))
<1> DEFINE Twice(c) == Shifted(Shifted(c))
           Four(c)  == Twice(Twice(c))
<1>1. ASSUME NEW c, NEW d, c \subseteq Bits, d \subseteq Bits
      PROVE  /\ Twice(c) \subseteq Bits /\ Twice(d) \subseteq Bits
             /\ Twice(SymDiff(c, d)) = SymDiff(Twice(c), Twice(d))
  BY <1>1, XorLinear, ShiftedBits
<1>2. ASSUME NEW c, NEW d, c \subseteq Bits, d \subseteq Bits
      PROVE  /\ Four(c) \subseteq Bits /\ Four(d) \subseteq Bits
             /\ Four(SymDiff(c, d)) = SymDiff(Four(c), Four(d))
  <2> HIDE DEF Twice
  <2> QED BY <1>1, <1>2
<1>3. \A c : ByteCrc(c) = Four(Four(c))
  BY DEF ByteCrc
<1> HIDE DEF Four
<1> QED BY <1>2, <1>3

-----------------------------------------------------------------------------
(* The words.                                                               *)

LEMMA ByteTyped == \A w, n : Byte(w, n) \subseteq Bits
BY DEF Byte

LEMMA WordIsValid ==
  ASSUME NEW h, NEW l, h \subseteq Bits, l \subseteq Bits
  PROVE  /\ Valid(Word(h, l)) /\ Value(Word(h, l)) = <<h, l>>
<1> DEFINE c == calculateCRC(h, l)
<1>1. c \subseteq Bits
  BY ByteCrcBits, SymDiffBits DEF calculateCRC
<1>2. Word(h, l) = {i \in Wires : i - 16 \in h \/ i - 8 \in l \/ i \in c}
  BY DEF Word
<1> HIDE DEF c
<1>3. \A i \in Bits : /\ i + 16 \in Word(h, l) <=> i \in h
                      /\ i + 8 \in Word(h, l) <=> i \in l
                      /\ i \in Word(h, l) <=> i \in c
  <2> TAKE i \in Bits
  <2>1. /\ i \in 0..7 /\ i + 16 \in Wires /\ i + 8 \in Wires /\ i \in Wires
        /\ (i + 16) - 16 = i /\ (i + 16) - 8 \notin 0..7 /\ i + 16 \notin 0..7
        /\ (i + 8) - 16 \notin 0..7 /\ (i + 8) - 8 = i /\ i + 8 \notin 0..7
        /\ i - 16 \notin 0..7 /\ i - 8 \notin 0..7
    BY DEF Bits, Wires
  <2> QED BY <1>1, <1>2, <2>1 DEF Bits
<1>4. \A i \in Bits : i + 8 * 2 = i + 16 /\ i + 8 * 1 = i + 8 /\ i + 8 * 0 = i
  BY DEF Bits
<1>5. /\ Byte(Word(h, l), 2) = h
      /\ Byte(Word(h, l), 1) = l
      /\ Byte(Word(h, l), 0) = c
  BY <1>1, <1>3, <1>4 DEF Byte
<1> QED BY <1>5 DEF Valid, Value, c

LEMMA BytesOfSymDiff ==
  ASSUME NEW w, NEW e, NEW n \in 0..2
  PROVE  Byte(SymDiff(w, e), n) = SymDiff(Byte(w, n), Byte(e, n))
BY DEF Byte, SymDiff

(* What turns a valid word into a valid word is itself a word whose last    *)
(* byte is the checksum, from 0, of the others.                             *)
LEMMA Syndrome ==
  ASSUME NEW w, NEW e, Valid(w), Valid(SymDiff(w, e))
  PROVE  ByteCrc(SymDiff(ByteCrc(Byte(e, 2)), Byte(e, 1))) = Byte(e, 0)
<1> DEFINE h == Byte(w, 2)
           l == Byte(w, 1)
           c == Byte(w, 0)
           x == Byte(e, 2)
           y == Byte(e, 1)
           z == Byte(e, 0)
<1>1. /\ h \subseteq Bits /\ l \subseteq Bits /\ c \subseteq Bits
      /\ x \subseteq Bits /\ y \subseteq Bits /\ z \subseteq Bits
  BY ByteTyped
<1>2. calculateCRC(h, l) = c
  BY DEF Valid
<1>3. calculateCRC(SymDiff(h, x), SymDiff(l, y)) = SymDiff(c, z)
  BY BytesOfSymDiff DEF Valid
<1> HIDE DEF h, l, c, x, y, z
<1> DEFINE u == SymDiff(Bits, h)
<1>4. u \subseteq Bits /\ SymDiff(Bits, SymDiff(h, x)) = SymDiff(u, x)
  BY <1>1 DEF SymDiff
<1> HIDE DEF u
<1>5. ByteCrc(SymDiff(u, x)) = SymDiff(ByteCrc(u), ByteCrc(x))
  BY <1>1, <1>4, ByteCrcLinear
<1> DEFINE v == SymDiff(ByteCrc(u), l)
           d == SymDiff(ByteCrc(x), y)
<1>6. /\ v \subseteq Bits /\ d \subseteq Bits
      /\ ByteCrc(u) \subseteq Bits /\ ByteCrc(x) \subseteq Bits
  BY <1>1, <1>4, SymDiffBits, ByteCrcBits
<1>7. SymDiff(SymDiff(ByteCrc(u), ByteCrc(x)), SymDiff(l, y)) = SymDiff(v, d)
  BY DEF SymDiff
<1>8. ByteCrc(v) = c
  BY <1>2 DEF calculateCRC, u
<1>9. ByteCrc(SymDiff(v, d)) = SymDiff(c, z)
  BY <1>3, <1>4, <1>5, <1>7 DEF calculateCRC
<1> HIDE DEF v, d
<1>10. SymDiff(ByteCrc(v), ByteCrc(d)) = SymDiff(c, z)
  BY <1>6, <1>9, ByteCrcLinear
<1>11. ByteCrc(d) = z
  BY <1>8, <1>10 DEF SymDiff
<1> QED BY <1>11 DEF d, x, y, z

LEMMA EmptyBytes ==
  /\ ByteCrc({}) = {}
  /\ \A b : SymDiff(b, {}) = b /\ SymDiff({}, b) = b
  /\ \A c : c \subseteq Bits /\ ByteCrc(c) = {} => c = {}
<1>1. 8 \in 0..8 /\ \A c : c \subseteq Bits => c \subseteq Low(8)
  BY DEF Low, Bits
<1>2. \A c : c \subseteq Bits /\ ByteCrc(c) = {} => c = {}
  BY <1>1, NoBurst
<1>3. \A i \in Bits : i \notin ByteCrc({})
  BY ByteCrcBits DEF Bits
<1>4. ByteCrc({}) = {}
  BY <1>3, ByteCrcBits
<1> QED BY <1>2, <1>4 DEF SymDiff

(* A burst does not pass unseen. *)
LEMMA BurstIsSeen ==
  ASSUME NEW w, NEW e \in Bursts, Valid(w), Valid(SymDiff(w, e))
  PROVE  Byte(e, 2) = {} /\ Byte(e, 1) = {}
<1> DEFINE x == Byte(e, 2)
           y == Byte(e, 1)
           z == Byte(e, 0)
<1>1. ByteCrc(SymDiff(ByteCrc(x), y)) = z
  BY Syndrome
<1>2. x \subseteq Bits /\ y \subseteq Bits /\ z \subseteq Bits
  BY ByteTyped
<1>3. PICK at \in 0..16, bits \in SUBSET Bits : e = {at + i : i \in bits}
  BY SMTT(60) DEF Bursts
<1>4. \A j \in e : j \in Int /\ at <= j /\ j <= at + 7
  BY <1>3 DEF Bits
<1>5. /\ \A i \in Bits : i \in x => at <= i + 16 /\ i + 16 <= at + 7
      /\ \A i \in Bits : i \in y => at <= i + 8 /\ i + 8 <= at + 7
      /\ \A i \in Bits : i \in z => at <= i /\ i <= at + 7
  <2>1. \A i \in Bits : i + 8 * 2 = i + 16 /\ i + 8 * 1 = i + 8 /\ i + 8 * 0 = i
    BY DEF Bits
  <2> QED BY <1>4, <2>1 DEF Byte
<1> HIDE DEF x, y, z
<1>6. CASE at <= 8
  <2>1. /\ at \in 0..8 /\ \A i \in Bits : i \notin x
        /\ \A i \in Bits : i \in y => i < at
        /\ \A i \in Bits : i \in z => ~(i < at)
    BY <1>5, <1>6 DEF Bits
  <2>2. x = {} /\ y \subseteq Low(at) /\ z \intersect Low(at) = {}
    BY <1>2, <2>1 DEF Low
  <2>3. ByteCrc(y) = z
    BY <1>1, <2>2, EmptyBytes
  <2>4. y = {}
    BY <1>2, <2>1, <2>2, <2>3, NoBurst
  <2> QED BY <2>2, <2>4 DEF x, y
<1>7. CASE ~(at <= 8)
  <2> DEFINE k == at - 8
  <2>1. /\ k \in 0..8 /\ \A i \in Bits : i \notin z
        /\ \A i \in Bits : i \in x => i < k
        /\ \A i \in Bits : i \in y => ~(i < k)
    BY <1>5, <1>7 DEF Bits
  <2> HIDE DEF k
  <2>2. z = {} /\ x \subseteq Low(k) /\ y \intersect Low(k) = {}
    BY <1>2, <2>1 DEF Low
  <2>3. /\ ByteCrc(x) \subseteq Bits
        /\ SymDiff(ByteCrc(x), y) \subseteq Bits
    BY <1>2, ByteCrcBits, SymDiffBits
  <2>4. SymDiff(ByteCrc(x), y) = {}
    BY <1>1, <2>2, <2>3, EmptyBytes
  <2>5. ByteCrc(x) = y
    BY <2>4 DEF SymDiff
  <2>6. x = {}
    BY <1>2, <2>1, <2>2, <2>5, NoBurst
  <2> QED BY <2>5, <2>6, EmptyBytes DEF x, y
<1> QED BY <1>6, <1>7

(* Nor do two wrong bits. *)
LEMMA BitOfWire ==
  ASSUME NEW i \in Wires
  PROVE  \E p \in Bits, m \in 0..2 : i = p + 8 * m
<1>1. CASE i < 8
  <2>1. i \in Bits /\ i = i + 8 * 0
    BY <1>1 DEF Bits, Wires
  <2> QED BY <2>1
<1>2. CASE ~(i < 8) /\ i < 16
  <2>1. i - 8 \in Bits /\ i = (i - 8) + 8 * 1
    BY <1>2 DEF Bits, Wires
  <2> QED BY <2>1
<1>3. CASE ~(i < 16)
  <2>1. i - 16 \in Bits /\ i = (i - 16) + 8 * 2
    BY <1>3 DEF Bits, Wires
  <2> QED BY <2>1
<1> QED BY <1>1, <1>2, <1>3

LEMMA PairIsSeen ==
  ASSUME NEW w, NEW i \in Wires, NEW j \in Wires,
         Valid(w), Valid(SymDiff(w, {i, j}))
  PROVE  Byte({i, j}, 2) = {} /\ Byte({i, j}, 1) = {}
<1> DEFINE x == Byte({i, j}, 2)
           y == Byte({i, j}, 1)
           z == Byte({i, j}, 0)
<1>1. ByteCrc(SymDiff(ByteCrc(x), y)) = z
  BY Syndrome
<1>2. PICK p \in Bits, m \in 0..2 : i = p + 8 * m
  BY BitOfWire
<1>3. PICK q \in Bits, n \in 0..2 : j = q + 8 * n
  BY BitOfWire
<1>4. \A r \in Bits, k \in 0..2 :
        /\ r + 8 * k = i <=> r = p /\ k = m
        /\ r + 8 * k = j <=> r = q /\ k = n
  BY <1>2, <1>3 DEF Bits
<1>5. \A k \in 0..2 :
        Byte({i, j}, k) = (IF k = m THEN {p} ELSE {}) \union (IF k = n THEN {q} ELSE {})
  BY <1>4, <1>2, <1>3 DEF Byte
<1>6. /\ x = (IF 2 = m THEN {p} ELSE {}) \union (IF 2 = n THEN {q} ELSE {})
      /\ y = (IF 1 = m THEN {p} ELSE {}) \union (IF 1 = n THEN {q} ELSE {})
      /\ z = (IF 0 = m THEN {p} ELSE {}) \union (IF 0 = n THEN {q} ELSE {})
  BY <1>5
<1> HIDE DEF x, y, z
<1>7. m \in {0, 1, 2} /\ n \in {0, 1, 2}
  BY <1>2, <1>3
<1>8. /\ {p} \subseteq Bits /\ {q} \subseteq Bits /\ {p, q} \subseteq Bits
      /\ ByteCrc({p}) \subseteq Bits /\ ByteCrc({q}) \subseteq Bits
      /\ ByteCrc({p, q}) \subseteq Bits
  BY ByteCrcBits
<1>9. CASE z = {}
  <2>1. x \subseteq Bits /\ y \subseteq Bits /\ ByteCrc(x) \subseteq Bits
    BY <1>6, <1>8, ByteCrcBits
  <2>2. SymDiff(ByteCrc(x), y) = {}
    BY <1>1, <1>9, <2>1, SymDiffBits, EmptyBytes
  <2>3. ByteCrc(x) = y
    BY <2>2 DEF SymDiff
  <2>4. m # 0 /\ n # 0
    BY <1>6, <1>9
  <2>5. CASE m = 1 /\ n = 1
    <3>1. x = {} /\ y = {p, q}
      BY <1>6, <2>5
    <3> QED BY <2>3, <3>1, EmptyBytes
  <2>6. CASE m = 2 /\ n = 2
    <3>1. y = {} /\ x # {}
      BY <1>6, <2>6
    <3> QED BY <2>1, <2>3, <3>1, EmptyBytes
  <2>7. CASE m = 2 /\ n = 1
    <3>1. x = {p} /\ y = {q}
      BY <1>6, <2>7
    <3> QED BY <2>3, <3>1, NoPair
  <2>8. CASE m = 1 /\ n = 2
    <3>1. x = {q} /\ y = {p}
      BY <1>6, <2>8
    <3> QED BY <2>3, <3>1, NoPair
  <2> QED BY <1>7, <2>4, <2>5, <2>6, <2>7, <2>8
<1>10. CASE z # {}
  <2>1. m = 0 \/ n = 0
    BY <1>6, <1>10
  <2>2. CASE m = 0 /\ n = 0
    BY <1>6, <2>2 DEF x, y
  <2>3. CASE m = 0 /\ n # 0
    <3>1. z = {p} /\ ((x = {q} /\ y = {}) \/ (x = {} /\ y = {q}))
      BY <1>6, <1>7, <2>3
    <3>2. CASE x = {q} /\ y = {}
      <4>1. SymDiff(ByteCrc(x), y) = ByteCrc({q})
        BY <3>2, EmptyBytes
      <4>2. ByteCrc(ByteCrc({q})) = {p}
        BY <1>1, <3>1, <4>1
      <4> QED BY <4>2, NoPair
    <3>3. CASE x = {} /\ y = {q}
      <4>1. SymDiff(ByteCrc(x), y) = {q}
        BY <3>3, EmptyBytes
      <4>2. ByteCrc({q}) = {p}
        BY <1>1, <3>1, <4>1
      <4> QED BY <4>2, NoPair
    <3> QED BY <3>1, <3>2, <3>3
  <2>4. CASE m # 0 /\ n = 0
    <3>1. z = {q} /\ ((x = {p} /\ y = {}) \/ (x = {} /\ y = {p}))
      BY <1>6, <1>7, <2>4
    <3>2. CASE x = {p} /\ y = {}
      <4>1. SymDiff(ByteCrc(x), y) = ByteCrc({p})
        BY <3>2, EmptyBytes
      <4>2. ByteCrc(ByteCrc({p})) = {q}
        BY <1>1, <3>1, <4>1
      <4> QED BY <4>2, NoPair
    <3>3. CASE x = {} /\ y = {p}
      <4>1. SymDiff(ByteCrc(x), y) = {p}
        BY <3>3, EmptyBytes
      <4>2. ByteCrc({p}) = {q}
        BY <1>1, <3>1, <4>1
      <4> QED BY <4>2, NoPair
    <3> QED BY <3>1, <3>2, <3>3
  <2> QED BY <2>1, <2>2, <2>3, <2>4
<1> QED BY <1>9, <1>10

LEMMA ErrorIsSeen ==
  ASSUME NEW w, NEW e \in Errors, Valid(w), Valid(SymDiff(w, e))
  PROVE  Value(SymDiff(w, e)) = Value(w)
<1>1. Byte(e, 2) = {} /\ Byte(e, 1) = {}
  BY BurstIsSeen, PairIsSeen DEF Errors
<1>2. \A n \in {1, 2} : Byte(SymDiff(w, e), n) = SymDiff(Byte(w, n), Byte(e, n))
  BY BytesOfSymDiff
<1> QED BY <1>1, <1>2, EmptyBytes DEF Value

(* The sensor's words are valid, and what came in of each is the word or    *)
(* differs from it by one error.                                            *)
Sht30Inv ==
  /\ measured \in [1..2 -> SUBSET Wires] /\ buffer \in [1..2 -> SUBSET Wires]
  /\ thAt # "idle" =>
       \A i \in 1..2 :
         /\ Valid(measured[i])
         /\ \/ buffer[i] = measured[i]
            \/ \E e \in Errors : buffer[i] = SymDiff(measured[i], e)
  /\ ReadingIsMeasured

LEMMA ErrorsOnWires == \A e \in Errors : e \subseteq Wires
<1>1. ASSUME NEW e \in Bursts PROVE e \subseteq Wires
  BY DEF Bursts, Bits, Wires
<1> QED BY <1>1 DEF Errors

LEMMA Sht30NextInv ==
  Sht30Inv /\ [Sht30Next]_thVars => Sht30Inv'
<1> SUFFICES ASSUME Sht30Inv, [Sht30Next]_thVars PROVE Sht30Inv'
  OBVIOUS
<1>1. CASE Measure
  <2>1. PICK h \in Bytes, l \in Bytes : measured' = <<Word(h, l), Word(l, h)>>
    BY <1>1 DEF Measure
  <2>2. h \subseteq Bits /\ l \subseteq Bits
    BY Sht30Assumption
  <2>3. /\ Valid(Word(h, l)) /\ Valid(Word(l, h))
        /\ Word(h, l) \subseteq Wires /\ Word(l, h) \subseteq Wires
    BY <2>2, WordIsValid DEF Word
  <2>4. /\ buffer' = measured' /\ thAt' = "measured"
        /\ measured' \in [1..2 -> SUBSET Wires]
        /\ \A i \in 1..2 : Valid(measured'[i])
    BY <1>1, <2>1, <2>3 DEF Measure
  <2> QED BY <2>4 DEF Sht30Inv, ReadingIsMeasured
<1>2. CASE Disturbed
  <2>1. PICK i \in 1..2, e \in Errors :
          buffer' = [buffer EXCEPT ![i] = SymDiff(@, e)]
    BY <1>2 DEF Disturbed
  <2>2. /\ buffer = measured /\ measured' = measured
        /\ thAt = "measured" /\ thAt' = "measured"
    BY <1>2 DEF Disturbed
  <2>3. SymDiff(buffer[i], e) \subseteq Wires
    BY <2>1, ErrorsOnWires DEF Sht30Inv, SymDiff
  <2>4. /\ buffer' \in [1..2 -> SUBSET Wires]
        /\ \A k \in 1..2 : buffer'[k] = IF k = i THEN SymDiff(measured[k], e)
                                        ELSE measured[k]
    BY <2>1, <2>2, <2>3 DEF Sht30Inv
  <2> QED BY <2>2, <2>4 DEF Sht30Inv, ReadingIsMeasured
<1>3. CASE ReadFails
  BY <1>3 DEF ReadFails, Sht30Inv, ReadingIsMeasured
<1>4. CASE ReadWords
  <2>1. ASSUME NEW i \in 1..2, Valid(buffer[i])
        PROVE  Value(buffer[i]) = Value(measured[i])
    BY <1>4, <2>1, ErrorIsSeen DEF Sht30Inv, ReadWords
  <2>2. reading' # << >> => reading' = <<Value(measured[1]), Value(measured[2])>>
    BY <1>4, <2>1 DEF ReadWords
  <2> QED BY <1>4, <2>2 DEF ReadWords, Sht30Inv, ReadingIsMeasured
<1>5. CASE UNCHANGED thVars
  BY <1>5 DEF thVars, Sht30Inv, ReadingIsMeasured
<1> QED BY <1>1, <1>2, <1>3, <1>4, <1>5 DEF Sht30Next

(* A reading is what the sensor measured, whatever it measured: neither a   *)
(* burst of eight bits nor any two wrong bits of a word pass its checksum   *)
(* (C_TH_SHT30.cpp:31-89).                                                  *)
THEOREM ReadingsAreTrue == Sht30Spec => []ReadingIsMeasured
<1>1. Sht30Init => Sht30Inv
  <2>1. {} \subseteq Wires /\ <<{}, {}>> \in [1..2 -> SUBSET Wires]
    OBVIOUS
  <2> QED BY <2>1 DEF Sht30Init, Sht30Inv, ReadingIsMeasured
<1>2. Sht30Inv => ReadingIsMeasured
  BY DEF Sht30Inv
<1> QED BY <1>1, <1>2, Sht30NextInv, PTL DEF Sht30Spec
=============================================================================
