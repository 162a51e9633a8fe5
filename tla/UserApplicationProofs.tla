----------------------- MODULE UserApplicationProofs -----------------------
(***************************************************************************)
(* What holds of the closed loop for every encoder, ring, host and         *)
(* environment: its types, and that the motor is off when the state        *)
(* machine is READY.  And, for a host that waits and a rotor that only the *)
(* motor turns: that no command waits in vain, that the motor takes the    *)
(* direct way, that replies are truthful, and that the loop implements     *)
(* PositioningService.                                                     *)
(***************************************************************************)
EXTENDS UserApplication, TLAPS

\* What \div and % return.
LEMMA DivNat == ASSUME NEW a \in Nat, NEW b \in Nat, b > 0 PROVE a \div b \in Nat
  BY SMT

LEMMA ModRange == ASSUME NEW a \in Int, NEW b \in Nat, b > 0 PROVE a % b \in 0 .. b - 1
  BY SMT

-----------------------------------------------------------------------------
(* The encoder driver. *)

LEMMA RIsHere == Enc!R = R
  BY DEF Enc!R, R

LEMMA TurnedType ==
    ASSUME NEW q \in Enc!Quarters, NEW d \in {Enc!Anticlockwise, Enc!Clockwise}
    PROVE  Enc!Turned(q, d) \in Enc!Quarters
<1>1. q + d + 4 * R \in Int /\ 4 * R \in Nat /\ 4 * R > 0
  BY SizesAssumption, RIsHere DEF Enc!Quarters, Enc!Anticlockwise, Enc!Clockwise
<1> QED
  BY <1>1, ModRange, RIsHere DEF Enc!Turned, Enc!Quarters

LEMMA CountedType ==
    ASSUME NEW e \in Enc!EncoderStates, NEW p \in Enc!Positions
    PROVE  Enc!Counted(e, p) \in Enc!EncoderStates
  BY DEF Enc!Counted, Enc!EncoderStates

LEMMA StepsType ==
    ASSUME NEW e \in Enc!EncoderStates
    PROVE  /\ Enc!Increment(e.position) \in Enc!Positions
           /\ Enc!Decrement(e.position) \in Enc!Positions
  BY SizesAssumption, RIsHere
     DEF Enc!Increment, Enc!Decrement, Enc!Positions, Enc!EncoderStates

LEMMA PinTypes ==
    ASSUME NEW e \in Enc!EncoderStates, NEW high
    PROVE  /\ Enc!AnticlockwisePin(e, high) \in Enc!EncoderStates
           /\ Enc!ClockwisePin(e, high) \in Enc!EncoderStates
           /\ Enc!HomePin(e) \in Enc!EncoderStates
           /\ Enc!StepNotified(e) \in Enc!EncoderStates
<1> DEFINE up == Enc!Counted(e, Enc!Increment(e.position))
           down == Enc!Counted(e, Enc!Decrement(e.position))
<1>1. up \in Enc!EncoderStates /\ down \in Enc!EncoderStates
  BY StepsType, CountedType
<1>2. ASSUME NEW f \in Enc!EncoderStates, NEW b \in BOOLEAN
      PROVE  /\ [f EXCEPT !.acwFailed = b] \in Enc!EncoderStates
             /\ [f EXCEPT !.cwFailed = b] \in Enc!EncoderStates
             /\ [f EXCEPT !.notify = b] \in Enc!EncoderStates
  BY DEF Enc!EncoderStates
<1> HIDE DEF up, down
<1>3. Enc!AnticlockwisePin(e, high) \in Enc!EncoderStates
  <2>1. (IF e.cwFailed THEN down ELSE e) \in Enc!EncoderStates
    BY <1>1
  <2>2. [(IF e.cwFailed THEN down ELSE e) EXCEPT !.cwFailed = TRUE] \in Enc!EncoderStates
    BY <2>1, <1>2
  <2>3. [up EXCEPT !.acwFailed = FALSE] \in Enc!EncoderStates
    BY <1>1, <1>2
  <2> QED
    BY <2>2, <2>3 DEF Enc!AnticlockwisePin, up, down
<1>4. Enc!ClockwisePin(e, high) \in Enc!EncoderStates
  <2>1. (IF e.acwFailed THEN up ELSE e) \in Enc!EncoderStates
    BY <1>1
  <2>2. [(IF e.acwFailed THEN up ELSE e) EXCEPT !.acwFailed = TRUE] \in Enc!EncoderStates
    BY <2>1, <1>2
  <2>3. [down EXCEPT !.cwFailed = FALSE] \in Enc!EncoderStates
    BY <1>1, <1>2
  <2> QED
    BY <2>2, <2>3 DEF Enc!ClockwisePin, up, down
<1>5. Enc!HomePin(e) \in Enc!EncoderStates
  <2>1. 0 \in Enc!Positions
    BY SizesAssumption, RIsHere DEF Enc!Positions
  <2> QED
    BY <2>1 DEF Enc!HomePin, Enc!EncoderStates
<1>6. Enc!StepNotified(e) \in Enc!EncoderStates
  <2>1. (e.notify /\ ~Enc!NotifiesStep(e)) \in BOOLEAN
    OBVIOUS
  <2> QED
    BY <2>1, <1>2 DEF Enc!StepNotified
<1> QED
  BY <1>3, <1>4, <1>5, <1>6

Calls == Seq({"step", "home"})

LEMMA CallTypes ==
    ASSUME NEW e \in Enc!EncoderStates, NEW c \in Calls
    PROVE  Enc!StepCall(e, c) \in Calls /\ Enc!HomeCall(e, c) \in Calls
  BY DEF Enc!StepCall, Enc!HomeCall, Calls

LEMMA ServeType ==
    ASSUME NEW pins, NEW e \in Enc!EncoderStates, NEW q
    PROVE  /\ Enc!Serve(pins, e, q).encoder \in Enc!EncoderStates
           /\ Enc!Serve(pins, e, q).calls \in Calls
<1> DEFINE
    a == IF "A" \in pins THEN Enc!AnticlockwisePin(e, Enc!BHigh(q)) ELSE e
    ca == IF "A" \in pins THEN Enc!StepCall(a, <<>>) ELSE <<>>
    na == IF "A" \in pins THEN Enc!StepNotified(a) ELSE a
    z == IF "Z" \in pins THEN Enc!HomePin(na) ELSE na
    cz == IF "Z" \in pins THEN Enc!HomeCall(z, ca) ELSE ca
    b == IF "B" \in pins THEN Enc!ClockwisePin(z, Enc!AHigh(q)) ELSE z
    cb == IF "B" \in pins THEN Enc!StepCall(b, cz) ELSE cz
    nb == IF "B" \in pins THEN Enc!StepNotified(b) ELSE b
<1>0. <<>> \in Calls
  BY DEF Calls
<1>1. a \in Enc!EncoderStates
  BY PinTypes
<1>2. ca \in Calls
  <2> HIDE DEF a
  <2> QED BY <1>0, <1>1, CallTypes
<1>3. na \in Enc!EncoderStates
  <2> HIDE DEF a
  <2> QED BY <1>1, PinTypes
<1>4. z \in Enc!EncoderStates
  <2> HIDE DEF na
  <2> QED BY <1>3, PinTypes
<1>5. cz \in Calls
  <2> HIDE DEF z, ca
  <2> QED BY <1>2, <1>4, CallTypes
<1>6. b \in Enc!EncoderStates
  <2> HIDE DEF z
  <2> QED BY <1>4, PinTypes
<1>7. cb \in Calls
  <2> HIDE DEF b, cz
  <2> QED BY <1>5, <1>6, CallTypes
<1>8. nb \in Enc!EncoderStates
  <2> HIDE DEF b
  <2> QED BY <1>6, PinTypes
<1>9. Enc!Serve(pins, e, q) = [encoder |-> nb, calls |-> cb]
  BY DEF Enc!Serve
<1> HIDE DEF nb, cb
<1> QED
  BY <1>7, <1>8, <1>9

-----------------------------------------------------------------------------
(* The ring. *)

MAX == SCHEDULER_MAX_QUEUE_SIZE

Rings == {q \in Seq(Events) : Len(q) <= MAX}

LEMMA PutAllType ==
    ASSUME NEW q \in Rings, NEW es \in Seq(Events)
    PROVE  /\ PutAll(q, es) \in Rings
           /\ q # <<>> => PutAll(q, es) # <<>>
<1> DEFINE all == q \o es
<1>1. /\ q \in Seq(Events) /\ Len(q) \in Nat /\ Len(q) <= MAX /\ Len(es) \in Nat
      /\ MAX \in Nat /\ MAX >= 2
  BY SizesAssumption DEF Rings, MAX
<1>2. all \in Seq(Events) /\ Len(all) = Len(q) + Len(es)
  BY <1>1
<1> HIDE DEF all
<1>3. CASE Len(all) <= MAX
  <2>1. PutAll(q, es) = all
    BY <1>3 DEF PutAll, all, MAX
  <2>2. q # <<>> => Len(q) > 0
    BY <1>1
  <2>3. q # <<>> => all # <<>>
    BY <1>1, <1>2, <2>2
  <2> QED
    BY <1>2, <1>3, <2>1, <2>3 DEF Rings
<1>4. CASE Len(all) > MAX
  <2> DEFINE part == SubSeq(all, 1, MAX)
  <2>1. PutAll(q, es) = part
    BY <1>1, <1>2, <1>4 DEF PutAll, all, MAX
  <2>2. part \in Seq(Events) /\ Len(part) = MAX
    BY <1>1, <1>2, <1>4
  <2> HIDE DEF part
  <2>3. part # <<>>
    BY <1>1, <2>2
  <2> QED
    BY <2>1, <2>2, <2>3, <1>1 DEF Rings
<1> QED
  BY <1>1, <1>2, <1>3, <1>4

LEMMA EventTypes ==
    /\ \A t \in {"INTERNAL", "STEP", "HOME", "CORRUPTED"} : Event(t, 0) \in Events
    /\ \A t \in {"PACKET", "CMD"}, c \in Commands : Event(t, c) \in Events
  BY DEF Events

LEMMA CommandOfEvent ==
    ASSUME NEW e \in Events, e.type \in {"PACKET", "CMD"}
    PROVE  e.command \in Commands
  BY DEF Events, Event

LEMMA PutType ==
    ASSUME queue \in Rings, NEW e \in Events, Put(e)
    PROVE  queue' \in Rings /\ queue' # <<>>
<1>1. <<e>> \in Seq(Events)
  OBVIOUS
<1>2. queue' \in Rings /\ (queue # <<>> => queue' # <<>>)
  BY <1>1, PutAllType DEF Put
<1>3. CASE queue = <<>>
  <2>1. queue \o <<e>> = <<e>> /\ Len(<<e>>) <= MAX
    BY <1>3, SizesAssumption DEF MAX
  <2>2. queue' = <<e>>
    BY <2>1 DEF Put, PutAll, MAX
  <2> QED
    BY <1>2, <2>2
<1> QED
  BY <1>2, <1>3

\* The encoder's interrupt posts an event for each call.
LEMMA MoveType ==
    ASSUME TypeOK, NEW d \in {Enc!Anticlockwise, Enc!Clockwise}, Move(d)
    PROVE  /\ rotor' \in Enc!Quarters
           /\ encoder' \in Enc!EncoderStates
           /\ queue' \in Rings
           /\ queue # <<>> => queue' # <<>>
<1> DEFINE s == Enc!Serve(Enc!Rising(rotor, rotor'), encoder, rotor')
           posts == [i \in DOMAIN s.calls |-> EncoderEvent(s.calls[i])]
<1>1. rotor' \in Enc!Quarters
  BY TurnedType DEF TypeOK, Move
<1>2. s.encoder \in Enc!EncoderStates /\ s.calls \in Calls
  BY ServeType DEF TypeOK
<1>3. encoder' = s.encoder /\ queue' = PutAll(queue, posts)
  BY DEF Move
<1> HIDE DEF s
<1>4. \A call : EncoderEvent(call) \in Events
  BY EventTypes DEF EncoderEvent
<1>5. posts \in Seq(Events)
  <2>1. s.calls \in Seq({"step", "home"})
    BY <1>2 DEF Calls
  <2>2. Len(s.calls) \in Nat /\ DOMAIN s.calls = 1 .. Len(s.calls)
    BY <2>1
  <2> QED
    BY <1>4, <2>2
<1>6. queue \in Rings
  BY DEF TypeOK, Rings, MAX
<1> HIDE DEF posts
<1> QED
  BY <1>1, <1>2, <1>3, <1>5, <1>6, PutAllType

-----------------------------------------------------------------------------
(* The type invariant, and with it that the motor is off when the state    *)
(* machine is READY: it is stopped before the response that makes it so.   *)

Off ==
    /\ state = "READY" => ~motor.on
    /\ pc = "respond" => ~motor.on

IInv == TypeOK /\ Off

Motors == [on : BOOLEAN, dir : {Enc!Anticlockwise, Enc!Clockwise}]

LEMMA InitTypes ==
    /\ Enc!InitEncoder \in Enc!EncoderStates
    /\ MotorOff \in Motors
    /\ MotorOff.on = FALSE
    /\ NoParams \in [requested : 0 .. UINT8 - 1, ok : BOOLEAN]
    /\ 0 \in 0 .. R - 1
<1>1. 0 \in Enc!Positions /\ 0 \in 0 .. UINT8 - 1 /\ 0 \in 0 .. R - 1
  BY SizesAssumption, RIsHere DEF Enc!Positions
<1> QED
  BY <1>1 DEF Enc!InitEncoder, Enc!EncoderStates, MotorOff, Motors, NoParams

LEMMA IInvInit == Init => IInv
<1> SUFFICES ASSUME Init PROVE IInv
  OBVIOUS
<1>1. /\ encoder \in Enc!EncoderStates /\ motor \in Motors /\ ~motor.on
      /\ params \in [requested : 0 .. UINT8 - 1, ok : BOOLEAN]
      /\ current \in 0 .. R - 1
  BY InitTypes DEF Init
<1>2. queue \in Seq(Events) /\ Len(queue) <= SCHEDULER_MAX_QUEUE_SIZE
  BY SizesAssumption DEF Init
<1>3. reply \in [ok : BOOLEAN, angle : Nat]
  BY DEF Init
<1> QED
  BY <1>1, <1>2, <1>3, BoundsAssumption DEF Init, IInv, Off, TypeOK, Motors

LEMMA DriveType ==
    ASSUME TypeOK
    PROVE  /\ \A d \in {Enc!Anticlockwise, Enc!Clockwise} : Drive(d) => motor' \in Motors
           /\ DriveStop => motor' \in Motors /\ ~motor'.on
<1>1. ASSUME NEW d \in {Enc!Anticlockwise, Enc!Clockwise}, Drive(d) PROVE motor' \in Motors
  BY <1>1 DEF Drive, Motors
<1>2. ASSUME DriveStop PROVE motor' \in Motors /\ ~motor'.on
  <2>1. motor \in Motors /\ motor' = [motor EXCEPT !.on = FALSE]
    BY <1>2 DEF TypeOK, DriveStop, Motors
  <2>2. \A m \in Motors : [m EXCEPT !.on = FALSE] \in Motors /\ ~[m EXCEPT !.on = FALSE].on
    BY DEF Motors
  <2> QED
    BY <2>1, <2>2
<1> QED
  BY <1>1, <1>2

LEMMA AngleTypes ==
    /\ \A c \in Commands : c # Unknown => ToPosition(c) \in 0 .. UINT8 - 1
    /\ \A n \in Nat : ToAngle(n) \in Nat
<1>1. ASSUME NEW c \in Commands, c # Unknown PROVE ToPosition(c) \in 0 .. UINT8 - 1
  <2>1. c * R \in Nat /\ FULL_TURN \in Nat /\ FULL_TURN > 0 /\ UINT8 \in Nat /\ UINT8 > 0
    BY <1>1, SizesAssumption, CommandsAssumption
  <2>2. (c * R) \div FULL_TURN \in Nat
    BY <2>1, DivNat
  <2> QED
    BY <2>1, <2>2, ModRange DEF ToPosition
<1>2. ASSUME NEW n \in Nat PROVE ToAngle(n) \in Nat
  <2>1. n * FULL_TURN \in Nat /\ R \in Nat /\ R > 0
    BY SizesAssumption
  <2> QED
    BY <2>1, DivNat DEF ToAngle
<1> QED
  BY <1>1, <1>2

\* The steps of the main thread, one lemma for those of the scheduler and the
\* packet handler ...
LEMMA SchedulerSteps ==
    ASSUME IInv, InitDrivers \/ PostFirst \/ Execute \/ Return \/ ProcessPacket
                   \/ DropPacket \/ IgnoreEvent
    PROVE  IInv'
<1> USE DEF IInv
<1>0. queue \in Rings
  BY DEF TypeOK, Rings, MAX
<1>1. CASE InitDrivers
  <2>1. encoder' \in Enc!EncoderStates
    <3>1. \A e \in Enc!EncoderStates :
              [e EXCEPT !.registered = TRUE, !.handling = IMMEDIATE] \in Enc!EncoderStates
      BY DEF Enc!EncoderStates
    <3> QED
      BY <1>1, <3>1 DEF InitDrivers, TypeOK
  <2>2. motor' \in Motors /\ ~motor'.on
    BY <1>1, InitTypes DEF InitDrivers
  <2> QED
    BY <1>1, <2>1, <2>2 DEF InitDrivers, TypeOK, Off, Motors, app, host
<1>2. CASE PostFirst
  <2>1. Internal \in Events
    BY EventTypes DEF Internal
  <2>2. queue' \in Seq(Events) /\ Len(queue') <= SCHEDULER_MAX_QUEUE_SIZE
    BY <1>2, <2>1, SizesAssumption DEF PostFirst
  <2> QED
    BY <1>2, <2>2 DEF PostFirst, TypeOK, Off, app, plant, host
<1>3. CASE Execute
  BY <1>3 DEF Execute, TypeOK, Off, app, plant, host
<1>4. CASE Return
  <2>1. queue # <<>>
    BY <1>4 DEF Return, TypeOK
  <2>2. Tail(queue) \in Seq(Events) /\ Len(Tail(queue)) = Len(queue) - 1 /\ Len(queue) \in Nat
    BY <2>1 DEF TypeOK
  <2>3. queue' \in Seq(Events) /\ Len(queue') <= SCHEDULER_MAX_QUEUE_SIZE
    BY <1>4, <2>2, SizesAssumption DEF Return, TypeOK
  <2> QED
    BY <1>4, <2>3 DEF Return, TypeOK, Off, app, plant, host
<1>5. CASE ProcessPacket
  <2>1. Head(queue) \in Events /\ Head(queue).type = "PACKET"
    BY <1>5 DEF ProcessPacket, Handling, TypeOK
  <2>2. Event("CMD", Head(queue).command) \in Events
    BY <2>1, CommandOfEvent, EventTypes
  <2>3. queue' \in Rings /\ queue' # <<>>
    BY <1>0, <1>5, <2>2, PutType DEF ProcessPacket
  <2> QED
    BY <1>5, <2>3 DEF ProcessPacket, TypeOK, Off, Rings, MAX, app, plant, host
<1>6. CASE DropPacket \/ IgnoreEvent
  <2>1. /\ UNCHANGED <<app, plant, host, motor, queue>> /\ pc' = "return" /\ pc = "handler"
    BY <1>6 DEF DropPacket, IgnoreEvent, Ignored, Handling
  <2> QED
    BY <2>1 DEF TypeOK, Off, app, plant, host
<1> QED
  BY <1>1, <1>2, <1>3, <1>4, <1>5, <1>6

\* ... and one for those of the state machine.
LEMMA StateMachineSteps ==
    ASSUME IInv, StartCalibration \/ EndCalibration \/ AcceptCommand \/ DecideDirection
                   \/ CheckPosition \/ StopMotor \/ Respond
    PROVE  IInv'
<1> USE DEF IInv
<1>0. queue \in Rings /\ (pc \notin {"boot", "init", "idle"} => queue # <<>>)
  BY DEF TypeOK, Rings, MAX
<1>1. Internal \in Events
  BY EventTypes DEF Internal
<1>2. CASE StartCalibration
  <2>1. motor' \in Motors
    BY <1>2, DriveType DEF StartCalibration
  <2>2. state' = "CALIBRATION" /\ pc' = "return"
    BY <1>2 DEF StartCalibration, app
  <2> QED
    BY <1>2, <2>1, <2>2 DEF StartCalibration, Handling, TypeOK, Off, Motors, app, plant, host
<1>3. CASE EndCalibration
  <2>1. motor' \in Motors /\ ~motor'.on
    BY <1>3, DriveType DEF EndCalibration
  <2> QED
    BY <1>3, <2>1 DEF EndCalibration, Handling, TypeOK, Off, Motors, plant, host
<1>4. CASE AcceptCommand
  <2> DEFINE position == ToPosition(Head(queue).command)
  <2>1. Head(queue) \in Events /\ Head(queue).type = "CMD"
    BY <1>4 DEF AcceptCommand, Handling, TypeOK
  <2>2. position \in 0 .. UINT8 - 1
    BY <1>4, <2>1, CommandOfEvent, AngleTypes DEF AcceptCommand
  <2>3. params' = [requested |-> position, ok |-> IsValid(position)]
    BY <1>4 DEF AcceptCommand
  <2>4. IsValid(position) \in BOOLEAN
    BY DEF IsValid
  <2> HIDE DEF position
  <2>5. params' \in [requested : 0 .. UINT8 - 1, ok : BOOLEAN]
    BY <2>2, <2>3, <2>4
  <2>6. /\ current' \in 0 .. R - 1 /\ queue' \in Rings /\ queue' # <<>>
        /\ pc' \in {"decide", "return"}
        /\ state' \in {"READY", "EXECUTION"}
    <3>1. encoder.position \in 0 .. R - 1
      BY RIsHere DEF TypeOK, Enc!EncoderStates, Enc!Positions
    <3>2. CASE IsValid(position)
      BY <1>0, <1>4, <3>1, <3>2 DEF AcceptCommand, Handling, position
    <3>3. CASE ~IsValid(position)
      <4>1. Put(Internal) /\ pc' = "return" /\ state' = "EXECUTION" /\ current' = current
        BY <1>4, <3>3 DEF AcceptCommand, position
      <4> QED
        BY <1>0, <1>1, <4>1, PutType DEF TypeOK
    <3> QED
      BY <3>2, <3>3
  <2>7. /\ UNCHANGED <<encoder, rotor, slack, nudges, resets, host, motor>>
        /\ travel' = 0 /\ state = "READY"
    BY <1>4 DEF AcceptCommand
  <2> QED
    BY <2>5, <2>6, <2>7 DEF TypeOK, Off, Rings, MAX, host
<1>5. CASE DecideDirection
  <2>1. motor' \in Motors
    BY <1>5, DriveType DEF DecideDirection, TypeOK, Motors
  <2>2. queue' \in Rings /\ queue' # <<>>
    BY <1>0, <1>1, <1>5, PutType DEF DecideDirection
  <2>3. state' = "EXECUTION" /\ pc' = "return" /\ UNCHANGED <<params, current, plant, host>>
    BY <1>5 DEF DecideDirection
  <2> QED
    BY <2>1, <2>2, <2>3 DEF TypeOK, Off, Motors, Rings, MAX, plant, host
<1>6. CASE CheckPosition
  <2>1. current' \in 0 .. R - 1
    BY <1>6, RIsHere DEF CheckPosition, TypeOK, Enc!EncoderStates, Enc!Positions
  <2>2. /\ pc' \in {"stop", "return"} /\ pc = "handler"
        /\ UNCHANGED <<state, params, plant, host, motor, queue>>
    BY <1>6 DEF CheckPosition, Handling
  <2> QED
    BY <2>1, <2>2 DEF TypeOK, Off, plant, host
<1>7. CASE StopMotor
  <2>1. motor' \in Motors /\ ~motor'.on
    BY <1>7, DriveType DEF StopMotor
  <2> QED
    BY <1>7, <2>1 DEF StopMotor, TypeOK, Off, Motors, app, plant, host
<1>8. CASE Respond
  <2>1. params.requested \in Nat /\ params.ok \in BOOLEAN
    BY SizesAssumption DEF TypeOK
  <2>2. reply' \in [ok : BOOLEAN, angle : Nat]
    BY <1>8, <2>1, AngleTypes DEF Respond
  <2>3. /\ asked' = Nobody /\ state' = "READY" /\ pc' = "return" /\ pc = "respond"
        /\ UNCHANGED <<params, current, plant, motor, queue>>
    BY <1>8 DEF Respond
  <2> QED
    BY <2>2, <2>3 DEF TypeOK, Off, plant
<1> QED
  BY <1>2, <1>3, <1>4, <1>5, <1>6, <1>7, <1>8

\* The steps of rotor, host and reset.
LEMMA EnvironmentSteps ==
    ASSUME IInv,
           \/ MotorTurns
           \/ \E d \in {Enc!Anticlockwise, Enc!Clockwise} : Nudge(d)
           \/ \E c \in Commands : HostSend(c)
           \/ HostGivesUp
           \/ Reset
    PROVE  IInv'
<1> USE DEF IInv
<1>0. queue \in Rings /\ (pc \notin {"boot", "init", "idle"} => queue # <<>>)
  BY DEF TypeOK, Rings, MAX
<1>1. CASE MotorTurns
  <2>1. motor.dir \in {Enc!Anticlockwise, Enc!Clockwise} /\ Move(motor.dir)
    BY <1>1 DEF MotorTurns, TypeOK
  <2>2. /\ rotor' \in Enc!Quarters /\ encoder' \in Enc!EncoderStates
        /\ queue' \in Rings /\ (queue # <<>> => queue' # <<>>)
    BY <2>1, MoveType
  <2>3. slack' \in 0 .. Slack /\ travel' \in Nat
    BY <1>1, BoundsAssumption DEF MotorTurns, TypeOK
  <2>4. UNCHANGED <<app, host, motor, pc, nudges, resets>>
    BY <1>1 DEF MotorTurns
  <2> QED
    BY <2>2, <2>3, <2>4 DEF TypeOK, Off, Rings, MAX, app, host
<1>2. ASSUME NEW d \in {Enc!Anticlockwise, Enc!Clockwise}, Nudge(d) PROVE IInv'
  <2>1. /\ rotor' \in Enc!Quarters /\ encoder' \in Enc!EncoderStates
        /\ queue' \in Rings /\ (queue # <<>> => queue' # <<>>)
    <3>1. CASE Move(d)
      BY <3>1, MoveType
    <3>2. CASE rotor' = Enc!Turned(rotor, d) /\ UNCHANGED <<encoder, queue>>
      BY <1>0, <3>2, TurnedType DEF TypeOK
    <3> QED
      BY <1>2, <3>1, <3>2 DEF Nudge
  <2>2. nudges' \in 0 .. Nudges
    BY <1>2, BoundsAssumption DEF Nudge, TypeOK
  <2>3. UNCHANGED <<app, host, motor, pc, slack, resets, travel>>
    BY <1>2 DEF Nudge
  <2> QED
    BY <2>1, <2>2, <2>3 DEF TypeOK, Off, Rings, MAX, app, host
<1>3. ASSUME NEW c \in Commands, HostSend(c) PROVE IInv'
  <2>1. queue' \in Rings /\ queue' # <<>>
    BY <1>0, <1>3, EventTypes, PutType DEF HostSend
  <2>2. asked' \in Commands \cup {Nobody} /\ UNCHANGED <<app, plant, motor, pc, reply>>
    BY <1>3 DEF HostSend
  <2> QED
    BY <2>1, <2>2 DEF TypeOK, Off, Rings, MAX, app, plant
<1>4. CASE HostGivesUp
  BY <1>4 DEF HostGivesUp, TypeOK, Off, app, plant
<1>5. CASE Reset
  <2>1. /\ encoder' \in Enc!EncoderStates /\ motor' \in Motors /\ ~motor'.on
        /\ params' \in [requested : 0 .. UINT8 - 1, ok : BOOLEAN]
        /\ current' \in 0 .. R - 1
    BY <1>5, InitTypes DEF Reset
  <2>2. /\ queue' \in Seq(Events) /\ Len(queue') <= SCHEDULER_MAX_QUEUE_SIZE
        /\ resets' \in 0 .. Resets /\ slack' \in 0 .. Slack /\ travel' \in Nat
    BY <1>5, SizesAssumption, BoundsAssumption DEF Reset, TypeOK
  <2>3. /\ pc' = "boot" /\ state' = "CALIBRATION" /\ asked' = Nobody
        /\ UNCHANGED <<rotor, nudges, reply>>
    BY <1>5 DEF Reset
  <2> QED
    BY <2>1, <2>2, <2>3 DEF TypeOK, Off, Motors
<1> QED
  BY <1>1, <1>2, <1>3, <1>4, <1>5

LEMMA IInvStep == IInv /\ [Next]_vars => IInv'
<1> SUFFICES ASSUME IInv, [Next]_vars PROVE IInv'
  OBVIOUS
<1>1. CASE MainThread
  BY <1>1, SchedulerSteps, StateMachineSteps DEF MainThread
<1>2. CASE Next /\ ~MainThread
  BY <1>2, EnvironmentSteps DEF Next
<1>3. CASE UNCHANGED vars
  BY <1>3 DEF vars, IInv, TypeOK, Off
<1> QED
  BY <1>1, <1>2, <1>3

LEMMA IInvHolds == Spec => []IInv
<1> QED
  BY IInvInit, IInvStep, PTL DEF Spec

\* The state machine, the ring, the encoder driver's variables and the motor keep
\* their types, for every resolution, size of the ring, host and environment.
THEOREM TypeCorrect == Spec => []TypeOK
<1>1. IInv => TypeOK
  BY DEF IInv
<1> QED
  BY <1>1, IInvHolds, PTL

\* Whatever host, line, hand and resets do, the motor is off in READY, where
\* nothing would stop it.
THEOREM MotorHalts == Spec => []Halts
<1>1. IInv => Halts
  BY DEF IInv, Off, Halts
<1> QED
  BY <1>1, IInvHolds, PTL

-----------------------------------------------------------------------------
(* A waiting host and a rotor that nobody turns by hand: a command comes   *)
(* when the motor is off and no encoder event can come after it, so that   *)
(* it is alone in the ring when the state machine takes it.                *)

HostTypes == {"PACKET", "CORRUPTED", "CMD"}

\* A packet is the last event in the ring, but for its own command.
PacketLast ==
    \A i \in DOMAIN queue : queue[i].type \in HostTypes =>
        \/ i = Len(queue)
        \/ pc = "return" /\ i = 1 /\ Len(queue) = 2 /\ queue[2].type \in HostTypes

\* Nothing of the host is in the ring, but for the command being handled.
NoPacket ==
    \A i \in DOMAIN queue : queue[i].type \in HostTypes => i = 1 /\ pc = "return"

\* The position is the one asked for, or no position, and the internal event that
\* will find it so is on its way.
Pending ==
    /\ params.requested = encoder.position \/ ~params.ok
    /\ IF pc = "return" THEN Len(queue) = 2 /\ queue[2].type = "INTERNAL"
                        ELSE Len(queue) = 1 /\ queue[1].type = "INTERNAL"

Expected ==
    /\ pc \in {"boot", "init"} => state = "CALIBRATION" /\ ~motor.on
    /\ pc = "decide" => /\ state = "READY" /\ Len(queue) = 1 /\ params.ok
                        /\ queue[1].type \in HostTypes /\ current = encoder.position
    /\ pc \in {"stop", "respond"} => state = "EXECUTION"
    /\ pc = "stop" => params.requested = current \/ ~params.ok
    /\ state = "CALIBRATION" => ~HostEventWaiting
    /\ state = "READY" => PacketLast
    /\ state = "EXECUTION" => NoPacket
    /\ state = "EXECUTION" /\ ~motor.on /\ pc # "respond" => Pending

WaitInv == IInv /\ Expected

\* What fits is appended, and what is appended comes last.
LEMMA PutAllAppends ==
    ASSUME NEW q \in Rings, NEW es \in Seq(Events)
    PROVE  LET p == PutAll(q, es) IN
           /\ p \in Seq(Events) /\ Len(p) \in Nat /\ Len(p) >= Len(q)
           /\ \A i \in 1 .. Len(q) : p[i] = q[i]
           /\ \A i \in 1 .. Len(p) : i > Len(q) => \E j \in 1 .. Len(es) : p[i] = es[j]
           /\ Len(q) + Len(es) <= MAX => Len(p) = Len(q) + Len(es)
<1> DEFINE all == q \o es
           p == PutAll(q, es)
<1>1. /\ q \in Seq(Events) /\ Len(q) \in Nat /\ Len(q) <= MAX /\ Len(es) \in Nat
      /\ MAX \in Nat /\ MAX >= 2
  BY SizesAssumption DEF Rings, MAX
<1>2. all \in Seq(Events) /\ Len(all) = Len(q) + Len(es)
  BY <1>1
<1>3. /\ \A i \in 1 .. Len(q) : all[i] = q[i]
      /\ \A i \in 1 .. Len(all) : i > Len(q) =>
             i - Len(q) \in 1 .. Len(es) /\ all[i] = es[i - Len(q)]
  BY <1>1, <1>2
<1>4. /\ p \in Seq(Events) /\ Len(p) \in Nat /\ Len(p) >= Len(q) /\ Len(p) <= Len(all)
      /\ \A i \in 1 .. Len(p) : p[i] = all[i]
      /\ Len(all) <= MAX => Len(p) = Len(all)
  <2> HIDE DEF all
  <2>1. CASE Len(all) <= MAX
    <3>1. p = all
      BY <2>1 DEF PutAll, all, MAX
    <3> QED
      BY <1>1, <1>2, <3>1
  <2>2. CASE Len(all) > MAX
    <3>1. p = SubSeq(all, 1, MAX)
      BY <1>1, <1>2, <2>2 DEF PutAll, all, MAX
    <3> QED
      BY <1>1, <1>2, <2>2, <3>1
  <2> QED
    BY <1>1, <1>2, <2>1, <2>2
<1> HIDE DEF all, p
<1>5. ASSUME NEW i \in 1 .. Len(p), i > Len(q) PROVE \E j \in 1 .. Len(es) : p[i] = es[j]
  <2>1. i \in 1 .. Len(all) /\ p[i] = all[i]
    BY <1>1, <1>2, <1>4, <1>5
  <2> QED
    BY <1>3, <1>5, <2>1
<1>6. \A i \in 1 .. Len(q) : i \in 1 .. Len(p)
  BY <1>1, <1>4
<1>7. \A i \in 1 .. Len(q) : p[i] = q[i]
  BY <1>3, <1>4, <1>6
<1> QED
  BY <1>1, <1>2, <1>4, <1>5, <1>7 DEF p

\* One event, put into the ring or refused.
LEMMA PutAppends ==
    ASSUME queue \in Rings, NEW e \in Events, Put(e)
    PROVE  /\ Len(queue) \in Nat /\ Len(queue') \in Nat /\ queue' \in Seq(Events)
           /\ Len(queue') \in {Len(queue), Len(queue) + 1}
           /\ \A i \in 1 .. Len(queue) : queue'[i] = queue[i]
           /\ Len(queue') = Len(queue) + 1 => queue'[Len(queue')] = e
           /\ Len(queue) < MAX => Len(queue') = Len(queue) + 1
<1> DEFINE es == <<e>>
<1>1. es \in Seq(Events) /\ Len(es) = 1 /\ es[1] = e
  OBVIOUS
<1>2. queue' = PutAll(queue, es)
  BY DEF Put
<1>3. Len(queue) \in Nat /\ Len(queue) <= MAX /\ MAX \in Nat
  BY SizesAssumption DEF Rings, MAX
<1>4. CASE Len(queue) < MAX
  <2>1. Len(queue) + Len(es) <= MAX
    BY <1>1, <1>3, <1>4
  <2>2. /\ queue' \in Seq(Events) /\ Len(queue') = Len(queue) + 1
        /\ \A i \in 1 .. Len(queue) : queue'[i] = queue[i]
        /\ \A i \in 1 .. Len(queue') : i > Len(queue) => \E j \in 1 .. 1 : queue'[i] = es[j]
    BY <1>1, <1>2, <2>1, PutAllAppends
  <2>3. Len(queue') \in 1 .. Len(queue') /\ Len(queue') > Len(queue) /\ \A j \in 1 .. 1 : j = 1
    BY <1>3, <2>2
  <2> HIDE DEF es
  <2> QED
    BY <1>1, <1>3, <2>2, <2>3
<1>5. CASE Len(queue) = MAX
  <2>1. queue \in Seq(Events) /\ Len(queue \o es) = MAX + 1 /\ Len(queue) = MAX
    BY <1>1, <1>3, <1>5 DEF Rings
  <2>2. queue' = SubSeq(queue \o es, 1, MAX)
    BY <1>2, <1>3, <2>1 DEF PutAll, MAX
  <2>3. Len(queue') = MAX /\ queue' \in Seq(Events)
    BY <1>1, <1>3, <2>1, <2>2
  <2>4. \A i \in 1 .. Len(queue) : queue'[i] = queue[i]
    BY <1>1, <1>2, <1>3, <2>1, PutAllAppends
  <2> QED
    BY <1>3, <1>5, <2>3, <2>4
<1> QED
  BY <1>3, <1>4, <1>5

\* An interrupt of the encoder appends its events.
LEMMA MoveAppends ==
    ASSUME TypeOK, NEW d \in {Enc!Anticlockwise, Enc!Clockwise}, Move(d)
    PROVE  /\ Len(queue) \in Nat /\ Len(queue') \in Nat /\ Len(queue') >= Len(queue)
           /\ \A i \in 1 .. Len(queue) : queue'[i] = queue[i]
           /\ \A i \in 1 .. Len(queue') : i > Len(queue) => queue'[i].type \in {"STEP", "HOME"}
<1> DEFINE s == Enc!Serve(Enc!Rising(rotor, rotor'), encoder, rotor')
           posts == [i \in DOMAIN s.calls |-> EncoderEvent(s.calls[i])]
<1>1. s.calls \in Seq({"step", "home"})
  BY ServeType DEF TypeOK, Calls
<1>2. queue' = PutAll(queue, posts)
  BY DEF Move
<1> HIDE DEF s
<1>3. Len(s.calls) \in Nat /\ DOMAIN s.calls = 1 .. Len(s.calls)
  BY <1>1
<1>4. \A call : EncoderEvent(call) \in Events /\ EncoderEvent(call).type \in {"STEP", "HOME"}
  BY EventTypes DEF EncoderEvent, Event
<1>5. posts \in Seq(Events) /\ \A j \in 1 .. Len(posts) : posts[j].type \in {"STEP", "HOME"}
  BY <1>3, <1>4
<1>6. queue \in Rings /\ Len(queue) \in Nat
  BY DEF TypeOK, Rings, MAX
<1> HIDE DEF posts
<1> QED
  BY <1>2, <1>5, <1>6, PutAllAppends

\* The same, for the events of the host that are waiting.
LEMMA MoveKeeps ==
    ASSUME TypeOK, NEW d \in {Enc!Anticlockwise, Enc!Clockwise}, Move(d), pc' = pc
    PROVE  /\ ~HostEventWaiting => ~HostEventWaiting'
           /\ NoPacket => NoPacket'
<1>1. queue \in Seq(Events) /\ queue' \in Seq(Events)
  BY MoveType DEF TypeOK, Rings
<1>2. /\ Len(queue) \in Nat /\ Len(queue') \in Nat /\ Len(queue') >= Len(queue)
      /\ \A i \in 1 .. Len(queue) : queue'[i] = queue[i]
      /\ \A i \in 1 .. Len(queue') : i > Len(queue) => queue'[i].type \in {"STEP", "HOME"}
  BY MoveAppends
<1>3. DOMAIN queue = 1 .. Len(queue) /\ DOMAIN queue' = 1 .. Len(queue')
  BY <1>1
<1>4. ASSUME NEW i \in DOMAIN queue', queue'[i].type \in HostTypes
      PROVE  i \in DOMAIN queue /\ queue[i] = queue'[i]
  BY <1>2, <1>3, <1>4 DEF HostTypes
<1> QED
  BY <1>4 DEF HostEventWaiting, HostTypes, NoPacket

\* The environment: the motor turns in other states than READY ...
LEMMA ExpectedEnvironment ==
    ASSUME Patient, Nudges = 0, WaitInv,
           \/ MotorTurns
           \/ \E d \in {Enc!Anticlockwise, Enc!Clockwise} : Nudge(d)
           \/ \E c \in Commands : HostSend(c)
           \/ HostGivesUp
           \/ Reset
    PROVE  Expected'
<1> USE DEF WaitInv, IInv
<1>1. CASE MotorTurns
  <2>1. motor.on /\ motor.dir \in {Enc!Anticlockwise, Enc!Clockwise} /\ Move(motor.dir)
    BY <1>1 DEF MotorTurns, TypeOK
  <2>2. /\ state' = state /\ params' = params /\ current' = current /\ motor' = motor
        /\ pc' = pc
    BY <1>1 DEF MotorTurns, app
  <2>3. state # "READY" /\ pc # "decide" /\ pc \notin {"boot", "init"}
    BY <2>1 DEF Expected, Off
  <2>4. (~HostEventWaiting => ~HostEventWaiting') /\ (NoPacket => NoPacket')
    BY <2>1, <2>2, MoveKeeps
  <2> QED
    BY <2>1, <2>2, <2>3, <2>4 DEF Expected
<1>2. ASSUME NEW d \in {Enc!Anticlockwise, Enc!Clockwise}, Nudge(d) PROVE FALSE
  BY <1>2 DEF Nudge, TypeOK
\* ... and the host sends in READY alone.
<1>3. ASSUME NEW c \in Commands, HostSend(c) PROVE Expected'
  <2>1. /\ state = "READY" /\ pc \notin {"boot", "init"} /\ ~HostEventWaiting
        /\ state' = state /\ pc' = pc
    BY <1>3 DEF HostSend, app
  <2>2. queue \in Rings /\ queue \in Seq(Events)
    BY DEF TypeOK, Rings, MAX
  <2>3. PICK e \in Events : Put(e)
    BY <1>3, EventTypes DEF HostSend
  <2>4. /\ Len(queue) \in Nat /\ Len(queue') \in Nat /\ queue' \in Seq(Events)
        /\ Len(queue') \in {Len(queue), Len(queue) + 1}
        /\ \A i \in 1 .. Len(queue) : queue'[i] = queue[i]
    BY <2>2, <2>3, PutAppends
  <2>5. pc # "decide"
    <3>1. SUFFICES ASSUME pc = "decide" PROVE FALSE
      OBVIOUS
    <3>2. queue[1].type \in HostTypes /\ Len(queue) = 1
      BY <3>1 DEF Expected
    <3>3. 1 \in DOMAIN queue
      BY <2>2, <3>2
    <3> QED
      BY <2>1, <3>2, <3>3 DEF HostEventWaiting, HostTypes
  <2>6. ASSUME NEW i \in DOMAIN queue', queue'[i].type \in HostTypes PROVE i = Len(queue')
    <3>1. i \in 1 .. Len(queue') /\ DOMAIN queue = 1 .. Len(queue)
      BY <2>2, <2>4
    <3>2. ~(i \in 1 .. Len(queue))
      BY <2>1, <2>4, <2>6, <3>1 DEF HostEventWaiting, HostTypes
    <3> QED
      BY <2>4, <3>1, <3>2
  <2>7. PacketLast'
    BY <2>6 DEF PacketLast
  <2> QED
    BY <2>1, <2>5, <2>7 DEF Expected
<1>4. CASE HostGivesUp
  BY <1>4 DEF HostGivesUp, Expected, HostEventWaiting, PacketLast, NoPacket, Pending, app, plant
<1>5. CASE Reset
  <2>1. pc' = "boot" /\ state' = "CALIBRATION" /\ motor' = MotorOff /\ queue' = <<>>
    BY <1>5 DEF Reset
  <2> QED
    BY <2>1, InitTypes DEF Expected, HostEventWaiting
<1> QED
  BY <1>1, <1>2, <1>3, <1>4, <1>5

\* The ring's steps.
LEMMA ExpectedScheduler ==
    ASSUME WaitInv, InitDrivers \/ PostFirst \/ Execute \/ Return
    PROVE  Expected'
<1> USE DEF WaitInv, IInv
<1>0. queue \in Seq(Events) /\ Len(queue) \in Nat /\ DOMAIN queue = 1 .. Len(queue)
  BY DEF TypeOK
<1>1. CASE InitDrivers
  <2>1. pc = "boot" /\ pc' = "init" /\ motor' = MotorOff /\ UNCHANGED <<app, queue>>
    BY <1>1 DEF InitDrivers
  <2> QED
    BY <2>1, InitTypes DEF Expected, HostEventWaiting, app
<1>2. CASE PostFirst
  <2>1. pc = "init" /\ pc' = "idle" /\ queue' = <<Internal>> /\ UNCHANGED <<app, motor>>
    BY <1>2 DEF PostFirst
  <2>2. Internal.type = "INTERNAL"
    BY DEF Internal, Event
  <2>3. ~HostEventWaiting'
    BY <2>1, <2>2 DEF HostEventWaiting
  <2> QED
    BY <2>1, <2>3 DEF Expected, app
<1>3. CASE Execute
  <2>1. pc = "idle" /\ pc' = "handler" /\ UNCHANGED <<app, plant, motor, queue>>
    BY <1>3 DEF Execute
  <2> QED
    BY <2>1 DEF Expected, HostEventWaiting, PacketLast, NoPacket, Pending, app, plant
<1>4. CASE Return
  <2>1. /\ pc = "return" /\ pc' = "idle" /\ queue' = Tail(queue)
        /\ UNCHANGED <<app, plant, motor>>
    BY <1>4 DEF Return
  <2>2. queue # <<>>
    BY <2>1 DEF TypeOK
  <2>3. Len(queue) >= 1
    BY <1>0, <2>2
  <2>4. /\ queue' \in Seq(Events) /\ Len(queue') = Len(queue) - 1
        /\ DOMAIN queue' = 1 .. Len(queue')
        /\ \A i \in 1 .. Len(queue') : queue'[i] = queue[i + 1] /\ i + 1 \in DOMAIN queue
    BY <1>0, <2>1, <2>3
  <2>5. ~HostEventWaiting => ~HostEventWaiting'
    BY <2>4 DEF HostEventWaiting
  <2>6. PacketLast => PacketLast'
    <3>1. SUFFICES ASSUME PacketLast, NEW i \in DOMAIN queue', queue'[i].type \in HostTypes
                   PROVE  i = Len(queue')
      BY DEF PacketLast
    <3>2. i \in Nat /\ i >= 1 /\ queue[i + 1].type \in HostTypes /\ i + 1 \in DOMAIN queue
      BY <2>4, <3>1, <1>0
    <3>3. i + 1 = Len(queue)
      BY <3>1, <3>2 DEF PacketLast
    <3> QED
      BY <1>0, <2>4, <3>2, <3>3
  <2>7. NoPacket => NoPacket'
    <3>1. SUFFICES ASSUME NoPacket, NEW i \in DOMAIN queue', queue'[i].type \in HostTypes
                   PROVE  FALSE
      BY DEF NoPacket
    <3>2. i \in Nat /\ i >= 1 /\ queue[i + 1].type \in HostTypes /\ i + 1 \in DOMAIN queue
      BY <2>4, <3>1, <1>0
    <3> QED
      BY <3>1, <3>2 DEF NoPacket
  <2>8. Pending => Pending'
    <3>1. SUFFICES ASSUME Pending PROVE Pending'
      OBVIOUS
    <3>2. Len(queue) = 2 /\ queue[2].type = "INTERNAL"
      BY <2>1, <3>1 DEF Pending
    <3>3. Len(queue') = 1 /\ queue'[1] = queue[2]
      BY <2>4, <3>2
    <3> QED
      BY <2>1, <3>1, <3>2, <3>3 DEF Pending, app, plant
  <2>9. state' = state /\ motor' = motor /\ params' = params /\ current' = current
    BY <2>1 DEF app
  <2> QED
    BY <2>1, <2>5, <2>6, <2>7, <2>8, <2>9 DEF Expected
<1> QED
  BY <1>1, <1>2, <1>3, <1>4

\* An event that is not of the host, put after the command being handled.
LEMMA OneMore ==
    ASSUME queue \in Rings, NEW e \in Events, Put(e), Len(queue) = 1, pc' = "return"
    PROVE  /\ Len(queue') = 2 /\ queue'[2] = e /\ queue'[1] = queue[1]
           /\ DOMAIN queue' = 1 .. 2
           /\ e.type \notin HostTypes => NoPacket'
           /\ e.type \in HostTypes => PacketLast'
<1>1. MAX \in Nat /\ MAX >= 2
  BY SizesAssumption DEF MAX
<1>2. /\ queue' \in Seq(Events) /\ Len(queue') = 2 /\ queue'[2] = e /\ queue'[1] = queue[1]
  BY <1>1, PutAppends
<1>3. DOMAIN queue' = 1 .. 2
  BY <1>2
<1>4. \A i \in DOMAIN queue' : i = 1 \/ i = 2
  BY <1>3
<1> QED
  BY <1>2, <1>3, <1>4 DEF NoPacket, PacketLast

\* The handlers' steps: packets are met in READY alone ...
LEMMA ExpectedPackets ==
    ASSUME WaitInv, ProcessPacket \/ DropPacket \/ IgnoreEvent \/ AcceptCommand
    PROVE  Expected'
<1> USE DEF WaitInv, IInv
<1>0. /\ queue \in Seq(Events) /\ queue \in Rings /\ Len(queue) \in Nat
      /\ DOMAIN queue = 1 .. Len(queue) /\ pc = "handler"
      /\ state \in {"CALIBRATION", "READY", "EXECUTION"}
  BY DEF TypeOK, Rings, MAX, ProcessPacket, DropPacket, IgnoreEvent, Ignored, AcceptCommand,
         Handling
<1>1. queue # <<>>
  BY <1>0 DEF TypeOK
<1>2. 1 \in DOMAIN queue /\ Head(queue) = queue[1] /\ Head(queue) \in Events
  BY <1>0, <1>1
<1>3. ASSUME Head(queue).type \in HostTypes PROVE state = "READY" /\ Len(queue) = 1
  <2>1. state # "CALIBRATION"
    BY <1>2, <1>3 DEF Expected, HostEventWaiting, HostTypes
  <2>2. state # "EXECUTION"
    BY <1>0, <1>2, <1>3 DEF Expected, NoPacket
  <2>3. state = "READY" /\ PacketLast
    BY <1>0, <2>1, <2>2 DEF Expected
  <2> QED
    BY <1>0, <1>2, <1>3, <2>3 DEF PacketLast
<1>4. CASE ProcessPacket
  <2>1. /\ Head(queue).type = "PACKET" /\ Put(Event("CMD", Head(queue).command))
        /\ pc' = "return" /\ UNCHANGED <<app, plant, motor>>
    BY <1>4 DEF ProcessPacket, Handling
  <2>2. state = "READY" /\ Len(queue) = 1
    BY <1>3, <2>1 DEF HostTypes
  <2>3. /\ Event("CMD", Head(queue).command) \in Events
        /\ Event("CMD", Head(queue).command).type \in HostTypes
    BY <1>2, <2>1, CommandOfEvent, EventTypes DEF Event, HostTypes
  <2>4. PacketLast'
    BY <1>0, <2>1, <2>2, <2>3, OneMore
  <2> QED
    BY <2>1, <2>2, <2>4 DEF Expected, app
<1>5. CASE DropPacket \/ IgnoreEvent
  <2>1. pc' = "return" /\ UNCHANGED <<app, plant, motor, queue>>
    BY <1>5 DEF DropPacket, IgnoreEvent
  <2>2. state = "EXECUTION" => Head(queue).type \in HostTypes \cup {"HOME"}
    BY <1>5 DEF DropPacket, IgnoreEvent, Ignored, Handling, HostTypes
  <2>3. ASSUME state = "EXECUTION", ~motor.on PROVE FALSE
    <3>1. Pending
      BY <1>0, <2>3 DEF Expected
    <3>2. queue[1].type = "INTERNAL"
      BY <1>0, <3>1 DEF Pending
    <3> QED
      BY <1>2, <2>2, <2>3, <3>2 DEF HostTypes
  <2>4. PacketLast => PacketLast'
    BY <1>0, <2>1 DEF PacketLast
  <2>5. NoPacket => NoPacket'
    BY <1>0, <2>1 DEF NoPacket
  <2>6. ~HostEventWaiting => ~HostEventWaiting'
    BY <2>1 DEF HostEventWaiting
  <2> QED
    BY <1>0, <2>1, <2>3, <2>4, <2>5, <2>6 DEF Expected, app
\* ... and a command that is not of the turn ends with an internal event.
<1>6. CASE AcceptCommand
  <2> DEFINE position == ToPosition(Head(queue).command)
  <2>1. /\ Head(queue).type = "CMD" /\ state = "READY"
        /\ params' = [requested |-> position, ok |-> IsValid(position)]
        /\ UNCHANGED <<encoder, motor>>
    BY <1>6 DEF AcceptCommand, Handling
  <2>2. Len(queue) = 1 /\ ~motor.on /\ queue[1].type \in HostTypes
    BY <1>2, <1>3, <2>1 DEF HostTypes, Off
  <2>3. params'.ok = IsValid(position)
    BY <2>1
  <2>4. CASE IsValid(position)
    <3>1. /\ current' = encoder.position /\ pc' = "decide" /\ state' = state
          /\ queue' = queue
      BY <1>6, <2>4 DEF AcceptCommand
    <3>2. PacketLast'
      BY <1>0, <2>2, <3>1 DEF PacketLast
    <3> QED
      BY <2>1, <2>2, <2>3, <2>4, <3>1, <3>2 DEF Expected
  <2>5. CASE ~IsValid(position)
    <3>1. state' = "EXECUTION" /\ Put(Internal) /\ pc' = "return"
      BY <1>6, <2>5 DEF AcceptCommand
    <3>2. Internal \in Events /\ Internal.type = "INTERNAL"
      BY EventTypes DEF Internal, Event
    <3>3. Len(queue') = 2 /\ queue'[2].type = "INTERNAL" /\ NoPacket'
      BY <1>0, <2>2, <3>1, <3>2, OneMore DEF HostTypes
    <3>4. Pending'
      BY <2>3, <2>5, <3>1, <3>3 DEF Pending
    <3> QED
      BY <3>1, <3>3, <3>4 DEF Expected
  <2> QED
    BY <2>4, <2>5
<1> QED
  BY <1>4, <1>5, <1>6

\* ... and the motor is started for a position that it has not, or else the
\* internal event follows the command.
LEMMA ExpectedMotor ==
    ASSUME WaitInv, StartCalibration \/ EndCalibration \/ DecideDirection
                      \/ CheckPosition \/ StopMotor \/ Respond
    PROVE  Expected'
<1> USE DEF WaitInv, IInv
<1>0. /\ queue \in Seq(Events) /\ queue \in Rings /\ Len(queue) \in Nat
      /\ DOMAIN queue = 1 .. Len(queue)
  BY DEF TypeOK, Rings, MAX
<1>1. CASE StartCalibration
  <2>1. pc = "handler" /\ state = "CALIBRATION" /\ pc' = "return" /\ UNCHANGED <<app, queue>>
    BY <1>1 DEF StartCalibration, Handling
  <2> QED
    BY <2>1 DEF Expected, HostEventWaiting, app
<1>2. CASE EndCalibration
  <2>1. state = "CALIBRATION" /\ state' = "READY" /\ pc' = "return" /\ queue' = queue
    BY <1>2 DEF EndCalibration
  <2>2. PacketLast'
    BY <2>1 DEF Expected, HostEventWaiting, PacketLast, HostTypes
  <2> QED
    BY <2>1, <2>2 DEF Expected
<1>3. CASE DecideDirection
  <2>1. /\ pc = "decide" /\ pc' = "return" /\ state' = "EXECUTION"
        /\ UNCHANGED <<params, current, plant>>
    BY <1>3 DEF DecideDirection
  <2>2. /\ state = "READY" /\ Len(queue) = 1 /\ params.ok /\ current = encoder.position
        /\ ~motor.on
    BY <2>1 DEF Expected, Off
  <2>3. CASE motor'.on /\ queue' = queue
    <3>1. NoPacket'
      BY <1>0, <2>1, <2>2, <2>3 DEF NoPacket
    <3> QED
      BY <2>1, <2>3, <3>1 DEF Expected
  <2>4. CASE params.requested = current /\ Put(Internal) /\ UNCHANGED motor
    <3>2. Internal \in Events /\ Internal.type = "INTERNAL"
      BY EventTypes DEF Internal, Event
    <3>3. Len(queue') = 2 /\ queue'[2].type = "INTERNAL" /\ NoPacket'
      BY <1>0, <2>1, <2>2, <2>4, <3>2, OneMore DEF HostTypes
    <3>4. Pending'
      BY <2>1, <2>2, <2>4, <3>3 DEF Pending, plant
    <3> QED
      BY <2>1, <3>3, <3>4 DEF Expected
  <2> QED
    BY <1>3, <2>3, <2>4 DEF DecideDirection, Drive
<1>4. CASE CheckPosition
  <2>1. /\ pc = "handler" /\ state = "EXECUTION" /\ current' = encoder.position
        /\ Head(queue).type \in {"INTERNAL", "STEP"}
        /\ pc' = IF params.requested = encoder.position \/ ~params.ok THEN "stop" ELSE "return"
        /\ UNCHANGED <<state, params, plant, motor, queue>>
    BY <1>4 DEF CheckPosition, Handling
  <2>2. NoPacket'
    BY <2>1 DEF Expected, NoPacket
  <2>3. ~motor.on => Pending
    BY <2>1 DEF Expected
  <2>4. CASE params.requested = encoder.position \/ ~params.ok
    BY <2>1, <2>2, <2>3, <2>4 DEF Expected, Pending, plant
  <2>5. CASE ~(params.requested = encoder.position \/ ~params.ok)
    BY <2>1, <2>2, <2>3, <2>5 DEF Expected, Pending
  <2> QED
    BY <2>4, <2>5
<1>5. CASE StopMotor
  <2>1. pc = "stop" /\ pc' = "respond" /\ UNCHANGED <<app, queue>>
    BY <1>5 DEF StopMotor
  <2> QED
    BY <2>1 DEF Expected, NoPacket, app
<1>6. CASE Respond
  <2>1. pc = "respond" /\ pc' = "return" /\ state' = "READY" /\ UNCHANGED <<motor, queue>>
    BY <1>6 DEF Respond
  <2>2. PacketLast'
    BY <2>1 DEF Expected, NoPacket, PacketLast
  <2> QED
    BY <2>1, <2>2 DEF Expected
<1> QED
  BY <1>1, <1>2, <1>3, <1>4, <1>5, <1>6

LEMMA WaitInvInit == Init => WaitInv
<1>1. Init => Expected
  BY InitTypes DEF Init, Expected, HostEventWaiting
<1> QED
  BY <1>1, IInvInit DEF WaitInv

LEMMA WaitInvStep ==
    ASSUME Patient, Nudges = 0, WaitInv, [Next]_vars
    PROVE  WaitInv'
<1>1. IInv'
  BY IInvStep DEF WaitInv
<1>2. CASE MainThread
  BY <1>1, <1>2, ExpectedScheduler, ExpectedPackets, ExpectedMotor DEF MainThread, WaitInv
<1>3. CASE Next /\ ~MainThread
  BY <1>1, <1>3, ExpectedEnvironment DEF Next, WaitInv
<1>4. CASE UNCHANGED vars
  BY <1>1, <1>4
     DEF vars, WaitInv, Expected, HostEventWaiting, PacketLast, NoPacket, Pending
<1> QED
  BY <1>2, <1>3, <1>4

LEMMA WaitInvHolds == ASSUME Patient, Nudges = 0 PROVE Spec => []WaitInv
<1>1. WaitInv /\ [Next]_vars => WaitInv'
  BY WaitInvStep
<1> QED
  BY <1>1, WaitInvInit, PTL DEF Spec

\* While a command executes with the motor off, the event that ends it is waiting:
\* whatever the line does, however often the host is interrupted and the controller
\* reset, and however short the ring and late the main loop.
THEOREM CommandsNotStranded == ASSUME Patient, Nudges = 0 PROVE Spec => []NeverStranded
<1>1. WaitInv => NeverStranded
  <2> SUFFICES ASSUME WaitInv, state = "EXECUTION", pc = "idle", ~motor.on
               PROVE  \E i \in DOMAIN queue : queue[i].type \in {"INTERNAL", "STEP"}
    BY DEF NeverStranded
  <2>1. Len(queue) = 1 /\ queue[1].type = "INTERNAL"
    BY DEF WaitInv, Expected, Pending
  <2>2. 1 \in DOMAIN queue
    BY <2>1 DEF WaitInv, IInv, TypeOK
  <2> QED
    BY <2>1, <2>2
<1> QED
  BY <1>1, WaitInvHolds, PTL

-----------------------------------------------------------------------------
(* Where the rotor is, for a waiting host, a rotor that nobody turns by     *)
(* hand and a main loop that keeps up.  Between two commands the driver's   *)
(* count is one of the two that belong to the rotor's four quarter steps;   *)
(* only how the quarter steps are divided depends on the direction.         *)

Acw == Enc!Anticlockwise
Cw == Enc!Clockwise

Sector == IF motor.dir = Acw THEN (rotor - 1) \div 4 ELSE rotor \div 4

\* The driver's variables once the home pulse has been seen.
Sighted ==
    /\ rotor = 0 => encoder.home /\ encoder.position = 0
    /\ rotor # 0 => /\ ~encoder.home
                    /\ \/ encoder.position \in {Sector, Sector + 1}
                       \/ Sector = R - 1 /\ encoder.position = 0
    /\ motor.dir = Acw /\ rotor % 4 = 1 => ~encoder.acwFailed
    /\ motor.dir = Cw /\ rotor % 4 = 3 => ~encoder.cwFailed
    /\ motor.dir = Acw /\ rotor = 4 * R - 3 => encoder.position # 0

\* The quarter steps on which a step is counted and reported.
StepQuarter == IF motor.dir = Acw THEN 1 ELSE 3

\* The motor is stopped where a step was counted, or one quarter step later, or at
\* the home position.
Rests == rotor % 4 \in {StepQuarter, 2} \/ (motor.dir = Cw /\ rotor = 0)

Waiting(type) == \E i \in DOMAIN queue : queue[i].type = type

\* An event that will be compared with the position requested, or has been.
Told ==
    \/ pc = "stop"
    \/ \E i \in DOMAIN queue : queue[i].type = "STEP" /\ (pc = "return" => i > 1)

\* Quarter steps since a step could be counted.
Since == IF motor.dir = Acw THEN (rotor + 3) % 4 ELSE 3 - (rotor % 4)

\* The encoder's events in the ring are those of the last two quarter steps.
Recent ==
    /\ \A i \in DOMAIN queue :
           queue[i].type \in {"STEP", "HOME"} \/ (i = 1 /\ pc = "return")
    /\ Waiting("STEP") => \/ rotor % 4 = StepQuarter
                          \/ rotor % 4 = 2 /\ slack >= Slack
    /\ Waiting("HOME") => \/ rotor = 0
                          \/ rotor = Enc!Turned(0, motor.dir) /\ slack >= Slack
    /\ Len(queue) <= IF rotor = 0 THEN 2 ELSE IF rotor % 4 \in {StepQuarter, 2} THEN 3 ELSE 1

\* The target is ahead; or it is reached and an event will tell; or the home
\* position is, whose next quarter step will.
Ahead ==
    \/ motor.dir = Acw /\ encoder.position < params.requested
    \/ motor.dir = Cw /\ encoder.position > params.requested
    \/ motor.dir = Cw /\ rotor = 0 /\ params.requested = 0
    \/ encoder.position = params.requested /\ Told

\* Every fourth quarter step brings the target nearer, from the first that counts.
Direct ==
    LET before == \/ rotor = 0
                  \/ /\ motor.dir = Acw /\ encoder.position = 0
                     /\ rotor \in {4 * R - 2, 4 * R - 1}
        passed == IF motor.dir = Acw THEN encoder.position ELSE R - 1 - encoder.position
    IN travel <= 4 * (IF before THEN passed - 1 ELSE passed) + 3 + Since

Moving == params.ok /\ Recent /\ Ahead /\ Direct

\* Calibration: the home event is that of the last two quarter steps.
Homing ==
    Waiting("HOME") =>
        /\ motor.dir = Cw
        /\ encoder.position = 0
        /\ \/ rotor = 0 /\ encoder.home
           \/ rotor = 4 * R - 1 /\ slack >= Slack /\ ~encoder.home /\ ~encoder.cwFailed

OnCourse ==
    /\ pc # "boot" => encoder.registered /\ encoder.handling = IMMEDIATE
    /\ ~encoder.notify
    /\ pc \in {"boot", "init"} => queue = <<>>
    /\ state = "CALIBRATION" => Homing /\ (motor.on => motor.dir = Cw)
    /\ state # "CALIBRATION" => Sighted /\ (motor.on \/ Rests)
    /\ state = "EXECUTION" /\ motor.on => Moving
    /\ params.ok => params.requested \in 0 .. R - 1
    /\ pc = "decide" => travel = 0
    /\ pc = "stop" => Head(queue).type \in {"INTERNAL", "STEP"}
    /\ pc \in {"stop", "respond"} /\ params.ok => encoder.position = params.requested
    /\ DirectPath

\* The command on its way is the one the host waits for.
Serving ==
    /\ \A i \in DOMAIN queue : queue[i].type \in {"PACKET", "CMD"} => queue[i].command = asked
    /\ state = "EXECUTION" \/ pc = "decide" =>
           /\ asked \in Commands \ {Unknown}
           /\ params = [requested |-> ToPosition(asked), ok |-> IsValid(ToPosition(asked))]

\* A quarter step in either direction, and the count that a quarter step stands for.
LEMMA TurnedUp ==
    ASSUME NEW q \in Enc!Quarters
    PROVE  Enc!Turned(q, Acw) = IF q = 4 * R - 1 THEN 0 ELSE q + 1
<1> DEFINE F == 4 * R
<1>1. F \in Nat /\ F >= 12 /\ q \in 0 .. F - 1
  BY SizesAssumption, RIsHere DEF Enc!Quarters
<1>2. Enc!Turned(q, Acw) = (q + 1 + F) % F
  BY RIsHere DEF Enc!Turned, Acw, Enc!Anticlockwise
<1> HIDE DEF F
<1>3. (q + 1 + F) % F = IF q = F - 1 THEN 0 ELSE q + 1
  <2>1. ASSUME NEW r \in 0 .. F - 1 PROVE (r + F) % F = r /\ (0 + F + F) % F = 0
    BY <1>1, SMTT(30)
  <2>2. CASE q = F - 1
    BY <1>1, <2>1, <2>2
  <2>3. CASE q # F - 1
    <3>1. q + 1 \in 0 .. F - 1 /\ q + 1 + F = (q + 1) + F
      BY <1>1, <2>3
    <3> QED
      BY <2>1, <2>3, <3>1
  <2> QED
    BY <2>2, <2>3
<1> QED
  BY <1>2, <1>3 DEF F

LEMMA TurnedDown ==
    ASSUME NEW q \in Enc!Quarters
    PROVE  Enc!Turned(q, Cw) = IF q = 0 THEN 4 * R - 1 ELSE q - 1
<1> DEFINE F == 4 * R
<1>1. F \in Nat /\ F >= 12 /\ q \in 0 .. F - 1
  BY SizesAssumption, RIsHere DEF Enc!Quarters
<1>2. Enc!Turned(q, Cw) = (q - 1 + F) % F
  BY <1>1, RIsHere DEF Enc!Turned, Cw, Enc!Clockwise
<1> HIDE DEF F
<1>3. (q - 1 + F) % F = IF q = 0 THEN F - 1 ELSE q - 1
  <2>1. ASSUME NEW r \in 0 .. F - 1 PROVE (r + F) % F = r /\ r % F = r
    BY <1>1, SMTT(30)
  <2>2. CASE q = 0
    <3>1. q - 1 + F = F - 1 /\ F - 1 \in 0 .. F - 1
      BY <1>1, <2>2
    <3> QED
      BY <2>1, <2>2, <3>1
  <2>3. CASE q # 0
    <3>1. q - 1 \in 0 .. F - 1 /\ q - 1 + F = (q - 1) + F
      BY <1>1, <2>3
    <3> QED
      BY <2>1, <2>3, <3>1
  <2> QED
    BY <2>2, <2>3
<1> QED
  BY <1>2, <1>3 DEF F

\* What is posted for one call, and for none.
LEMMA PostsOne ==
    ASSUME TypeOK, NEW calls, NEW call \in {"step", "home"},
           queue' = PutAll(queue, [i \in DOMAIN calls |-> EncoderEvent(calls[i])])
    PROVE  /\ calls = <<call>> => Put(EncoderEvent(call))
           /\ calls = <<>> => queue' = queue
<1>1. ASSUME calls = <<call>> PROVE Put(EncoderEvent(call))
  <2>1. [i \in DOMAIN calls |-> EncoderEvent(calls[i])] = <<EncoderEvent(call)>>
    BY <1>1
  <2> QED
    BY <2>1 DEF Put
<1>2. ASSUME calls = <<>> PROVE queue' = queue
  <2>1. [i \in DOMAIN calls |-> EncoderEvent(calls[i])] = <<>>
    BY <1>2
  <2>2. queue \o <<>> = queue /\ Len(queue) <= SCHEDULER_MAX_QUEUE_SIZE
    BY DEF TypeOK
  <2> QED
    BY <2>1, <2>2 DEF PutAll
<1> QED
  BY <1>1, <1>2

Ready(e) == e \in Enc!EncoderStates /\ e.registered /\ e.handling = IMMEDIATE /\ ~e.notify

\* One edge at a time, as the interrupt serves it.
LEMMA ServeNone ==
    ASSUME NEW e, NEW q PROVE Enc!Serve({}, e, q) = [encoder |-> e, calls |-> <<>>]
  BY DEF Enc!Serve

LEMMA ServeHome ==
    ASSUME NEW e, Ready(e), NEW q
    PROVE  LET s == Enc!Serve({"Z"}, e, q) IN
           /\ Ready(s.encoder) /\ s.calls = <<"home">>
           /\ s.encoder.position = 0 /\ s.encoder.home
           /\ s.encoder.acwFailed = e.acwFailed /\ s.encoder.cwFailed = e.cwFailed
<1> DEFINE h == Enc!HomePin(e)
<1>1. /\ h \in Enc!EncoderStates /\ h.position = 0 /\ h.home /\ h.registered
      /\ h.handling = IMMEDIATE /\ ~h.notify
      /\ h.acwFailed = e.acwFailed /\ h.cwFailed = e.cwFailed
  <2>1. 0 \in Enc!Positions
    BY SizesAssumption, RIsHere DEF Enc!Positions
  <2> QED
    BY <2>1 DEF Ready, Enc!HomePin, Enc!EncoderStates
<1> HIDE DEF h
<1>2. Enc!HomeCall(h, <<>>) = <<"home">>
  BY <1>1 DEF Enc!HomeCall
<1>3. Enc!Serve({"Z"}, e, q) = [encoder |-> h, calls |-> Enc!HomeCall(h, <<>>)]
  BY DEF Enc!Serve, h
<1> QED
  BY <1>1, <1>2, <1>3 DEF Ready

\* A record of the driver after a counted edge, and after the notification.
LEMMA CountedFields ==
    ASSUME NEW e \in Enc!EncoderStates, NEW p \in Enc!Positions
    PROVE  LET c == Enc!Counted(e, p) IN
           /\ c \in Enc!EncoderStates
           /\ c.position = IF e.home THEN e.position ELSE p
           /\ ~c.home /\ c.notify
           /\ c.registered = e.registered /\ c.handling = e.handling
           /\ c.acwFailed = e.acwFailed /\ c.cwFailed = e.cwFailed
  BY DEF Enc!Counted, Enc!EncoderStates

LEMMA NotifiedFields ==
    ASSUME NEW e \in Enc!EncoderStates, e.registered, e.handling = IMMEDIATE
    PROVE  LET n == Enc!StepNotified(e) IN
           /\ Ready(n)
           /\ n.position = e.position /\ n.home = e.home
           /\ n.acwFailed = e.acwFailed /\ n.cwFailed = e.cwFailed
           /\ Enc!StepCall(e, <<>>) = IF e.notify THEN <<"step">> ELSE <<>>
<1> DEFINE n == Enc!StepNotified(e)
<1>1. n = [e EXCEPT !.notify = FALSE]
  BY DEF Enc!StepNotified, Enc!NotifiesStep, Enc!EncoderStates
<1> HIDE DEF n
<1>2. /\ Ready(n) /\ n.position = e.position /\ n.home = e.home
      /\ n.acwFailed = e.acwFailed /\ n.cwFailed = e.cwFailed
  BY <1>1 DEF Enc!EncoderStates, Ready
<1>3. Enc!StepCall(e, <<>>) = IF e.notify THEN <<"step">> ELSE <<>>
  BY DEF Enc!StepCall, Enc!NotifiesStep
<1> QED
  BY <1>2, <1>3 DEF n

LEMMA ServeA ==
    ASSUME NEW e, Ready(e), NEW q
    PROVE  LET s == Enc!Serve({"A"}, e, q)
               p == Enc!AnticlockwisePin(e, Enc!BHigh(q)) IN
           /\ s.encoder = Enc!StepNotified(p) /\ s.calls = Enc!StepCall(p, <<>>)
  BY DEF Enc!Serve

LEMMA ServeB ==
    ASSUME NEW e, Ready(e), NEW q
    PROVE  LET s == Enc!Serve({"B"}, e, q)
               p == Enc!ClockwisePin(e, Enc!AHigh(q)) IN
           /\ s.encoder = Enc!StepNotified(p) /\ s.calls = Enc!StepCall(p, <<>>)
  BY DEF Enc!Serve

\* The edges that are counted ...
LEMMA CountsUp ==
    ASSUME NEW e, Ready(e), NEW q, ~Enc!BHigh(q)
    PROVE  LET s == Enc!Serve({"A"}, e, q) IN
           /\ Ready(s.encoder) /\ s.calls = <<"step">>
           /\ ~s.encoder.home /\ ~s.encoder.acwFailed
           /\ s.encoder.position = IF e.home THEN e.position ELSE Enc!Increment(e.position)
<1> DEFINE c == Enc!Counted(e, Enc!Increment(e.position))
           p == Enc!AnticlockwisePin(e, Enc!BHigh(q))
<1>1. /\ c \in Enc!EncoderStates
      /\ c.position = IF e.home THEN e.position ELSE Enc!Increment(e.position)
      /\ ~c.home /\ c.notify /\ c.registered /\ c.handling = IMMEDIATE
  BY StepsType, CountedFields DEF Ready
<1>2. p = [c EXCEPT !.acwFailed = FALSE]
  BY DEF Enc!AnticlockwisePin
<1> HIDE DEF c, p
<1>3. /\ p \in Enc!EncoderStates /\ p.position = c.position /\ ~p.home /\ p.notify
      /\ p.registered /\ p.handling = IMMEDIATE /\ ~p.acwFailed
  BY <1>1, <1>2 DEF Enc!EncoderStates
<1> QED
  BY <1>1, <1>3, NotifiedFields, ServeA DEF p

LEMMA CountsDown ==
    ASSUME NEW e, Ready(e), NEW q, ~Enc!AHigh(q)
    PROVE  LET s == Enc!Serve({"B"}, e, q) IN
           /\ Ready(s.encoder) /\ s.calls = <<"step">>
           /\ ~s.encoder.home /\ ~s.encoder.cwFailed
           /\ s.encoder.position = IF e.home THEN e.position ELSE Enc!Decrement(e.position)
<1> DEFINE c == Enc!Counted(e, Enc!Decrement(e.position))
           p == Enc!ClockwisePin(e, Enc!AHigh(q))
<1>1. /\ c \in Enc!EncoderStates
      /\ c.position = IF e.home THEN e.position ELSE Enc!Decrement(e.position)
      /\ ~c.home /\ c.notify /\ c.registered /\ c.handling = IMMEDIATE
  BY StepsType, CountedFields DEF Ready
<1>2. p = [c EXCEPT !.cwFailed = FALSE]
  BY DEF Enc!ClockwisePin
<1> HIDE DEF c, p
<1>3. /\ p \in Enc!EncoderStates /\ p.position = c.position /\ ~p.home /\ p.notify
      /\ p.registered /\ p.handling = IMMEDIATE /\ ~p.cwFailed
  BY <1>1, <1>2 DEF Enc!EncoderStates
<1> QED
  BY <1>1, <1>3, NotifiedFields, ServeB DEF p

\* ... and those that are not.
LEMMA FailsUp ==
    ASSUME NEW e, Ready(e), ~e.acwFailed, NEW q, Enc!AHigh(q)
    PROVE  LET s == Enc!Serve({"B"}, e, q) IN
           /\ Ready(s.encoder) /\ s.calls = <<>>
           /\ s.encoder.home = e.home /\ s.encoder.position = e.position
<1> DEFINE p == Enc!ClockwisePin(e, Enc!AHigh(q))
<1>1. p = [e EXCEPT !.acwFailed = TRUE]
  BY DEF Enc!ClockwisePin
<1> HIDE DEF p
<1>2. /\ p \in Enc!EncoderStates /\ p.position = e.position /\ p.home = e.home /\ ~p.notify
      /\ p.registered /\ p.handling = IMMEDIATE
  BY <1>1 DEF Enc!EncoderStates, Ready
<1>3. /\ Ready(Enc!StepNotified(p)) /\ Enc!StepCall(p, <<>>) = <<>>
      /\ Enc!StepNotified(p).position = p.position /\ Enc!StepNotified(p).home = p.home
  BY <1>2, NotifiedFields
<1> QED
  BY <1>2, <1>3, ServeB DEF p

LEMMA FailsDown ==
    ASSUME NEW e, Ready(e), ~e.cwFailed, NEW q, Enc!BHigh(q)
    PROVE  LET s == Enc!Serve({"A"}, e, q) IN
           /\ Ready(s.encoder) /\ s.calls = <<>>
           /\ s.encoder.home = e.home /\ s.encoder.position = e.position
<1> DEFINE p == Enc!AnticlockwisePin(e, Enc!BHigh(q))
<1>1. p = [e EXCEPT !.cwFailed = TRUE]
  BY DEF Enc!AnticlockwisePin
<1> HIDE DEF p
<1>2. /\ p \in Enc!EncoderStates /\ p.position = e.position /\ p.home = e.home /\ ~p.notify
      /\ p.registered /\ p.handling = IMMEDIATE
  BY <1>1 DEF Enc!EncoderStates, Ready
<1>3. /\ Ready(Enc!StepNotified(p)) /\ Enc!StepCall(p, <<>>) = <<>>
      /\ Enc!StepNotified(p).position = p.position /\ Enc!StepNotified(p).home = p.home
  BY <1>2, NotifiedFields
<1> QED
  BY <1>2, <1>3, ServeA DEF p

\* The pins that rise on a quarter step.
LEMMA RisingUp ==
    ASSUME NEW q \in Enc!Quarters
    PROVE  LET n == Enc!Turned(q, Acw) IN
           /\ n \in Enc!Quarters
           /\ n = 0 => Enc!Rising(q, n) = {"Z"}
           /\ n % 4 = 1 => Enc!Rising(q, n) = {"A"} /\ ~Enc!BHigh(n)
           /\ n % 4 = 2 => Enc!Rising(q, n) = {"B"} /\ Enc!AHigh(n)
           /\ n # 0 /\ n % 4 \in {0, 3} => Enc!Rising(q, n) = {}
<1> DEFINE n == Enc!Turned(q, Acw)
<1>1. R \in Nat /\ R >= 3 /\ q \in Nat /\ q < 4 * R
  BY SizesAssumption, RIsHere DEF Enc!Quarters
<1>0. n = IF q = 4 * R - 1 THEN 0 ELSE q + 1
  BY TurnedUp
<1> HIDE DEF n
<1>2. n \in Nat /\ n < 4 * R /\ ((n = 0 /\ q = 4 * R - 1) \/ (n = q + 1 /\ n # 0))
  BY <1>0, <1>1
<1>3. /\ n = 0 => q % 4 = 3 /\ q # 0 /\ n % 4 = 0
      /\ n # 0 => (n % 4 = 1 => q % 4 = 0) /\ (n % 4 = 2 => q % 4 = 1)
                   /\ (n % 4 = 3 => q % 4 = 2) /\ (n % 4 = 0 => q % 4 = 3)
  BY <1>1, <1>2
<1>4. n \in Enc!Quarters
  BY <1>1, <1>2, RIsHere DEF Enc!Quarters
<1>5. n = 0 => Enc!Rising(q, n) = {"Z"}
  BY <1>3 DEF Enc!Rising, Enc!AHigh, Enc!BHigh, Enc!ZHigh
<1>6. /\ n % 4 = 1 => Enc!Rising(q, n) = {"A"}
      /\ n % 4 = 2 => Enc!Rising(q, n) = {"B"}
      /\ n # 0 /\ n % 4 \in {0, 3} => Enc!Rising(q, n) = {}
  BY <1>3 DEF Enc!Rising, Enc!AHigh, Enc!BHigh, Enc!ZHigh
<1>7. /\ n % 4 = 1 => ~Enc!BHigh(n)
      /\ n % 4 = 2 => Enc!AHigh(n)
  BY DEF Enc!AHigh, Enc!BHigh
<1> QED
  BY <1>3, <1>4, <1>5, <1>6, <1>7 DEF n

LEMMA RisingDown ==
    ASSUME NEW q \in Enc!Quarters
    PROVE  LET n == Enc!Turned(q, Cw) IN
           /\ n \in Enc!Quarters
           /\ n = 0 => Enc!Rising(q, n) = {"Z"}
           /\ n % 4 = 3 => Enc!Rising(q, n) = {"B"} /\ ~Enc!AHigh(n)
           /\ n % 4 = 2 => Enc!Rising(q, n) = {"A"} /\ Enc!BHigh(n)
           /\ n # 0 /\ n % 4 \in {0, 1} => Enc!Rising(q, n) = {}
<1> DEFINE n == Enc!Turned(q, Cw)
<1>1. R \in Nat /\ R >= 3 /\ q \in Nat /\ q < 4 * R
  BY SizesAssumption, RIsHere DEF Enc!Quarters
<1>0. n = IF q = 0 THEN 4 * R - 1 ELSE q - 1
  BY TurnedDown
<1> HIDE DEF n
<1>2. n \in Nat /\ n < 4 * R /\ ((q = 0 /\ n = 4 * R - 1) \/ q = n + 1)
  BY <1>0, <1>1
<1>3. /\ n = 0 => q % 4 = 1 /\ q # 0 /\ n % 4 = 0
      /\ (n % 4 = 1 => q % 4 = 2) /\ (n % 4 = 2 => q % 4 = 3)
      /\ (n % 4 = 3 => q % 4 = 0) /\ (n % 4 = 0 => q % 4 = 1)
  BY <1>1, <1>2
<1>4. n \in Enc!Quarters
  BY <1>1, <1>2, RIsHere DEF Enc!Quarters
<1>5. n = 0 => Enc!Rising(q, n) = {"Z"}
  BY <1>3 DEF Enc!Rising, Enc!AHigh, Enc!BHigh, Enc!ZHigh
<1>6. /\ n % 4 = 3 => Enc!Rising(q, n) = {"B"}
      /\ n % 4 = 2 => Enc!Rising(q, n) = {"A"}
      /\ n # 0 /\ n % 4 \in {0, 1} => Enc!Rising(q, n) = {}
  BY <1>3 DEF Enc!Rising, Enc!AHigh, Enc!BHigh, Enc!ZHigh
<1>7. /\ n % 4 = 3 => ~Enc!AHigh(n)
      /\ n % 4 = 2 => Enc!BHigh(n)
  BY DEF Enc!AHigh, Enc!BHigh
<1> QED
  BY <1>3, <1>4, <1>5, <1>6, <1>7 DEF n

StepEvent == EncoderEvent("step")
HomeEvent == EncoderEvent("home")

Counts(to) == encoder'.position = IF encoder.home THEN encoder.position ELSE to

\* A quarter step anticlockwise with its interrupt: what it counts, and what it posts.
LEMMA MoveUp ==
    ASSUME TypeOK, Ready(encoder), Move(Acw)
    PROVE  /\ Ready(encoder')
           /\ rotor' = IF rotor = 4 * R - 1 THEN 0 ELSE rotor + 1
           /\ rotor' = 0 => Put(HomeEvent) /\ encoder'.position = 0 /\ encoder'.home
           /\ rotor' % 4 = 1 => /\ Put(StepEvent) /\ ~encoder'.home /\ ~encoder'.acwFailed
                                /\ Counts(Enc!Increment(encoder.position))
           /\ rotor' % 4 = 2 /\ ~encoder.acwFailed =>
                  /\ queue' = queue /\ encoder'.home = encoder.home
                  /\ encoder'.position = encoder.position
           /\ rotor' # 0 /\ rotor' % 4 \in {0, 3} => queue' = queue /\ encoder' = encoder
           /\ rotor' # 0 => Put(StepEvent) \/ queue' = queue
<1> DEFINE n == Enc!Turned(rotor, Acw)
           pins == Enc!Rising(rotor, n)
           s == Enc!Serve(pins, encoder, n)
<1>1. rotor \in Enc!Quarters /\ rotor' = n
  BY DEF TypeOK, Move
<1>2. encoder' = s.encoder
      /\ queue' = PutAll(queue, [i \in DOMAIN s.calls |-> EncoderEvent(s.calls[i])])
  BY <1>1 DEF Move
<1>3. /\ n \in Enc!Quarters
      /\ n = 0 => pins = {"Z"}
      /\ n % 4 = 1 => pins = {"A"} /\ ~Enc!BHigh(n)
      /\ n % 4 = 2 => pins = {"B"} /\ Enc!AHigh(n)
      /\ n # 0 /\ n % 4 \in {0, 3} => pins = {}
  BY <1>1, RisingUp
<1>4. n = IF rotor = 4 * R - 1 THEN 0 ELSE rotor + 1
  BY <1>1, TurnedUp
<1>5. n % 4 \in {0, 1, 2, 3}
  BY <1>3, SizesAssumption, RIsHere DEF Enc!Quarters
<1> HIDE DEF n, pins, s
<1>6. /\ s.calls = <<"step">> => Put(StepEvent)
      /\ s.calls = <<"home">> => Put(HomeEvent)
      /\ s.calls = <<>> => queue' = queue
  BY <1>2, PostsOne DEF StepEvent, HomeEvent
<1>7. CASE n = 0
  <2>1. s = Enc!Serve({"Z"}, encoder, n)
    BY <1>3, <1>7 DEF s
  <2>2. Ready(s.encoder) /\ s.calls = <<"home">> /\ s.encoder.position = 0 /\ s.encoder.home
    BY <2>1, ServeHome
  <2>3. rotor' = 0 /\ rotor' % 4 # 2 /\ rotor' % 4 # 1
    BY <1>1, <1>7
  <2>4. /\ Put(HomeEvent) /\ encoder'.position = 0 /\ encoder'.home /\ Ready(encoder')
    BY <1>2, <1>6, <2>2
  <2>5. rotor' = IF rotor = 4 * R - 1 THEN 0 ELSE rotor + 1
    BY <1>1, <1>4
  <2> QED
    BY <2>3, <2>4, <2>5
<1>8. CASE n % 4 = 1
  <2>1. s = Enc!Serve({"A"}, encoder, n) /\ ~Enc!BHigh(n) /\ n # 0
    BY <1>3, <1>8 DEF s
  <2>2. /\ Ready(s.encoder) /\ s.calls = <<"step">> /\ ~s.encoder.home /\ ~s.encoder.acwFailed
        /\ s.encoder.position = IF encoder.home THEN encoder.position
                                ELSE Enc!Increment(encoder.position)
    BY <2>1, CountsUp
  <2> QED
    BY <1>1, <1>2, <1>4, <1>6, <1>8, <2>1, <2>2 DEF Counts
<1>9. CASE n % 4 = 2
  <2>1. s = Enc!Serve({"B"}, encoder, n) /\ Enc!AHigh(n) /\ n # 0
    BY <1>3, <1>9 DEF s
  <2>2. CASE ~encoder.acwFailed
    <3>1. /\ Ready(s.encoder) /\ s.calls = <<>>
          /\ s.encoder.home = encoder.home /\ s.encoder.position = encoder.position
      BY <2>1, <2>2, FailsUp
    <3> QED
      BY <1>1, <1>2, <1>4, <1>6, <1>9, <2>1, <3>1
  <2>3. CASE encoder.acwFailed
    <3>1. Enc!ClockwisePin(encoder, Enc!AHigh(n)) \in Enc!EncoderStates
      BY PinTypes DEF Ready
    <3>2. /\ Enc!ClockwisePin(encoder, Enc!AHigh(n)).registered
          /\ Enc!ClockwisePin(encoder, Enc!AHigh(n)).handling = IMMEDIATE
      BY <2>1 DEF Ready, Enc!ClockwisePin, Enc!Counted, Enc!EncoderStates
    <3>3. Ready(s.encoder) /\ (s.calls = <<"step">> \/ s.calls = <<>>)
      BY <2>1, <3>1, <3>2, NotifiedFields, ServeB
    <3> QED
      BY <1>1, <1>2, <1>4, <1>6, <1>9, <2>1, <2>3, <3>3
  <2> QED
    BY <2>2, <2>3
<1>10. CASE n # 0 /\ n % 4 \in {0, 3}
  <2>1. s = [encoder |-> encoder, calls |-> <<>>]
    BY <1>3, <1>10, ServeNone DEF s
  <2>2. s.encoder = encoder /\ s.calls = <<>>
    BY <2>1
  <2> QED
    BY <1>1, <1>2, <1>4, <1>6, <1>10, <2>2
<1> QED
  BY <1>5, <1>7, <1>8, <1>9, <1>10

\* And a quarter step clockwise.
LEMMA MoveDown ==
    ASSUME TypeOK, Ready(encoder), Move(Cw)
    PROVE  /\ Ready(encoder')
           /\ rotor' = IF rotor = 0 THEN 4 * R - 1 ELSE rotor - 1
           /\ rotor' = 0 => Put(HomeEvent) /\ encoder'.position = 0 /\ encoder'.home
           /\ rotor' % 4 = 3 => /\ Put(StepEvent) /\ ~encoder'.home /\ ~encoder'.cwFailed
                                /\ Counts(Enc!Decrement(encoder.position))
           /\ rotor' % 4 = 2 /\ ~encoder.cwFailed =>
                  /\ queue' = queue /\ encoder'.home = encoder.home
                  /\ encoder'.position = encoder.position
           /\ rotor' # 0 /\ rotor' % 4 \in {0, 1} => queue' = queue /\ encoder' = encoder
           /\ rotor' # 0 => Put(StepEvent) \/ queue' = queue
<1> DEFINE n == Enc!Turned(rotor, Cw)
           pins == Enc!Rising(rotor, n)
           s == Enc!Serve(pins, encoder, n)
<1>1. rotor \in Enc!Quarters /\ rotor' = n
  BY DEF TypeOK, Move
<1>2. encoder' = s.encoder
      /\ queue' = PutAll(queue, [i \in DOMAIN s.calls |-> EncoderEvent(s.calls[i])])
  BY <1>1 DEF Move
<1>3. /\ n \in Enc!Quarters
      /\ n = 0 => pins = {"Z"}
      /\ n % 4 = 3 => pins = {"B"} /\ ~Enc!AHigh(n)
      /\ n % 4 = 2 => pins = {"A"} /\ Enc!BHigh(n)
      /\ n # 0 /\ n % 4 \in {0, 1} => pins = {}
  BY <1>1, RisingDown
<1>4. n = IF rotor = 0 THEN 4 * R - 1 ELSE rotor - 1
  BY <1>1, TurnedDown
<1>5. n % 4 \in {0, 1, 2, 3}
  BY <1>3, SizesAssumption, RIsHere DEF Enc!Quarters
<1> HIDE DEF n, pins, s
<1>6. /\ s.calls = <<"step">> => Put(StepEvent)
      /\ s.calls = <<"home">> => Put(HomeEvent)
      /\ s.calls = <<>> => queue' = queue
  BY <1>2, PostsOne DEF StepEvent, HomeEvent
<1>7. CASE n = 0
  <2>1. s = Enc!Serve({"Z"}, encoder, n)
    BY <1>3, <1>7 DEF s
  <2>2. Ready(s.encoder) /\ s.calls = <<"home">> /\ s.encoder.position = 0 /\ s.encoder.home
    BY <2>1, ServeHome
  <2>3. rotor' = 0 /\ rotor' % 4 # 2 /\ rotor' % 4 # 3
    BY <1>1, <1>7
  <2>4. /\ Put(HomeEvent) /\ encoder'.position = 0 /\ encoder'.home /\ Ready(encoder')
    BY <1>2, <1>6, <2>2
  <2>5. rotor' = IF rotor = 0 THEN 4 * R - 1 ELSE rotor - 1
    BY <1>1, <1>4
  <2> QED
    BY <2>3, <2>4, <2>5
<1>8. CASE n % 4 = 3
  <2>1. s = Enc!Serve({"B"}, encoder, n) /\ ~Enc!AHigh(n) /\ n # 0
    BY <1>3, <1>8 DEF s
  <2>2. /\ Ready(s.encoder) /\ s.calls = <<"step">> /\ ~s.encoder.home /\ ~s.encoder.cwFailed
        /\ s.encoder.position = IF encoder.home THEN encoder.position
                                ELSE Enc!Decrement(encoder.position)
    BY <2>1, CountsDown
  <2> QED
    BY <1>1, <1>2, <1>4, <1>6, <1>8, <2>1, <2>2 DEF Counts
<1>9. CASE n % 4 = 2
  <2> DEFINE p == Enc!AnticlockwisePin(encoder, Enc!BHigh(n))
  <2>1. s = Enc!Serve({"A"}, encoder, n) /\ Enc!BHigh(n) /\ n # 0
    BY <1>3, <1>9 DEF s
  <2>2. CASE ~encoder.cwFailed
    <3>1. /\ Ready(s.encoder) /\ s.calls = <<>>
          /\ s.encoder.home = encoder.home /\ s.encoder.position = encoder.position
      BY <2>1, <2>2, FailsDown
    <3> QED
      BY <1>1, <1>2, <1>4, <1>6, <1>9, <2>1, <3>1
  <2>3. CASE encoder.cwFailed
    <3>1. p \in Enc!EncoderStates
      BY PinTypes DEF Ready
    <3>2. p.registered /\ p.handling = IMMEDIATE
      BY <2>1 DEF Ready, Enc!AnticlockwisePin, Enc!Counted, Enc!EncoderStates
    <3>3. s.encoder = Enc!StepNotified(p) /\ s.calls = Enc!StepCall(p, <<>>)
      BY <2>1, ServeA
    <3> HIDE DEF p
    <3>4. Ready(s.encoder) /\ s.calls \in {<<"step">>, <<>>}
      BY <3>1, <3>2, <3>3, NotifiedFields
    <3> QED
      BY <1>1, <1>2, <1>4, <1>6, <1>9, <2>1, <2>3, <3>4
  <2> QED
    BY <2>2, <2>3
<1>10. CASE n # 0 /\ n % 4 \in {0, 1}
  <2>1. s = [encoder |-> encoder, calls |-> <<>>]
    BY <1>3, <1>10, ServeNone DEF s
  <2>2. s.encoder = encoder /\ s.calls = <<>>
    BY <2>1
  <2> QED
    BY <1>1, <1>2, <1>4, <1>6, <1>10, <2>2
<1> QED
  BY <1>5, <1>7, <1>8, <1>9, <1>10

\* A host that waits, a rotor that only the motor turns, a main loop at most one
\* quarter step late, and room for the three events that may then be waiting.
Keeping == Patient /\ Nudges = 0 /\ Slack <= 1 /\ MAX >= 3

CourseInv == WaitInv /\ OnCourse

\* What is waiting after a put, one that fits and one that may be refused.
LEMMA PutWaits ==
    ASSUME queue \in Rings, NEW e \in Events, Put(e), NEW type
    PROVE  /\ Waiting(type)' => Waiting(type) \/ type = e.type
           /\ Len(queue) < MAX => Waiting(e.type)'
<1>1. /\ Len(queue) \in Nat /\ Len(queue') \in Nat /\ queue' \in Seq(Events)
      /\ Len(queue') \in {Len(queue), Len(queue) + 1}
      /\ \A i \in 1 .. Len(queue) : queue'[i] = queue[i]
      /\ Len(queue') = Len(queue) + 1 => queue'[Len(queue')] = e
      /\ Len(queue) < MAX => Len(queue') = Len(queue) + 1
  BY PutAppends
<1>2. queue \in Seq(Events) /\ DOMAIN queue = 1 .. Len(queue) /\ DOMAIN queue' = 1 .. Len(queue')
  BY <1>1 DEF Rings
<1>3. ASSUME NEW i \in DOMAIN queue', queue'[i].type = type
      PROVE  Waiting(type) \/ type = e.type
  <2>1. CASE i \in 1 .. Len(queue)
    BY <1>1, <1>2, <1>3, <2>1 DEF Waiting
  <2>2. CASE ~(i \in 1 .. Len(queue))
    <3>1. i \in 1 .. Len(queue')
      BY <1>2
    <3>2. /\ Len(queue) \in Nat /\ Len(queue') \in Nat
          /\ Len(queue') = Len(queue) \/ Len(queue') = Len(queue) + 1
      BY <1>1
    <3>3. i = Len(queue') /\ Len(queue') = Len(queue) + 1
      BY <2>2, <3>1, <3>2
    <3> QED
      BY <1>1, <1>3, <3>3
  <2> QED
    BY <2>1, <2>2
<1>4. ASSUME Len(queue) < MAX PROVE Waiting(e.type)'
  <2>1. Len(queue) \in Nat /\ Len(queue') = Len(queue) + 1 /\ queue'[Len(queue')] = e
    BY <1>1, <1>4
  <2>3. Len(queue') \in 1 .. Len(queue')
    BY <2>1
  <2> QED
    BY <1>2, <2>1, <2>3 DEF Waiting
<1> QED
  BY <1>3, <1>4 DEF Waiting

\* The encoder's events in the ring while the motor turns: what the guard of
\* MotorTurns says of them when the main loop keeps up.
LEMMA TurnsWhen ==
    ASSUME Keeping, TypeOK, Recent, MotorTurns
    PROVE  /\ Waiting("STEP") => rotor % 4 = StepQuarter /\ slack' >= Slack
           /\ Waiting("HOME") => rotor = 0 /\ slack' >= Slack
           /\ ~Waiting("STEP") /\ ~Waiting("HOME") => Len(queue) <= 1
           /\ pc = "stop" /\ Head(queue).type \in {"INTERNAL", "STEP"} => Waiting("STEP")
           /\ Told => Waiting("STEP") \/ pc = "stop"
<1>1. EncoderEventWaiting <=> Waiting("STEP") \/ Waiting("HOME")
  BY DEF EncoderEventWaiting, Waiting
<1>2. slack \in Nat /\ Slack \in Nat /\ Slack <= 1
  BY BoundsAssumption DEF TypeOK, Keeping
<1>3. EncoderEventWaiting => slack < Slack /\ slack' = slack + 1
  BY DEF MotorTurns
<1>4. queue \in Seq(Events) /\ Len(queue) \in Nat /\ DOMAIN queue = 1 .. Len(queue)
  BY DEF TypeOK
<1>5. ASSUME ~Waiting("STEP"), ~Waiting("HOME") PROVE Len(queue) <= 1
  <2>1. \A i \in 1 .. Len(queue) : i = 1
    BY <1>4, <1>5 DEF Recent, Waiting
  <2>2. CASE Len(queue) >= 2
    <3>1. 2 \in 1 .. Len(queue)
      BY <1>4, <2>2
    <3> QED
      BY <2>1, <3>1
  <2> QED
    BY <1>4, <2>2
<1>6. ASSUME pc = "stop", Head(queue).type \in {"INTERNAL", "STEP"} PROVE Waiting("STEP")
  <2>1. queue # <<>>
    BY <1>6 DEF TypeOK
  <2>2. 1 \in DOMAIN queue /\ Head(queue) = queue[1]
    BY <1>4, <2>1
  <2> QED
    BY <1>6, <2>2 DEF Recent, Waiting
<1>7. Told => Waiting("STEP") \/ pc = "stop"
  BY DEF Told, Waiting
<1>8. Waiting("STEP") => rotor % 4 = StepQuarter /\ slack' >= Slack
  BY <1>1, <1>2, <1>3 DEF Recent
<1>9. Waiting("HOME") => rotor = 0 /\ slack' >= Slack
  BY <1>1, <1>2, <1>3 DEF Recent
<1> QED
  BY <1>5, <1>6, <1>7, <1>8, <1>9

\* A reported step, or a home event, in the ring.
LEMMA RecentPut ==
    ASSUME Keeping, TypeOK, Recent, NEW e \in Events, Put(e), e.type \in {"STEP", "HOME"},
           pc' = pc, Len(queue) <= 2
    PROVE  /\ \A i \in DOMAIN queue' :
                  queue'[i].type \in {"STEP", "HOME"} \/ (i = 1 /\ pc' = "return")
           /\ Len(queue') = Len(queue) + 1
           /\ e.type = "STEP" => Told'
<1>0. Len(queue) \in Nat /\ MAX \in Nat /\ MAX >= 3 /\ queue \in Rings
  BY SizesAssumption DEF TypeOK, Rings, MAX, Keeping
<1>1. queue \in Rings /\ Len(queue) < MAX
  BY <1>0
<1>2. /\ Len(queue) \in Nat /\ Len(queue') \in Nat /\ queue' \in Seq(Events)
      /\ \A i \in 1 .. Len(queue) : queue'[i] = queue[i]
      /\ Len(queue') = Len(queue) + 1 /\ queue'[Len(queue')] = e
  BY <1>1, PutAppends
<1>3. DOMAIN queue = 1 .. Len(queue) /\ DOMAIN queue' = 1 .. Len(queue')
  BY <1>1, <1>2 DEF Rings
<1>4. ASSUME NEW i \in DOMAIN queue'
      PROVE  queue'[i].type \in {"STEP", "HOME"} \/ (i = 1 /\ pc' = "return")
  <2>1. CASE i \in 1 .. Len(queue)
    BY <1>2, <1>3, <2>1 DEF Recent
  <2>2. CASE ~(i \in 1 .. Len(queue))
    <3>1. i = Len(queue')
      BY <1>2, <1>3, <2>2
    <3> QED
      BY <1>2, <3>1
  <2> QED
    BY <2>1, <2>2
<1>5. ASSUME e.type = "STEP" PROVE Told'
  <2>1. Len(queue') \in DOMAIN queue'
    BY <1>2, <1>3
  <2>2. pc' = "return" => Len(queue') > 1
    <3>1. pc' = "return" => queue # <<>>
      BY DEF TypeOK
    <3>2. queue # <<>> => Len(queue) >= 1
      BY <1>1, <1>2 DEF Rings
    <3> QED
      BY <1>2, <3>1, <3>2
  <2> QED
    BY <1>2, <1>5, <2>1, <2>2 DEF Told
<1> QED
  BY <1>2, <1>4, <1>5

\* A target ahead, not yet reached, is passed by no quarter step.
Approaching ==
    /\ TypeOK /\ Recent /\ Ahead /\ Direct /\ params.requested \in 0 .. R - 1
    /\ pc = "stop" => Waiting("STEP")

LEMMA DirectBound == Approaching => DirectPath
<1> SUFFICES ASSUME Approaching PROVE DirectPath
  OBVIOUS
<1> USE DEF Approaching
<1>1. /\ R \in Nat /\ R >= 3 /\ rotor \in Nat /\ encoder.position \in Nat
      /\ encoder.position <= R - 1 /\ Slack \in Nat /\ travel \in Nat
  BY SizesAssumption, RIsHere, BoundsAssumption
     DEF TypeOK, Enc!Quarters, Enc!EncoderStates, Enc!Positions
<1>2. motor.dir = Acw \/ motor.dir = Cw
  BY DEF TypeOK, Acw, Cw
<1>3. Acw # Cw
  BY DEF Acw, Cw, Enc!Anticlockwise, Enc!Clockwise
<1>4. Since \in 0 .. 3
  BY <1>1 DEF Since
<1>5. ASSUME encoder.position = params.requested, Told, rotor # 0
      PROVE  Since <= 1
  <2>1. rotor % 4 \in {StepQuarter, 2}
    BY <1>5 DEF Told, Recent, Waiting
  <2> QED
    BY <1>1, <1>2, <1>3, <2>1 DEF Since, StepQuarter
<1>6. CASE motor.dir = Acw
  <2>1. travel <= 4 * encoder.position + 3 + Since
    BY <1>1, <1>4, <1>6 DEF Direct
  <2>2. rotor = 0 => travel <= 4 * (encoder.position - 1) + 3 + Since
    BY <1>1, <1>4, <1>6 DEF Direct
  <2> QED
    BY <1>1, <1>3, <1>4, <1>5, <1>6, <2>1, <2>2 DEF Ahead, DirectPath
<1>7. CASE motor.dir = Cw
  <2>1. travel <= 4 * (R - 1 - encoder.position) + 3 + Since
    BY <1>1, <1>3, <1>4, <1>7 DEF Direct
  <2>2. rotor = 0 => travel <= 4 * (R - 1 - encoder.position - 1) + 3 + Since
    BY <1>1, <1>3, <1>4, <1>7 DEF Direct
  <2> QED
    BY <1>1, <1>3, <1>4, <1>5, <1>7, <2>1, <2>2 DEF Ahead, DirectPath
<1> QED
  BY <1>2, <1>6, <1>7

\* What every quarter step of the running motor is made of.
LEMMA TurnFacts ==
    ASSUME Keeping, TypeOK, Sighted, Moving, MotorTurns, state = "EXECUTION",
           pc = "stop" => Head(queue).type \in {"INTERNAL", "STEP"}
    PROVE  /\ Move(motor.dir) /\ motor' = motor /\ params' = params /\ pc' = pc
           /\ R \in Nat /\ R >= 3 /\ rotor \in Nat /\ rotor < 4 * R
           /\ encoder.position \in Nat /\ encoder.position <= R - 1
           /\ travel \in Nat /\ travel' \in {travel, travel + 1}
           /\ rotor # 0 => ~encoder.home
           /\ rotor % 4 # StepQuarter =>
                  ~Waiting("STEP") /\ ~Told /\ pc # "stop"
           /\ rotor # 0 => ~Waiting("HOME")
           /\ Waiting("STEP") \/ Waiting("HOME") => slack' >= Slack
           /\ queue \in Rings /\ Len(queue) \in Nat
           /\ rotor % 4 # StepQuarter => Len(queue) <= IF rotor = 0 THEN 2 ELSE 1
<1>1. /\ Waiting("STEP") => rotor % 4 = StepQuarter /\ slack' >= Slack
      /\ Waiting("HOME") => rotor = 0 /\ slack' >= Slack
      /\ ~Waiting("STEP") /\ ~Waiting("HOME") => Len(queue) <= 1
      /\ pc = "stop" => Waiting("STEP")
      /\ Told => Waiting("STEP") \/ pc = "stop"
  BY TurnsWhen DEF Moving
<1>2. /\ Move(motor.dir) /\ motor' = motor /\ params' = params /\ pc' = pc
      /\ travel' \in {travel, travel + 1}
  BY DEF MotorTurns, app
<1>3. /\ R \in Nat /\ R >= 3 /\ rotor \in Nat /\ rotor < 4 * R
      /\ encoder.position \in Nat /\ encoder.position <= R - 1 /\ travel \in Nat
  BY SizesAssumption, RIsHere DEF TypeOK, Enc!Quarters, Enc!EncoderStates, Enc!Positions
<1>4. queue \in Rings /\ Len(queue) \in Nat
  BY DEF TypeOK, Rings, MAX
<1>5. rotor = 0 => Len(queue) <= 2
  BY <1>4 DEF Moving, Recent
<1>6. rotor # 0 => ~encoder.home
  BY DEF Sighted
<1> QED
  BY <1>1, <1>2, <1>3, <1>4, <1>5, <1>6

\* The events of one quarter step: none, a step, or the home event.
LEMMA NothingPosted ==
    ASSUME queue' = queue, pc' = pc
    PROVE  (\A type : Waiting(type)' <=> Waiting(type)) /\ (Told' <=> Told)
  BY DEF Waiting, Told

LEMMA StepPosted ==
    ASSUME Keeping, TypeOK, Recent, Put(StepEvent), pc' = pc, Len(queue) <= 2
    PROVE  /\ \A i \in DOMAIN queue' :
                  queue'[i].type \in {"STEP", "HOME"} \/ (i = 1 /\ pc' = "return")
           /\ Len(queue') = Len(queue) + 1 /\ Told' /\ (Waiting("HOME")' => Waiting("HOME"))
<1>1. StepEvent \in Events /\ StepEvent.type = "STEP"
  BY EventTypes DEF StepEvent, EncoderEvent, Event
<1>2. queue \in Rings
  BY DEF TypeOK, Rings, MAX
<1>3. Waiting("HOME")' => Waiting("HOME") \/ "HOME" = StepEvent.type
  BY <1>1, <1>2, PutWaits
<1> QED
  BY <1>1, <1>3, RecentPut

LEMMA HomePosted ==
    ASSUME Keeping, TypeOK, Recent, Put(HomeEvent), pc' = pc, Len(queue) <= 2
    PROVE  /\ \A i \in DOMAIN queue' :
                  queue'[i].type \in {"STEP", "HOME"} \/ (i = 1 /\ pc' = "return")
           /\ Len(queue') = Len(queue) + 1 /\ (Waiting("STEP")' => Waiting("STEP"))
<1>1. HomeEvent \in Events /\ HomeEvent.type = "HOME"
  BY EventTypes DEF HomeEvent, EncoderEvent, Event
<1>2. queue \in Rings
  BY DEF TypeOK, Rings, MAX
<1>3. Waiting("STEP")' => Waiting("STEP") \/ "STEP" = HomeEvent.type
  BY <1>1, <1>2, PutWaits
<1> QED
  BY <1>1, <1>3, RecentPut

\* The numbers of a quarter step: sectors, and what a count is worth.
LEMMA SectorsUp ==
    ASSUME NEW q \in Nat, NEW n \in Nat, n = q + 1, q < 4 * R - 1, R \in Nat
    PROVE  /\ n % 4 = 1 => q % 4 = 0 /\ (n - 1) \div 4 = ((q - 1) \div 4) + 1
                                     /\ (q - 1) \div 4 < R - 1
           /\ n % 4 = 2 => q % 4 = 1 /\ (n - 1) \div 4 = (q - 1) \div 4
           /\ n % 4 = 3 => q % 4 = 2 /\ (n - 1) \div 4 = (q - 1) \div 4
           /\ n % 4 = 0 => q % 4 = 3 /\ (n - 1) \div 4 = (q - 1) \div 4
           /\ (n + 3) % 4 = IF n % 4 = 1 THEN 0 ELSE ((q + 3) % 4) + 1
           /\ n % 4 = 1 => (q + 3) % 4 = 3
  BY SMT

LEMMA SectorsDown ==
    ASSUME NEW q \in Nat, NEW n \in Nat, q = n + 1, q < 4 * R, R \in Nat
    PROVE  /\ n % 4 = 3 => q % 4 = 0 /\ n \div 4 = (q \div 4) - 1
           /\ n % 4 = 2 => q % 4 = 3 /\ n \div 4 = q \div 4
           /\ n % 4 = 1 => q % 4 = 2 /\ n \div 4 = q \div 4
           /\ n % 4 = 0 => q % 4 = 1 /\ n \div 4 = q \div 4
           /\ 3 - (n % 4) = IF n % 4 = 3 THEN 0 ELSE (3 - (q % 4)) + 1
           /\ n % 4 = 3 => 3 - (q % 4) = 3
  BY SMT

LEMMA LastQuarter ==
    ASSUME R \in Nat, R >= 3
    PROVE  /\ (4 * R - 1 - 1) \div 4 = R - 1 /\ (4 * R - 1) \div 4 = R - 1
           /\ (4 * R - 1) % 4 = 3 /\ (4 * R - 1 + 3) % 4 = 2
  BY SMT

LEMMA Nearer ==
    ASSUME NEW r \in Int, NEW p \in Int, NEW t \in Int, t <= 4 * (r - 1 - p) + 3 + 3,
           NEW k, k = p - 1
    PROVE  t <= 4 * (r - 1 - k) + 3 /\ t + 1 <= 4 * (r - 1 - k) + 3
  BY SMT

\* The motor turns anticlockwise.
LEMMA TurnsUp ==
    ASSUME Keeping, TypeOK, Ready(encoder), Sighted, Moving, MotorTurns,
           state = "EXECUTION", motor.dir = Acw, params.requested \in 0 .. R - 1,
           pc = "stop" => /\ Head(queue).type \in {"INTERNAL", "STEP"}
                          /\ encoder.position = params.requested,
           NEW q, q = rotor, NEW p, p = encoder.position
    PROVE  /\ Ready(encoder') /\ Sighted' /\ Moving'
           /\ pc = "stop" => encoder'.position = encoder.position
<1>1. /\ Move(Acw) /\ motor' = motor /\ params' = params /\ pc' = pc /\ motor'.dir = Acw
      /\ R \in Nat /\ R >= 3 /\ q \in Nat /\ q < 4 * R
      /\ p \in Nat /\ p <= R - 1
      /\ travel \in Nat /\ travel' \in {travel, travel + 1}
      /\ q # 0 => ~encoder.home
      /\ q % 4 # 1 => ~Waiting("STEP") /\ ~Told /\ pc # "stop"
      /\ q # 0 => ~Waiting("HOME")
      /\ Waiting("STEP") \/ Waiting("HOME") => slack' >= Slack
      /\ queue \in Rings /\ Len(queue) \in Nat
      /\ q % 4 # 1 => Len(queue) <= IF q = 0 THEN 2 ELSE 1
  BY TurnFacts DEF StepQuarter
<1>2. Acw # Cw
  BY DEF Acw, Cw, Enc!Anticlockwise, Enc!Clockwise
<1>3. /\ Ready(encoder')
      /\ rotor' = IF q = 4 * R - 1 THEN 0 ELSE q + 1
      /\ rotor' = 0 => Put(HomeEvent) /\ encoder'.position = 0 /\ encoder'.home
      /\ rotor' % 4 = 1 => /\ Put(StepEvent) /\ ~encoder'.home /\ ~encoder'.acwFailed
                           /\ Counts(Enc!Increment(p))
      /\ rotor' % 4 = 2 /\ ~encoder.acwFailed =>
             /\ queue' = queue /\ encoder'.home = encoder.home
             /\ encoder'.position = p
      /\ rotor' # 0 /\ rotor' % 4 \in {0, 3} => queue' = queue /\ encoder' = encoder
  BY <1>1, MoveUp
<1>4. /\ q = 0 => encoder.home /\ p = 0
      /\ q # 0 => \/ p = (q - 1) \div 4
                  \/ p = (q - 1) \div 4 + 1
                  \/ (q - 1) \div 4 = R - 1 /\ p = 0
      /\ q % 4 = 1 => ~encoder.acwFailed
      /\ q = 4 * R - 3 => p # 0
  BY DEF Sighted, Sector
<1>5. params.ok /\ Recent /\ (p < params.requested \/ (p = params.requested /\ Told))
  BY <1>2 DEF Moving, Ahead
<1>6. /\ travel <= 4 * p + 3 + ((q + 3) % 4)
      /\ q = 0 => travel <= 4 * (p - 1) + 3 + ((q + 3) % 4)
      /\ p = 0 /\ q \in {4 * R - 2, 4 * R - 1} => travel <= 4 * (p - 1) + 3 + ((q + 3) % 4)
  BY <1>1 DEF Moving, Direct, Since
<1>7. rotor' \in Nat /\ rotor' % 4 \in {0, 1, 2, 3} /\ rotor' < 4 * R
  BY <1>1, <1>3
<1>12. encoder'.position \in Nat /\ encoder'.position <= R - 1
  BY <1>1, <1>3, RIsHere DEF Ready, Enc!EncoderStates, Enc!Positions
\* A count: the target has not been reached, so that there is room for it.
<1>8. CASE rotor' % 4 = 1
  <2>1. rotor' = q + 1 /\ q % 4 = 0 /\ rotor' # 0 /\ q < 4 * R - 1
    BY <1>1, <1>3, <1>7, <1>8
  <2>2. p < params.requested /\ p < R - 1 /\ pc # "stop" /\ Len(queue) <= IF q = 0 THEN 2 ELSE 1
    BY <1>1, <1>5, <2>1
  <2>3. Put(StepEvent) /\ ~encoder'.home /\ ~encoder'.acwFailed
    BY <1>3, <1>8
  <2>4. encoder'.position = IF q = 0 THEN 0 ELSE p + 1
    BY <1>1, <1>3, <1>4, <1>8, <2>2, RIsHere DEF Counts, Enc!Increment
  <2>5. /\ (rotor' - 1) \div 4 = ((q - 1) \div 4) + 1 /\ (q - 1) \div 4 < R - 1
        /\ (rotor' + 3) % 4 = 0 /\ (q + 3) % 4 = 3
    BY <1>1, <1>7, <1>8, <2>1, SectorsUp
  <2>6. Sighted'
    <3>1. encoder'.position \in {(rotor' - 1) \div 4, ((rotor' - 1) \div 4) + 1}
      <4>1. CASE q = 0
        BY <2>1, <2>4, <2>5, <4>1
      <4>2. CASE q # 0
        <5>1. PICK k \in Int : k = (q - 1) \div 4
          BY <1>1
        <5>2. k < R - 1 /\ (p = k \/ p = k + 1)
          BY <1>1, <1>4, <2>5, <4>2, <5>1
        <5>3. encoder'.position = k + 1 \/ encoder'.position = (k + 1) + 1
          BY <2>4, <4>2, <5>2
        <5> QED
          BY <2>5, <5>1, <5>3
      <4> QED
        BY <4>1, <4>2
    <3>2. rotor' = 4 * R - 3 => encoder'.position # 0
      BY <1>1, <2>1, <2>4
    <3> QED
      BY <1>1, <1>2, <2>1, <2>3, <3>1, <3>2 DEF Sighted, Sector
  <2>7. Recent' /\ Told'
    <3>1. /\ \A i \in DOMAIN queue' :
                  queue'[i].type \in {"STEP", "HOME"} \/ (i = 1 /\ pc' = "return")
          /\ Len(queue') = Len(queue) + 1 /\ Told' /\ (Waiting("HOME")' => Waiting("HOME"))
      BY <1>1, <1>5, <2>2, <2>3, StepPosted
    <3>2. Len(queue') <= 3
      BY <1>1, <2>2, <3>1
    <3>3. Waiting("HOME")' => rotor' = 1 /\ slack' >= Slack
      BY <1>1, <2>1, <3>1
    <3>4. Enc!Turned(0, Acw) = 1
      <4>1. 0 \in Enc!Quarters
        BY <1>1, RIsHere DEF Enc!Quarters
      <4> QED
        BY <1>1, <4>1, TurnedUp
    <3> QED
      BY <1>1, <1>8, <2>1, <3>1, <3>2, <3>3, <3>4 DEF Recent, StepQuarter
  <2>8. Ahead'
    <3>1. encoder'.position <= params.requested
      BY <1>1, <2>2, <2>4
    <3> QED
      BY <1>1, <1>12, <2>7, <3>1 DEF Ahead
  <2>9. Direct'
    <3>1. rotor' # 4 * R - 2 /\ rotor' # 4 * R - 1
      BY <1>1, <1>8
    <3>2. travel' <= 4 * encoder'.position + 3
      <4>1. CASE q = 0
        <5>1. travel <= 4 * (p - 1) + 3 + 3
          BY <1>6, <2>5, <4>1
        <5>2. p = 0
          BY <1>4, <4>1
        <5> QED
          BY <1>1, <2>4, <4>1, <5>1, <5>2
      <4>2. CASE q # 0
        <5>1. travel <= 4 * p + 3 + 3
          BY <1>6, <2>5
        <5>2. travel + 1 <= 4 * (p + 1) + 3
          BY <1>1, <5>1
        <5> QED
          BY <1>1, <2>4, <4>2, <5>1, <5>2
      <4> QED
        BY <4>1, <4>2
    <3>3. Since' = 0
      BY <1>1, <2>5 DEF Since
    <3>4. travel' <= 4 * encoder'.position + 3 + Since'
      BY <1>1, <1>12, <3>2, <3>3
    <3> QED
      BY <1>1, <2>1, <3>1, <3>4 DEF Direct
  <2>10. params'.ok
    BY <1>1, <1>5
  <2> QED
    BY <1>3, <2>2, <2>6, <2>7, <2>8, <2>9, <2>10 DEF Moving
\* The quarter steps that count nothing.
<1>9. CASE rotor' # 0 /\ rotor' % 4 # 1
  <2>1. /\ rotor' = q + 1 /\ q # 0 /\ q < 4 * R - 1
        /\ (rotor' - 1) \div 4 = (q - 1) \div 4 /\ (rotor' + 3) % 4 = ((q + 3) % 4) + 1
        /\ rotor' % 4 = 2 => q % 4 = 1
        /\ rotor' % 4 # 2 => q % 4 # 1
    <3>1. rotor' = q + 1 /\ q < 4 * R - 1
      BY <1>1, <1>3, <1>7, <1>9
    <3>2. /\ (rotor' - 1) \div 4 = (q - 1) \div 4
          /\ (rotor' + 3) % 4 = ((q + 3) % 4) + 1
          /\ rotor' % 4 = 2 => q % 4 = 1
          /\ rotor' % 4 # 2 => q % 4 # 1
      BY <1>1, <1>7, <1>9, <3>1, SectorsUp
    <3>3. q # 0
      BY <1>1, <1>9, <3>1
    <3> QED
      BY <3>1, <3>2, <3>3
  <2>2. queue' = queue /\ encoder'.position = p /\ ~encoder'.home
    <3>1. CASE rotor' % 4 = 2
      BY <1>1, <1>3, <1>4, <2>1, <3>1
    <3>2. CASE rotor' % 4 # 2
      BY <1>1, <1>3, <1>7, <1>9, <2>1, <3>2
    <3> QED
      BY <3>1, <3>2
  <2>3. /\ \A type : Waiting(type)' <=> Waiting(type)
        /\ Told' <=> Told
    BY <1>1, <2>2, NothingPosted
  <2>4. Sighted'
    <3>1. rotor' # 4 * R - 3
      BY <1>1, <1>9
    <3> QED
      BY <1>1, <1>2, <1>4, <1>9, <2>1, <2>2, <3>1 DEF Sighted, Sector
  <2>5. Recent'
    <3>1. \A i \in DOMAIN queue' :
              queue'[i].type \in {"STEP", "HOME"} \/ (i = 1 /\ pc' = "return")
      BY <1>1, <1>5, <2>2 DEF Recent
    <3>2. Waiting("STEP")' => rotor' % 4 = 2 /\ slack' >= Slack
      BY <1>1, <2>1, <2>3
    <3>3. ~Waiting("HOME")'
      BY <1>1, <2>1, <2>3
    <3>4. Len(queue') <= IF rotor' % 4 = 2 THEN 3 ELSE 1
      <4>1. q % 4 = 1 => Len(queue) <= 3
        BY <1>1, <1>5, <2>1 DEF Recent, StepQuarter
      <4> QED
        BY <1>1, <2>1, <2>2, <4>1
    <3> QED
      BY <1>1, <1>9, <3>1, <3>2, <3>3, <3>4 DEF Recent, StepQuarter
  <2>6. Ahead'
    BY <1>1, <1>5, <2>2, <2>3 DEF Ahead
  <2>7. Direct'
    <3>1. Since' = ((q + 3) % 4) + 1 /\ (q + 3) % 4 \in Nat
      BY <1>1, <2>1 DEF Since
    <3>2. CASE p = 0 /\ rotor' \in {4 * R - 2, 4 * R - 1}
      <4>1. q = 4 * R - 3 \/ q = 4 * R - 2
        BY <1>1, <2>1, <3>2
      <4>2. travel <= 4 * (p - 1) + 3 + ((q + 3) % 4)
        BY <1>4, <1>6, <3>2, <4>1
      <4>3. travel + 1 <= 4 * (p - 1) + 3 + (((q + 3) % 4) + 1)
        BY <1>1, <3>1, <4>2
      <4>4. travel' <= 4 * (encoder'.position - 1) + 3 + Since'
        BY <1>1, <2>2, <3>1, <4>2, <4>3
      <4> QED
        BY <1>1, <2>2, <3>2, <4>4 DEF Direct
    <3>3. CASE ~(p = 0 /\ rotor' \in {4 * R - 2, 4 * R - 1})
      <4>1. travel + 1 <= 4 * p + 3 + (((q + 3) % 4) + 1)
        BY <1>1, <1>6, <3>1
      <4>2. travel' <= 4 * encoder'.position + 3 + Since'
        BY <1>1, <1>6, <2>2, <3>1, <4>1
      <4> QED
        BY <1>1, <1>9, <2>2, <3>3, <4>2 DEF Direct
    <3> QED
      BY <3>2, <3>3
  <2>8. params'.ok
    BY <1>1, <1>5
  <2> QED
    BY <1>3, <2>2, <2>4, <2>5, <2>6, <2>7, <2>8 DEF Moving
\* The home position: the count is 0 already, and 0 is not the target.
<1>10. CASE rotor' = 0
  <2>1. q = 4 * R - 1 /\ (q - 1) \div 4 = R - 1 /\ q % 4 = 3 /\ (q + 3) % 4 = 2 /\ q # 0
    BY <1>1, <1>3, <1>10, LastQuarter
  <2>2. p < params.requested /\ p = 0 /\ pc # "stop" /\ Len(queue) <= 1
    BY <1>1, <1>4, <1>5, <2>1
  <2>3. Put(HomeEvent) /\ encoder'.position = 0 /\ encoder'.home
    BY <1>3, <1>10
  <2>4. Sighted'
    BY <1>1, <1>2, <1>10, <2>3 DEF Sighted
  <2>5. Recent'
    <3>1. /\ \A i \in DOMAIN queue' :
                  queue'[i].type \in {"STEP", "HOME"} \/ (i = 1 /\ pc' = "return")
          /\ Len(queue') = Len(queue) + 1 /\ (Waiting("STEP")' => Waiting("STEP"))
      BY <1>1, <1>5, <2>2, <2>3, HomePosted
    <3>2. Len(queue') <= 2 /\ ~Waiting("STEP")'
      BY <1>1, <2>1, <2>2, <3>1
    <3> QED
      BY <1>1, <1>10, <3>1, <3>2 DEF Recent
  <2>6. Ahead'
    BY <1>1, <2>2, <2>3 DEF Ahead
  <2>7. Direct'
    <3>1. travel <= 4 * (p - 1) + 3 + 2
      BY <1>6, <2>1, <2>2
    <3>2. Since' = 3
      BY <1>1, <1>10 DEF Since
    <3>3. travel' <= 4 * (encoder'.position - 1) + 3 + Since'
      BY <1>1, <2>2, <2>3, <3>1, <3>2
    <3> QED
      BY <1>1, <1>10, <3>3 DEF Direct
  <2>8. params'.ok
    BY <1>1, <1>5
  <2> QED
    BY <1>3, <2>2, <2>4, <2>5, <2>6, <2>7, <2>8 DEF Moving
<1> QED
  BY <1>8, <1>9, <1>10

\* The motor turns clockwise.
LEMMA TurnsDown ==
    ASSUME Keeping, TypeOK, Ready(encoder), Sighted, Moving, MotorTurns,
           state = "EXECUTION", motor.dir = Cw, params.requested \in 0 .. R - 1,
           pc = "stop" => /\ Head(queue).type \in {"INTERNAL", "STEP"}
                          /\ encoder.position = params.requested,
           NEW q, q = rotor, NEW p, p = encoder.position
    PROVE  /\ Ready(encoder') /\ Sighted' /\ Moving'
           /\ pc = "stop" => encoder'.position = encoder.position
<1>2. Acw # Cw
  BY DEF Acw, Cw, Enc!Anticlockwise, Enc!Clockwise
<1>1. /\ Move(Cw) /\ motor' = motor /\ params' = params /\ pc' = pc /\ motor'.dir = Cw
      /\ R \in Nat /\ R >= 3 /\ q \in Nat /\ q < 4 * R
      /\ p \in Nat /\ p <= R - 1
      /\ travel \in Nat /\ travel' \in {travel, travel + 1}
      /\ q # 0 => ~encoder.home
      /\ q % 4 # 3 => ~Waiting("STEP") /\ ~Told /\ pc # "stop"
      /\ q # 0 => ~Waiting("HOME")
      /\ Waiting("STEP") \/ Waiting("HOME") => slack' >= Slack
      /\ queue \in Rings /\ Len(queue) \in Nat
      /\ q % 4 # 3 => Len(queue) <= IF q = 0 THEN 2 ELSE 1
  BY <1>2, TurnFacts DEF StepQuarter
<1>3. /\ Ready(encoder')
      /\ rotor' = IF q = 0 THEN 4 * R - 1 ELSE q - 1
      /\ rotor' = 0 => Put(HomeEvent) /\ encoder'.position = 0 /\ encoder'.home
      /\ rotor' % 4 = 3 => /\ Put(StepEvent) /\ ~encoder'.home /\ ~encoder'.cwFailed
                           /\ Counts(Enc!Decrement(p))
      /\ rotor' % 4 = 2 /\ ~encoder.cwFailed =>
             /\ queue' = queue /\ encoder'.home = encoder.home
             /\ encoder'.position = p
      /\ rotor' # 0 /\ rotor' % 4 \in {0, 1} => queue' = queue /\ encoder' = encoder
  BY <1>1, MoveDown
<1>4. /\ q = 0 => encoder.home /\ p = 0
      /\ q # 0 => \/ p = q \div 4
                  \/ p = (q \div 4) + 1
                  \/ q \div 4 = R - 1 /\ p = 0
      /\ q % 4 = 3 => ~encoder.cwFailed
  BY <1>2 DEF Sighted, Sector
<1>5. /\ params.ok /\ Recent
      /\ \/ p > params.requested
         \/ q = 0 /\ params.requested = 0
         \/ p = params.requested /\ Told
  BY <1>2 DEF Moving, Ahead
<1>6. /\ q # 0 => travel <= 4 * (R - 1 - p) + 3 + (3 - (q % 4))
      /\ q = 0 => travel <= 4 * (R - 1 - p - 1) + 3 + (3 - (q % 4))
  BY <1>1, <1>2 DEF Moving, Direct, Since
<1>7. rotor' \in Nat /\ rotor' % 4 \in {0, 1, 2, 3} /\ rotor' < 4 * R
  BY <1>1, <1>3
<1>12. encoder'.position \in Nat /\ encoder'.position <= R - 1
  BY <1>1, <1>3, RIsHere DEF Ready, Enc!EncoderStates, Enc!Positions
\* A count: the target has not been reached, or the home position has.
<1>8. CASE rotor' % 4 = 3
  <2>1. q % 4 = 0 /\ rotor' # 0
    <3>1. CASE q = 0
      BY <1>1, <1>3, <3>1
    <3>2. CASE q # 0
      BY <1>1, <1>3, <1>8, <3>2
    <3> QED
      BY <3>1, <3>2
  <2>2. pc # "stop" /\ Len(queue) <= IF q = 0 THEN 2 ELSE 1
    BY <1>1, <2>1
  <2>3. Put(StepEvent) /\ ~encoder'.home /\ ~encoder'.cwFailed
    BY <1>3, <1>8
  <2>4. q = 0 => /\ params.requested = 0 /\ encoder'.position = 0 /\ rotor' = 4 * R - 1
                 /\ rotor' \div 4 = R - 1
    <3>1. SUFFICES ASSUME q = 0 PROVE /\ params.requested = 0 /\ encoder'.position = 0
                                      /\ rotor' = 4 * R - 1 /\ rotor' \div 4 = R - 1
      OBVIOUS
    <3>2. p = 0 /\ encoder.home /\ rotor' = 4 * R - 1
      BY <1>3, <1>4, <3>1
    <3>3. encoder'.position = 0
      BY <1>3, <1>8, <3>2 DEF Counts
    <3>4. params.requested = 0
      BY <1>1, <1>5, <2>1, <3>2
    <3> QED
      BY <1>1, <3>2, <3>3, <3>4, LastQuarter
  <2>5. q # 0 => /\ p > params.requested /\ encoder'.position = p - 1
                 /\ rotor' = q - 1 /\ rotor' \div 4 = (q \div 4) - 1
    <3>1. SUFFICES ASSUME q # 0 PROVE /\ p > params.requested /\ encoder'.position = p - 1
                                      /\ rotor' = q - 1 /\ rotor' \div 4 = (q \div 4) - 1
      OBVIOUS
    <3>2. p > params.requested
      BY <1>1, <1>5, <2>1, <3>1
    <3>3. p # 0
      BY <1>1, <3>2
    <3>4. encoder'.position = p - 1
      BY <1>1, <1>3, <1>8, <3>1, <3>3 DEF Counts, Enc!Decrement
    <3>5. rotor' = q - 1 /\ q = rotor' + 1
      BY <1>1, <1>3, <3>1
    <3>6. rotor' \div 4 = (q \div 4) - 1
      BY <1>1, <1>7, <1>8, <3>5, SectorsDown
    <3> QED
      BY <3>2, <3>4, <3>5, <3>6
  <2>6. Sighted'
    <3>1. \/ encoder'.position \in {rotor' \div 4, (rotor' \div 4) + 1}
          \/ rotor' \div 4 = R - 1 /\ encoder'.position = 0
      <4>1. CASE q = 0
        BY <2>4, <4>1
      <4>2. CASE q # 0
        <5>1. PICK k \in Int : k = q \div 4
          BY <1>1
        <5>2. p = k \/ p = k + 1
          BY <1>1, <1>4, <2>5, <4>2, <5>1
        <5>3. encoder'.position = k - 1 \/ encoder'.position = (k - 1) + 1
          BY <2>5, <4>2, <5>2
        <5> QED
          BY <2>5, <4>2, <5>1, <5>3
      <4> QED
        BY <4>1, <4>2
    <3> QED
      BY <1>1, <1>2, <2>1, <2>3, <3>1 DEF Sighted, Sector
  <2>7. Recent' /\ Told'
    <3>1. /\ \A i \in DOMAIN queue' :
                  queue'[i].type \in {"STEP", "HOME"} \/ (i = 1 /\ pc' = "return")
          /\ Len(queue') = Len(queue) + 1 /\ Told' /\ (Waiting("HOME")' => Waiting("HOME"))
      BY <1>1, <1>5, <2>2, <2>3, StepPosted
    <3>2. Len(queue') <= 3
      BY <1>1, <2>2, <3>1
    <3>3. Waiting("HOME")' => rotor' = 4 * R - 1 /\ slack' >= Slack
      BY <1>1, <2>4, <3>1
    <3>4. Enc!Turned(0, Cw) = 4 * R - 1
      <4>1. 0 \in Enc!Quarters
        BY <1>1, RIsHere DEF Enc!Quarters
      <4> QED
        BY <1>1, <4>1, TurnedDown
    <3> QED
      BY <1>1, <1>2, <1>8, <2>1, <3>1, <3>2, <3>3, <3>4 DEF Recent, StepQuarter
  <2>8. Ahead'
    <3>1. encoder'.position >= params.requested
      BY <1>1, <2>4, <2>5
    <3> QED
      BY <1>1, <1>12, <2>7, <3>1 DEF Ahead
  <2>9. Direct'
    <3>1. CASE q = 0
      <4>1. travel <= 4 * (R - 1 - 0 - 1) + 3 + 3
        BY <1>1, <1>4, <1>6, <2>1, <3>1
      <4>2. travel + 1 <= 4 * (R - 1 - 0) + 3
        BY <1>1, <4>1
      <4>3. travel' <= 4 * (R - 1 - encoder'.position) + 3
        BY <1>1, <2>4, <3>1, <4>1, <4>2
      <4> QED
        BY <1>1, <1>2, <1>8, <1>12, <2>1, <4>3 DEF Direct, Since
    <3>2. CASE q # 0
      <4>1. travel <= 4 * (R - 1 - p) + 3 + 3
        BY <1>1, <1>6, <2>1, <3>2
      <4>2. PICK k \in Nat : k = encoder'.position
        BY <1>12
      <4>5. k = p - 1
        BY <2>5, <3>2, <4>2
      <4>7. R \in Nat /\ p \in Nat /\ travel \in Nat
        BY <1>1
      <4>6. travel <= 4 * (R - 1 - k) + 3 /\ travel + 1 <= 4 * (R - 1 - k) + 3
        BY <4>1, <4>5, <4>7, Nearer
      <4>3. travel' <= 4 * (R - 1 - encoder'.position) + 3
        BY <1>1, <4>2, <4>6
      <4> QED
        BY <1>1, <1>2, <1>8, <1>12, <2>1, <4>3 DEF Direct, Since
    <3> QED
      BY <3>1, <3>2
  <2>10. params'.ok
    BY <1>1, <1>5
  <2> QED
    BY <1>3, <2>2, <2>6, <2>7, <2>8, <2>9, <2>10 DEF Moving
\* The quarter steps that count nothing.
<1>9. CASE rotor' # 0 /\ rotor' % 4 # 3
  <2>1. /\ rotor' = q - 1 /\ q # 0
        /\ rotor' \div 4 = q \div 4 /\ 3 - (rotor' % 4) = (3 - (q % 4)) + 1
        /\ rotor' % 4 = 2 => q % 4 = 3
        /\ rotor' % 4 # 2 => q % 4 # 3
    <3>1. q # 0
      BY <1>1, <1>3, <1>9, LastQuarter
    <3>2. rotor' = q - 1 /\ q = rotor' + 1
      BY <1>1, <1>3, <3>1
    <3>3. /\ rotor' \div 4 = q \div 4
          /\ 3 - (rotor' % 4) = (3 - (q % 4)) + 1
          /\ rotor' % 4 = 2 => q % 4 = 3
          /\ rotor' % 4 # 2 => q % 4 # 3
      BY <1>1, <1>7, <1>9, <3>2, SectorsDown
    <3> QED
      BY <3>1, <3>2, <3>3
  <2>2. queue' = queue /\ encoder'.position = p /\ ~encoder'.home
    <3>1. CASE rotor' % 4 = 2
      BY <1>1, <1>3, <1>4, <2>1, <3>1
    <3>2. CASE rotor' % 4 # 2
      BY <1>1, <1>3, <1>7, <1>9, <2>1, <3>2
    <3> QED
      BY <3>1, <3>2
  <2>3. /\ \A type : Waiting(type)' <=> Waiting(type)
        /\ Told' <=> Told
    BY <1>1, <2>2, NothingPosted
  <2>4. Sighted'
    BY <1>1, <1>2, <1>4, <1>9, <2>1, <2>2 DEF Sighted, Sector
  <2>5. Recent'
    <3>1. \A i \in DOMAIN queue' :
              queue'[i].type \in {"STEP", "HOME"} \/ (i = 1 /\ pc' = "return")
      BY <1>1, <1>5, <2>2 DEF Recent
    <3>2. Waiting("STEP")' => rotor' % 4 = 2 /\ slack' >= Slack
      BY <1>1, <2>1, <2>3
    <3>3. ~Waiting("HOME")'
      BY <1>1, <2>1, <2>3
    <3>4. Len(queue') <= IF rotor' % 4 = 2 THEN 3 ELSE 1
      <4>1. q % 4 = 3 => Len(queue) <= 3
        BY <1>1, <1>2, <1>5, <2>1 DEF Recent, StepQuarter
      <4> QED
        BY <1>1, <2>1, <2>2, <4>1
    <3> QED
      BY <1>1, <1>2, <1>9, <3>1, <3>2, <3>3, <3>4 DEF Recent, StepQuarter
  <2>6. Ahead'
    BY <1>1, <1>5, <2>1, <2>2, <2>3 DEF Ahead
  <2>7. Direct'
    <3>1. Since' = (3 - (q % 4)) + 1 /\ 3 - (q % 4) \in Nat
      BY <1>1, <1>2, <2>1 DEF Since
    <3>2. travel + 1 <= 4 * (R - 1 - p) + 3 + ((3 - (q % 4)) + 1)
      BY <1>1, <1>6, <2>1, <3>1
    <3>3. travel' <= 4 * (R - 1 - encoder'.position) + 3 + Since'
      BY <1>1, <1>6, <2>1, <2>2, <3>1, <3>2
    <3> QED
      BY <1>1, <1>2, <1>9, <2>2, <3>3 DEF Direct
  <2>8. params'.ok
    BY <1>1, <1>5
  <2> QED
    BY <1>3, <2>2, <2>4, <2>5, <2>6, <2>7, <2>8 DEF Moving
\* The home position: the count becomes 0, which was the target.
<1>10. CASE rotor' = 0
  <2>1. q = 1 /\ q \div 4 = 0 /\ q % 4 = 1
    BY <1>1, <1>3, <1>10
  <2>2. p = 1 /\ params.requested = 0 /\ pc # "stop" /\ Len(queue) <= 1
    BY <1>1, <1>4, <1>5, <2>1
  <2>3. Put(HomeEvent) /\ encoder'.position = 0 /\ encoder'.home
    BY <1>3, <1>10
  <2>4. Sighted'
    BY <1>1, <1>2, <1>10, <2>3 DEF Sighted
  <2>5. Recent'
    <3>1. /\ \A i \in DOMAIN queue' :
                  queue'[i].type \in {"STEP", "HOME"} \/ (i = 1 /\ pc' = "return")
          /\ Len(queue') = Len(queue) + 1 /\ (Waiting("STEP")' => Waiting("STEP"))
      BY <1>1, <1>5, <2>2, <2>3, HomePosted
    <3>2. Len(queue') <= 2 /\ ~Waiting("STEP")'
      BY <1>1, <2>1, <2>2, <3>1
    <3> QED
      BY <1>1, <1>10, <3>1, <3>2 DEF Recent
  <2>6. Ahead'
    BY <1>1, <1>10, <2>2 DEF Ahead
  <2>7. Direct'
    <3>1. travel <= 4 * (R - 1 - 1) + 3 + 2
      BY <1>1, <1>6, <2>1, <2>2
    <3>2. Since' = 3
      BY <1>1, <1>2, <1>10 DEF Since
    <3>3. travel' <= 4 * (R - 1 - encoder'.position - 1) + 3 + Since'
      BY <1>1, <2>3, <3>1, <3>2
    <3> QED
      BY <1>1, <1>2, <1>10, <3>3 DEF Direct
  <2>8. params'.ok
    BY <1>1, <1>5
  <2> QED
    BY <1>3, <2>2, <2>4, <2>5, <2>6, <2>7, <2>8 DEF Moving
<1> QED
  BY <1>8, <1>9, <1>10

\* Every turn of the motor, in calibration and in execution.
LEMMA TurnsHome ==
    ASSUME Keeping, TypeOK, Ready(encoder), Homing, MotorTurns, motor.dir = Cw
    PROVE  Ready(encoder') /\ Homing' /\ motor'.dir = Cw
<1>1. Move(Cw) /\ motor' = motor
  BY DEF MotorTurns
<1>2. /\ Ready(encoder')
      /\ rotor' = IF rotor = 0 THEN 4 * R - 1 ELSE rotor - 1
      /\ rotor' = 0 => Put(HomeEvent) /\ encoder'.position = 0 /\ encoder'.home
      /\ rotor' % 4 = 3 => /\ Put(StepEvent) /\ ~encoder'.home /\ ~encoder'.cwFailed
                           /\ Counts(Enc!Decrement(encoder.position))
      /\ rotor' # 0 => Put(StepEvent) \/ queue' = queue
  BY <1>1, MoveDown
<1>3. slack \in Nat /\ Slack \in Nat /\ Slack <= 1 /\ R \in Nat /\ R >= 3
  BY BoundsAssumption, SizesAssumption DEF TypeOK, Keeping
<1>4. SUFFICES ASSUME Waiting("HOME")'
               PROVE  /\ encoder'.position = 0
                      /\ \/ rotor' = 0 /\ encoder'.home
                         \/ /\ rotor' = 4 * R - 1 /\ slack' >= Slack
                            /\ ~encoder'.home /\ ~encoder'.cwFailed
  BY <1>1, <1>2 DEF Homing
<1>5. CASE rotor' = 0
  BY <1>2, <1>5
<1>6. CASE rotor' # 0
  <2>1. Waiting("HOME")
    <3>1. CASE queue' = queue
      BY <1>4, <3>1 DEF Waiting
    <3>2. CASE Put(StepEvent)
      <4>1. StepEvent \in Events /\ StepEvent.type = "STEP" /\ queue \in Rings
        BY EventTypes DEF StepEvent, EncoderEvent, Event, TypeOK, Rings, MAX
      <4>2. Waiting("HOME") \/ "HOME" = StepEvent.type
        BY <1>4, <3>2, <4>1, PutWaits
      <4> QED
        BY <4>1, <4>2
    <3> QED
      BY <1>2, <1>6, <3>1, <3>2
  <2>2. slack < Slack /\ slack' = slack + 1
    BY <2>1 DEF MotorTurns, EncoderEventWaiting, Waiting
  <2>3. slack' >= Slack /\ ~(slack >= Slack)
    BY <1>3, <2>2
  <2>4. encoder.position = 0 /\ rotor = 0 /\ encoder.home
    BY <2>1, <2>3 DEF Homing
  <2>5. rotor' = 4 * R - 1 /\ rotor' % 4 = 3
    BY <1>2, <1>3, <2>4, LastQuarter
  <2> QED
    BY <1>2, <2>3, <2>4, <2>5 DEF Counts
<1> QED
  BY <1>5, <1>6

LEMMA CourseTurns ==
    ASSUME Keeping, CourseInv, MotorTurns
    PROVE  OnCourse'
<1> USE DEF CourseInv, WaitInv, IInv
<1>1. /\ motor.on /\ motor' = motor /\ params' = params /\ pc' = pc /\ state' = state
      /\ motor.dir \in {Acw, Cw} /\ state \in {"CALIBRATION", "READY", "EXECUTION"}
  BY DEF MotorTurns, app, TypeOK, Acw, Cw
<1>2. state # "READY" /\ pc \notin {"boot", "init", "respond", "decide"}
  BY <1>1 DEF Expected, Off
<1>3. Ready(encoder)
  BY <1>2 DEF OnCourse, Ready, TypeOK
<1>4. CASE state = "CALIBRATION"
  <2>1. Homing /\ motor.dir = Cw
    BY <1>1, <1>4 DEF OnCourse
  <2>2. Ready(encoder') /\ Homing' /\ motor'.dir = Cw
    BY <1>3, <2>1, TurnsHome
  <2>3. pc # "stop" /\ travel' = travel
    BY <1>4 DEF Expected, MotorTurns
  <2>4. DirectPath'
    BY <2>3 DEF OnCourse, DirectPath
  <2>5. params.ok => params.requested \in 0 .. R - 1
    BY DEF OnCourse
  <2> QED
    BY <1>1, <1>2, <1>4, <2>2, <2>3, <2>4, <2>5 DEF OnCourse, Ready
<1>5. CASE state = "EXECUTION"
  <2>1. Sighted /\ Moving /\ params.ok /\ params.requested \in 0 .. R - 1
    BY <1>1, <1>5 DEF OnCourse, Moving
  <2>2. pc = "stop" => /\ Head(queue).type \in {"INTERNAL", "STEP"}
                       /\ encoder.position = params.requested
    BY <2>1 DEF OnCourse
  <2>3. /\ Ready(encoder') /\ Sighted' /\ Moving'
        /\ pc = "stop" => encoder'.position = encoder.position
    <3>1. CASE motor.dir = Acw
      BY <1>3, <1>5, <2>1, <2>2, <3>1, TurnsUp
    <3>2. CASE motor.dir = Cw
      BY <1>3, <1>5, <2>1, <2>2, <3>2, TurnsDown
    <3> QED
      BY <1>1, <3>1, <3>2
  <2>6. TypeOK'
    BY IInvStep DEF Next
  <2>4. pc = "stop" => Head(queue').type \in {"INTERNAL", "STEP"}
    <3>1. SUFFICES ASSUME pc = "stop" PROVE Head(queue').type \in {"INTERNAL", "STEP"}
      OBVIOUS
    <3>2. /\ Len(queue) \in Nat /\ Len(queue') \in Nat /\ Len(queue') >= Len(queue)
          /\ \A i \in 1 .. Len(queue) : queue'[i] = queue[i]
      BY <1>1, MoveAppends DEF MotorTurns, Acw, Cw
    <3>3. queue \in Seq(Events) /\ queue # <<>>
      BY <3>1 DEF TypeOK
    <3>4. Len(queue) >= 1 /\ Head(queue) = queue[1]
      BY <3>3
    <3>5. queue'[1] = queue[1]
      BY <3>2, <3>4
    <3>6. Head(queue') = queue'[1]
      BY <2>6, <3>2, <3>4 DEF TypeOK
    <3> QED
      BY <2>2, <3>1, <3>4, <3>5, <3>6
  <2>5. DirectPath'
    <3>2. pc' = "stop" => Waiting("STEP")'
      <4>1. SUFFICES ASSUME pc' = "stop" PROVE Waiting("STEP")'
        OBVIOUS
      <4>2. queue' # <<>> /\ queue' \in Seq(Events)
        BY <2>6, <4>1 DEF TypeOK
      <4>3. 1 \in DOMAIN queue' /\ Head(queue') = queue'[1]
        BY <4>2
      <4>4. queue'[1].type \in {"STEP", "HOME"}
        BY <2>3, <4>1, <4>3 DEF Moving, Recent
      <4> QED
        BY <1>1, <2>4, <4>1, <4>3, <4>4 DEF Waiting
    <3>3. Recent' /\ Ahead' /\ Direct' /\ params'.requested \in 0 .. R - 1
      BY <1>1, <2>1, <2>3 DEF Moving
    <3>4. Approaching'
      BY <2>6, <3>2, <3>3 DEF Approaching
    <3>5. (Approaching => DirectPath)'
      BY DirectBound, PTL
    <3> QED
      BY <3>4, <3>5
  <2> QED
    BY <1>1, <1>2, <1>5, <2>1, <2>2, <2>3, <2>4, <2>5 DEF OnCourse, Ready
<1> QED
  BY <1>1, <1>2, <1>4, <1>5

\* What stays when neither the plant nor the direction changes.
LEMMA PlantKept ==
    ASSUME encoder' = encoder, rotor' = rotor, motor'.dir = motor.dir
    PROVE  (Sighted' <=> Sighted) /\ (Rests' <=> Rests)
  BY DEF Sighted, Sector, Rests, StepQuarter

\* The environment's other steps: the host sends when the motor is off.
LEMMA CourseEnvironment ==
    ASSUME Keeping, CourseInv,
           \/ \E d \in {Enc!Anticlockwise, Enc!Clockwise} : Nudge(d)
           \/ \E c \in Commands : HostSend(c)
           \/ HostGivesUp
           \/ Reset
    PROVE  OnCourse'
<1> USE DEF CourseInv, WaitInv, IInv
<1>1. ASSUME NEW d \in {Enc!Anticlockwise, Enc!Clockwise}, Nudge(d) PROVE FALSE
  BY <1>1 DEF Nudge, TypeOK, Keeping
<1>2. ASSUME NEW c \in Commands, HostSend(c) PROVE OnCourse'
  <2>1. /\ state = "READY" /\ pc \notin {"boot", "init", "stop", "respond"} /\ ~motor.on
        /\ UNCHANGED <<app, plant, motor, pc>>
    BY <1>2 DEF HostSend, Keeping, Expected, Off
  <2>2. (Sighted' <=> Sighted) /\ (Rests' <=> Rests)
    BY <2>1, PlantKept DEF plant
  <2>3. DirectPath'
    BY <2>1 DEF OnCourse, DirectPath, plant
  <2> QED
    BY <2>1, <2>2, <2>3 DEF OnCourse, app, plant
<1>3. CASE HostGivesUp
  <2>1. UNCHANGED <<app, plant, motor, queue, pc>>
    BY <1>3 DEF HostGivesUp
  <2> QED
    BY <2>1 DEF OnCourse, Homing, Sighted, Sector, Rests, StepQuarter, Moving, Recent, Ahead,
                Direct, Since, Told, Waiting, DirectPath, app, plant
<1>4. CASE Reset
  <2>1. /\ encoder' = Enc!InitEncoder /\ motor' = MotorOff /\ queue' = <<>> /\ pc' = "boot"
        /\ state' = "CALIBRATION" /\ params' = NoParams /\ travel' = 0
    BY <1>4 DEF Reset
  <2>2. ~encoder'.notify /\ ~motor'.on /\ params'.requested = 0
    BY <2>1 DEF Enc!InitEncoder, MotorOff, NoParams
  <2>3. ~Waiting("HOME")'
    BY <2>1 DEF Waiting
  <2>4. DirectPath' /\ 0 \in 0 .. R - 1
    BY <2>1, SizesAssumption, BoundsAssumption DEF DirectPath
  <2> QED
    BY <2>1, <2>2, <2>3, <2>4 DEF OnCourse, Homing
<1> QED
  BY <1>1, <1>2, <1>3, <1>4

\* The ring's steps: a handled step has been compared, and the others stay.
LEMMA CourseScheduler ==
    ASSUME Keeping, CourseInv, InitDrivers \/ PostFirst \/ Execute \/ Return
    PROVE  OnCourse'
<1> USE DEF CourseInv, WaitInv, IInv
<1>1. CASE InitDrivers
  <2>1. /\ pc = "boot" /\ pc' = "init" /\ motor' = MotorOff /\ UNCHANGED <<app, queue, rotor, travel>>
        /\ encoder' = [encoder EXCEPT !.registered = TRUE, !.handling = IMMEDIATE]
    BY <1>1 DEF InitDrivers
  <2>2. encoder'.registered /\ encoder'.handling = IMMEDIATE /\ ~encoder'.notify
    BY <2>1 DEF TypeOK, Enc!EncoderStates, OnCourse
  <2>3. state = "CALIBRATION" /\ queue = <<>> /\ ~motor'.on
    BY <2>1, InitTypes DEF Expected, OnCourse
  <2>4. ~Waiting("HOME")'
    BY <2>1, <2>3 DEF Waiting
  <2>5. DirectPath'
    BY <2>1 DEF OnCourse, DirectPath
  <2> QED
    BY <2>1, <2>2, <2>3, <2>4, <2>5 DEF OnCourse, Homing, app
<1>2. CASE PostFirst
  <2>1. pc = "init" /\ pc' = "idle" /\ queue' = <<Internal>> /\ UNCHANGED <<app, plant, motor>>
    BY <1>2 DEF PostFirst
  <2>2. state = "CALIBRATION" /\ ~motor.on
    BY <2>1 DEF Expected
  <2>3. ~Waiting("HOME")'
    <3>1. Internal.type # "HOME"
      BY DEF Internal, Event
    <3> QED
      BY <2>1, <3>1 DEF Waiting
  <2>5. DirectPath'
    BY <2>1 DEF OnCourse, DirectPath, plant
  <2> QED
    BY <2>1, <2>2, <2>3, <2>5 DEF OnCourse, Homing, app, plant
<1>3. CASE Execute
  <2>1. pc = "idle" /\ pc' = "handler" /\ UNCHANGED <<app, plant, motor, queue>>
    BY <1>3 DEF Execute
  <2> QED
    BY <2>1 DEF OnCourse, Homing, Sighted, Sector, Rests, StepQuarter, Moving, Recent, Ahead,
                Direct, Since, Told, Waiting, DirectPath, app, plant
<1>4. CASE Return
  <2>1. pc = "return" /\ pc' = "idle" /\ queue' = Tail(queue) /\ UNCHANGED <<app, plant, motor>>
    BY <1>4 DEF Return
  <2>0. queue \in Seq(Events) /\ Len(queue) \in Nat /\ Len(queue) >= 1 /\ DOMAIN queue = 1 .. Len(queue)
    BY <2>1 DEF TypeOK
  <2>2. /\ queue' \in Seq(Events) /\ Len(queue') = Len(queue) - 1
        /\ DOMAIN queue' = 1 .. Len(queue')
        /\ \A i \in 1 .. Len(queue') : queue'[i] = queue[i + 1] /\ i + 1 \in DOMAIN queue
    BY <2>0, <2>1
  <2>3. ASSUME NEW type PROVE Waiting(type)' => Waiting(type)
    BY <2>2 DEF Waiting
  <2>4. Told => Told'
    <3>1. SUFFICES ASSUME NEW i \in DOMAIN queue, queue[i].type = "STEP", i > 1 PROVE Told'
      BY <2>1 DEF Told
    <3>2. i - 1 \in DOMAIN queue'
      BY <2>0, <2>2, <3>1
    <3>3. queue'[i - 1] = queue[i]
      BY <2>0, <2>2, <3>1, <3>2
    <3> QED
      BY <2>1, <3>1, <3>2, <3>3 DEF Told
  <2>5. Recent => Recent'
    <3>1. SUFFICES ASSUME Recent PROVE Recent'
      OBVIOUS
    <3>2. ASSUME NEW i \in DOMAIN queue' PROVE queue'[i].type \in {"STEP", "HOME"}
      <4>1. i + 1 \in DOMAIN queue /\ queue'[i] = queue[i + 1] /\ i + 1 # 1
        BY <2>0, <2>2, <3>2
      <4> QED
        BY <3>1, <4>1 DEF Recent
    <3>3. Len(queue') <= Len(queue) /\ Len(queue') \in Nat
      BY <2>0, <2>2
    <3>4. rotor' = rotor /\ slack' = slack /\ motor' = motor
      BY <2>1 DEF plant
    <3>5. Len(queue') <= IF rotor = 0 THEN 2 ELSE IF rotor % 4 \in {StepQuarter, 2} THEN 3 ELSE 1
      BY <2>0, <3>1, <3>3 DEF Recent
    <3> QED
      BY <2>3, <3>1, <3>2, <3>4, <3>5 DEF Recent, StepQuarter
  <2>6. Homing => Homing'
    BY <2>1, <2>3 DEF Homing, plant
  <2>7. (Sighted' <=> Sighted) /\ (Rests' <=> Rests)
    BY <2>1, PlantKept DEF plant
  <2>8. (Ahead => Ahead') /\ (Direct => Direct') /\ DirectPath'
    BY <2>1, <2>4 DEF Ahead, Direct, Since, OnCourse, DirectPath, plant, app
  <2> QED
    BY <2>1, <2>5, <2>6, <2>7, <2>8 DEF OnCourse, Moving, app, plant
<1> QED
  BY <1>1, <1>2, <1>3, <1>4

\* A handler meets a packet in READY alone, and what it ignores moves nothing.
LEMMA CoursePackets ==
    ASSUME Keeping, CourseInv, ProcessPacket \/ DropPacket \/ IgnoreEvent
    PROVE  OnCourse'
<1> USE DEF CourseInv, WaitInv, IInv
<1>0. /\ queue \in Seq(Events) /\ queue # <<>> /\ pc = "handler" /\ pc' = "return"
      /\ state \in {"CALIBRATION", "READY", "EXECUTION"} /\ UNCHANGED <<app, plant, motor>>
  BY DEF TypeOK, ProcessPacket, DropPacket, IgnoreEvent, Ignored, Handling
<1>1. 1 \in DOMAIN queue /\ Head(queue) = queue[1]
  BY <1>0
<1>2. /\ (Sighted' <=> Sighted) /\ (Rests' <=> Rests) /\ (Direct' <=> Direct)
      /\ (DirectPath' <=> DirectPath)
  BY <1>0, PlantKept DEF plant, Direct, Since, DirectPath
<1>3. CASE state = "READY"
  BY <1>0, <1>2, <1>3 DEF OnCourse, Off, app, plant
<1>4. CASE state # "READY"
  <2>1. Head(queue).type \notin {"PACKET", "CORRUPTED"}
    <3>1. SUFFICES ASSUME Head(queue).type \in HostTypes, Head(queue).type # "CMD" PROVE FALSE
      BY DEF HostTypes
    <3>2. state # "CALIBRATION"
      BY <1>1, <3>1 DEF Expected, HostEventWaiting, HostTypes
    <3>3. state # "EXECUTION"
      BY <1>0, <1>1, <3>1 DEF Expected, NoPacket
    <3> QED
      BY <1>0, <1>4, <3>2, <3>3
  <2>2. IgnoreEvent /\ queue' = queue
    BY <2>1 DEF ProcessPacket, DropPacket, IgnoreEvent, Handling
  <2>3. CASE state = "CALIBRATION"
    BY <1>0, <1>2, <2>2, <2>3 DEF OnCourse, Homing, Waiting, app, plant
  <2>4. CASE state = "EXECUTION"
    <3>1. Head(queue).type \in {"CMD", "HOME"}
      BY <2>2, <2>4 DEF IgnoreEvent, Ignored, Handling
    <3>2. Told => Told'
      <4>1. SUFFICES ASSUME NEW i \in DOMAIN queue, queue[i].type = "STEP" PROVE Told'
        BY <1>0 DEF Told
      <4>2. i # 1
        BY <1>1, <3>1, <4>1
      <4>3. i > 1
        BY <1>0, <4>1, <4>2
      <4> QED
        BY <2>2, <4>1, <4>3 DEF Told
    <3>3. Recent => Recent'
      BY <1>0, <2>2 DEF Recent, Waiting, StepQuarter, plant
    <3>4. Ahead => Ahead'
      BY <1>0, <3>2 DEF Ahead, plant, app
    <3> QED
      BY <1>0, <1>2, <2>2, <2>4, <3>3, <3>4 DEF OnCourse, Moving, app, plant
  <2> QED
    BY <1>0, <1>4, <2>3, <2>4
<1> QED
  BY <1>3, <1>4

\* Calibration ends where the home position was seen, or a quarter step later.
LEMMA CourseCalibration ==
    ASSUME Keeping, CourseInv, StartCalibration \/ EndCalibration
    PROVE  OnCourse'
<1> USE DEF CourseInv, WaitInv, IInv
<1>0. /\ queue \in Seq(Events) /\ queue # <<>> /\ pc = "handler" /\ pc' = "return"
      /\ state = "CALIBRATION" /\ UNCHANGED <<plant, queue, params>>
  BY DEF TypeOK, StartCalibration, EndCalibration, Handling, app
<1>1. 1 \in DOMAIN queue /\ Head(queue) = queue[1]
  BY <1>0
<1>2. DirectPath' /\ Homing
  BY <1>0 DEF OnCourse, DirectPath, plant
<1>3. CASE StartCalibration
  <2>1. state' = state /\ motor' = [on |-> TRUE, dir |-> Cw]
    BY <1>3 DEF StartCalibration, Drive, app, Cw
  <2>2. motor'.dir = Cw
    BY <2>1
  <2>3. Homing'
    BY <1>0, <1>2, <2>2 DEF Homing, Waiting, plant
  <2> QED
    BY <1>0, <1>2, <2>1, <2>2, <2>3 DEF OnCourse, plant
<1>4. CASE EndCalibration
  <2>1. state' = "READY" /\ Head(queue).type = "HOME" /\ motor' = [motor EXCEPT !.on = FALSE]
    BY <1>4 DEF EndCalibration, DriveStop, Handling
  <2>2. ~motor'.on /\ motor'.dir = motor.dir
    BY <2>1 DEF TypeOK
  <2>3. Waiting("HOME")
    BY <1>1, <2>1 DEF Waiting
  <2>4. /\ motor.dir = Cw /\ encoder.position = 0
        /\ \/ rotor = 0 /\ encoder.home
           \/ rotor = 4 * R - 1 /\ ~encoder.home /\ ~encoder.cwFailed
    BY <1>2, <2>3 DEF Homing
  <2>5. R \in Nat /\ R >= 3 /\ Acw # Cw
    BY SizesAssumption DEF Acw, Cw, Enc!Anticlockwise, Enc!Clockwise
  <2>6. Sighted /\ Rests
    <3>1. CASE rotor = 0
      BY <2>4, <2>5, <3>1 DEF Sighted, Rests
    <3>2. CASE rotor = 4 * R - 1
      <4>1. rotor # 0 /\ rotor \div 4 = R - 1 /\ rotor % 4 = 3
        BY <2>5, <3>2, LastQuarter
      <4> QED
        BY <2>4, <2>5, <3>2, <4>1 DEF Sighted, Sector, Rests, StepQuarter
    <3> QED
      BY <2>4, <3>1, <3>2
  <2>7. Sighted' /\ Rests'
    BY <1>0, <2>2, <2>6, PlantKept DEF plant
  <2> QED
    BY <1>0, <1>2, <2>1, <2>2, <2>7 DEF OnCourse, plant
<1> QED
  BY <1>3, <1>4

\* A command is taken with the motor off ...
LEMMA CourseAccept ==
    ASSUME Keeping, CourseInv, AcceptCommand
    PROVE  OnCourse'
<1> USE DEF CourseInv, WaitInv, IInv
<1> DEFINE position == ToPosition(Head(queue).command)
<1>1. /\ pc = "handler" /\ state = "READY" /\ Head(queue).type = "CMD"
      /\ Head(queue).command # Unknown /\ ~motor.on
      /\ params' = [requested |-> position, ok |-> IsValid(position)]
      /\ travel' = 0 /\ UNCHANGED <<encoder, rotor, motor>>
      /\ pc' \in {"decide", "return"} /\ (pc' = "decide" => state' = "READY")
      /\ state' \in {"READY", "EXECUTION"}
  BY DEF AcceptCommand, Handling, Off
<1>2. Head(queue) \in Events
  BY <1>1 DEF TypeOK
<1>3. position \in 0 .. UINT8 - 1
  BY <1>1, <1>2, CommandOfEvent, AngleTypes
<1>4. params'.ok => params'.requested \in 0 .. R - 1
  <2> HIDE DEF position
  <2>1. (params'.ok => IsValid(position)) /\ params'.requested = position
    BY <1>1
  <2> QED
    BY <1>3, <2>1, SizesAssumption DEF IsValid
<1>5. (Sighted' <=> Sighted) /\ (Rests' <=> Rests)
  BY <1>1, PlantKept
<1>6. DirectPath'
  BY <1>1, SizesAssumption, BoundsAssumption DEF DirectPath
<1> QED
  BY <1>1, <1>4, <1>5, <1>6 DEF OnCourse

\* ... and starts it from where it was stopped, which is why it may turn round.
LEMMA TurnsRound ==
    ASSUME TypeOK, Sighted, Rests, encoder' = encoder, rotor' = rotor, motor'.dir \in {Acw, Cw}
    PROVE  Sighted'
<1>1. R \in Nat /\ R >= 3 /\ rotor \in Nat /\ rotor < 4 * R /\ Acw # Cw
  BY SizesAssumption, RIsHere
     DEF TypeOK, Enc!Quarters, Acw, Cw, Enc!Anticlockwise, Enc!Clockwise
<1>2. CASE motor'.dir = motor.dir
  BY <1>2, PlantKept
<1>3. CASE motor'.dir # motor.dir /\ rotor = 0
  BY <1>1, <1>3 DEF Sighted
<1>4. CASE motor'.dir # motor.dir /\ rotor # 0
  <2>0. motor.dir \in {Acw, Cw}
    BY DEF TypeOK, Acw, Cw
  <2>1. CASE motor.dir = Acw
    <3>1. rotor % 4 \in {1, 2}
      BY <1>1, <1>4, <2>1 DEF Rests, StepQuarter
    <3>2. (rotor - 1) \div 4 = rotor \div 4 /\ rotor % 4 # 3
      BY <1>1, <3>1
    <3>3. motor'.dir = Cw
      BY <1>4, <2>1
    <3>4. Sector = (rotor - 1) \div 4 /\ Sector' = rotor \div 4
      BY <1>1, <2>1, <3>3 DEF Sector
    <3> QED
      BY <1>1, <1>4, <2>1, <3>2, <3>3, <3>4 DEF Sighted
  <2>2. CASE motor.dir = Cw
    <3>1. rotor % 4 \in {3, 2}
      BY <1>1, <1>4, <2>2 DEF Rests, StepQuarter
    <3>2. (rotor - 1) \div 4 = rotor \div 4 /\ rotor % 4 # 1 /\ rotor # 4 * R - 3
      BY <1>1, <3>1
    <3>3. motor'.dir = Acw
      BY <1>4, <2>2
    <3>4. Sector = rotor \div 4 /\ Sector' = (rotor - 1) \div 4
      BY <1>1, <2>2, <3>3 DEF Sector
    <3> QED
      BY <1>1, <1>4, <2>2, <3>2, <3>3, <3>4 DEF Sighted
  <2> QED
    BY <2>0, <2>1, <2>2
<1> QED
  BY <1>2, <1>3, <1>4

LEMMA CourseDecide ==
    ASSUME Keeping, CourseInv, DecideDirection
    PROVE  OnCourse'
<1> USE DEF CourseInv, WaitInv, IInv
<1>1. /\ pc = "decide" /\ pc' = "return" /\ state' = "EXECUTION"
      /\ UNCHANGED <<params, current, plant>>
  BY DEF DecideDirection
<1>2. /\ state = "READY" /\ Len(queue) = 1 /\ params.ok /\ current = encoder.position
      /\ queue[1].type \in HostTypes /\ ~motor.on
  BY <1>1 DEF Expected, Off
<1>3. /\ Sighted /\ Rests /\ params.requested \in 0 .. R - 1 /\ travel = 0
      /\ encoder.registered /\ encoder.handling = IMMEDIATE /\ ~encoder.notify /\ DirectPath
  BY <1>1, <1>2 DEF OnCourse
<1>4. DirectPath'
  BY <1>1, <1>3 DEF DirectPath, plant
<1>5. /\ R \in Nat /\ R >= 3 /\ rotor \in Nat /\ rotor < 4 * R /\ Acw # Cw
      /\ encoder.position \in Nat /\ encoder.position <= R - 1
  BY SizesAssumption, RIsHere
     DEF TypeOK, Enc!Quarters, Enc!EncoderStates, Enc!Positions, Acw, Cw, Enc!Anticlockwise,
         Enc!Clockwise
<1>6. CASE params.requested = current /\ UNCHANGED motor
  <2>1. Sighted' /\ Rests'
    BY <1>1, <1>3, <1>6, PlantKept DEF plant
  <2> QED
    BY <1>1, <1>2, <1>3, <1>4, <1>6, <2>1 DEF OnCourse, plant
<1>7. ASSUME NEW d \in {Acw, Cw}, Drive(d), UNCHANGED queue,
             d = Acw => params.requested > current,
             d = Cw => params.requested < current
      PROVE  OnCourse'
  <2>1. motor'.on /\ motor'.dir = d
    BY <1>7 DEF Drive
  <2>2. Sighted'
    BY <1>1, <1>3, <2>1, TurnsRound DEF plant
  <2>3. Recent'
    <3>1. DOMAIN queue = 1 .. 1
      BY <1>2 DEF TypeOK
    <3>2. \A i \in DOMAIN queue : i = 1
      BY <3>1
    <3>3. ~Waiting("STEP")' /\ ~Waiting("HOME")'
      BY <1>2, <1>7, <3>2 DEF Waiting, HostTypes
    <3>4. Len(queue') = 1 /\ \A i \in DOMAIN queue' : i = 1
      BY <1>2, <1>7, <3>2
    <3> QED
      BY <1>1, <3>3, <3>4 DEF Recent
  <2>4. Ahead'
    BY <1>1, <1>2, <1>7, <2>1 DEF Ahead, plant
  <2>5. Direct'
    <3>1. CASE d = Acw
      <4>1. (rotor + 3) % 4 \in Nat
        BY <1>5
      <4>2. 0 <= 4 * encoder.position + 3 + ((rotor + 3) % 4)
        BY <1>5, <4>1
      <4>3. rotor = 0 \/ rotor \in {4 * R - 2, 4 * R - 1} => (rotor + 3) % 4 >= 1
        BY <1>5
      <4>4. rotor = 0 => encoder.position = 0
        BY <1>3 DEF Sighted
      <4>5. rotor = 0 \/ (encoder.position = 0 /\ rotor \in {4 * R - 2, 4 * R - 1})
                => 0 <= 4 * (encoder.position - 1) + 3 + ((rotor + 3) % 4)
        BY <1>5, <4>1, <4>3, <4>4
      <4>6. /\ motor'.dir = Acw /\ travel' = 0 /\ rotor' = rotor
            /\ encoder'.position = encoder.position
        BY <1>1, <1>3, <2>1, <3>1 DEF plant
      <4> QED
        BY <4>2, <4>5, <4>6 DEF Direct, Since
    <3>2. CASE d = Cw
      <4>1. 3 - (rotor % 4) \in Nat
        BY <1>5
      <4>2. 0 <= 4 * (R - 1 - encoder.position) + 3 + (3 - (rotor % 4))
        BY <1>5, <4>1
      <4>3. rotor # 0
        BY <1>2, <1>3, <1>5, <1>7, <3>2 DEF Sighted
      <4> QED
        BY <1>1, <1>3, <1>5, <2>1, <3>2, <4>2, <4>3 DEF Direct, Since, plant
    <3> QED
      BY <3>1, <3>2
  <2> QED
    BY <1>1, <1>2, <1>3, <1>4, <2>1, <2>2, <2>3, <2>4, <2>5 DEF OnCourse, Moving, plant
<1>8. CASE params.requested > current /\ Drive(Acw) /\ UNCHANGED queue
  BY <1>1, <1>2, <1>3, <1>5, <1>7, <1>8
<1>9. CASE params.requested < current /\ Drive(Cw) /\ UNCHANGED queue
  BY <1>1, <1>2, <1>3, <1>5, <1>7, <1>9
<1> QED
  BY <1>6, <1>8, <1>9 DEF DecideDirection, Acw, Cw

\* The position is compared, and the motor stopped where a step was counted, or a
\* quarter step later.
LEMMA CourseCompare ==
    ASSUME Keeping, CourseInv, CheckPosition \/ StopMotor \/ Respond
    PROVE  OnCourse'
<1> USE DEF CourseInv, WaitInv, IInv
<1>1. CASE CheckPosition
  <2>1. /\ pc = "handler" /\ state = "EXECUTION" /\ Head(queue).type \in {"INTERNAL", "STEP"}
        /\ pc' = IF params.requested = encoder.position \/ ~params.ok THEN "stop" ELSE "return"
        /\ UNCHANGED <<state, params, plant, motor, queue>>
    BY <1>1 DEF CheckPosition, Handling
  <2>2. /\ (Sighted' <=> Sighted) /\ (Rests' <=> Rests) /\ (Direct' <=> Direct)
        /\ (DirectPath' <=> DirectPath)
    BY <2>1, PlantKept DEF plant, Direct, Since, DirectPath
  <2>3. Recent => Recent'
    BY <2>1 DEF Recent, Waiting, StepQuarter, plant
  <2>4. params.ok /\ Ahead => Ahead'
    <3>1. CASE params.requested = encoder.position
      BY <2>1, <3>1 DEF Ahead, Told, plant
    <3>2. CASE params.requested # encoder.position
      BY <2>1, <3>2 DEF Ahead, plant
    <3> QED
      BY <3>1, <3>2
  <2>5. Moving => Moving'
    BY <2>1, <2>2, <2>3, <2>4 DEF Moving
  <2> QED
    BY <2>1, <2>2, <2>5 DEF OnCourse, plant
<1>2. CASE StopMotor
  <2>1. /\ pc = "stop" /\ pc' = "respond" /\ motor' = [motor EXCEPT !.on = FALSE]
        /\ UNCHANGED <<app, plant, queue>> /\ state = "EXECUTION"
    BY <1>2 DEF StopMotor, DriveStop, Expected
  <2>2. ~motor'.on /\ motor'.dir = motor.dir
    BY <2>1 DEF TypeOK
  <2>3. Rests
    <3>1. SUFFICES ASSUME motor.on PROVE Rests
      BY <2>1 DEF OnCourse
    <3>2. Recent /\ Head(queue).type \in {"INTERNAL", "STEP"}
      BY <2>1, <3>1 DEF OnCourse, Moving
    <3>3. 1 \in DOMAIN queue /\ Head(queue) = queue[1]
      BY <2>1 DEF TypeOK
    <3>4. Waiting("STEP")
      BY <2>1, <3>2, <3>3 DEF Recent, Waiting
    <3> QED
      BY <3>2, <3>4 DEF Recent, Rests
  <2>4. (Sighted' <=> Sighted) /\ (Rests' <=> Rests) /\ (DirectPath' <=> DirectPath)
    BY <2>1, <2>2, PlantKept DEF plant, DirectPath
  <2> QED
    BY <2>1, <2>2, <2>3, <2>4 DEF OnCourse, app, plant
<1>3. CASE Respond
  <2>1. /\ pc = "respond" /\ pc' = "return" /\ state = "EXECUTION" /\ state' = "READY"
        /\ ~motor.on /\ UNCHANGED <<params, plant, motor, queue>>
    BY <1>3 DEF Respond, Expected, Off
  <2>2. (Sighted' <=> Sighted) /\ (Rests' <=> Rests) /\ (DirectPath' <=> DirectPath)
    BY <2>1, PlantKept DEF plant, DirectPath
  <2> QED
    BY <2>1, <2>2 DEF OnCourse, plant
<1> QED
  BY <1>1, <1>2, <1>3

LEMMA CourseInvHolds == ASSUME Keeping PROVE Spec => []CourseInv
<1>1. Init => CourseInv
  <2> SUFFICES ASSUME Init PROVE CourseInv
    OBVIOUS
  <2>1. WaitInv
    BY WaitInvInit
  <2>2. ~encoder.notify /\ ~motor.on /\ params.requested = 0 /\ 0 \in 0 .. R - 1
    BY SizesAssumption DEF Init, Enc!InitEncoder, MotorOff, NoParams
  <2>3. Homing
    BY DEF Init, Homing, Waiting
  <2>4. DirectPath
    BY SizesAssumption, BoundsAssumption DEF Init, DirectPath
  <2> QED
    BY <2>1, <2>2, <2>3, <2>4 DEF Init, CourseInv, OnCourse
<1>2. CourseInv /\ [Next]_vars => CourseInv'
  <2> SUFFICES ASSUME CourseInv, [Next]_vars PROVE CourseInv'
    OBVIOUS
  <2>1. WaitInv'
    BY WaitInvStep DEF CourseInv, Keeping
  <2>2. CASE MainThread
    <3>1. CASE InitDrivers \/ PostFirst \/ Execute \/ Return
      BY <2>1, <3>1, CourseScheduler DEF CourseInv
    <3>2. CASE ProcessPacket \/ DropPacket \/ IgnoreEvent
      BY <2>1, <3>2, CoursePackets DEF CourseInv
    <3>3. CASE StartCalibration \/ EndCalibration
      BY <2>1, <3>3, CourseCalibration DEF CourseInv
    <3>4. CASE AcceptCommand \/ DecideDirection
      BY <2>1, <3>4, CourseAccept, CourseDecide DEF CourseInv
    <3>5. CASE CheckPosition \/ StopMotor \/ Respond
      BY <2>1, <3>5, CourseCompare DEF CourseInv
    <3> QED
      BY <2>2, <3>1, <3>2, <3>3, <3>4, <3>5 DEF MainThread
  <2>3. CASE MotorTurns
    BY <2>1, <2>3, CourseTurns DEF CourseInv
  <2>4. CASE Next /\ ~MainThread /\ ~MotorTurns
    BY <2>1, <2>4, CourseEnvironment DEF Next, CourseInv
  <2>5. CASE UNCHANGED vars
    BY <2>1, <2>5
       DEF vars, CourseInv, OnCourse, Homing, Sighted, Sector, Rests, StepQuarter, Moving,
           Recent, Ahead, Direct, Since, Told, Waiting, DirectPath
  <2> QED
    BY <2>2, <2>3, <2>4, <2>5
<1> QED
  BY <1>1, <1>2, PTL DEF Spec

\* The motor takes the direct way, for every encoder, every commanded angle and
\* every place the rotor may stand at power-up or at a reset: if the host waits,
\* nobody turns the rotor by hand, the main loop is no later than one quarter step,
\* and the ring holds the three events that may then be waiting.
THEOREM TakesDirectPath == ASSUME Keeping PROVE Spec => []DirectPath
<1>1. CourseInv => DirectPath
  BY DEF CourseInv, OnCourse
<1> QED
  BY <1>1, CourseInvHolds, PTL

-----------------------------------------------------------------------------
(* Which command is served: with a host that neither gives up nor sends     *)
(* early, the one it waits for.                                            *)

ServingInv == WaitInv /\ Serving

\* What a put leaves of the host's events, and what it adds to them.
LEMMA PutServes ==
    ASSUME TypeOK, NEW e \in Events, Put(e), NEW c,
           \A i \in DOMAIN queue : queue[i].type \in {"PACKET", "CMD"} => queue[i].command = c,
           e.type \in {"PACKET", "CMD"} => e.command = c
    PROVE  \A i \in DOMAIN queue' :
               queue'[i].type \in {"PACKET", "CMD"} => queue'[i].command = c
<1>1. queue \in Rings /\ queue \in Seq(Events) /\ DOMAIN queue = 1 .. Len(queue)
  BY DEF TypeOK, Rings, MAX
<1>2. /\ Len(queue) \in Nat /\ Len(queue') \in Nat /\ queue' \in Seq(Events)
      /\ Len(queue') \in {Len(queue), Len(queue) + 1}
      /\ \A i \in 1 .. Len(queue) : queue'[i] = queue[i]
      /\ Len(queue') = Len(queue) + 1 => queue'[Len(queue')] = e
  BY <1>1, PutAppends
<1>3. SUFFICES ASSUME NEW i \in DOMAIN queue', queue'[i].type \in {"PACKET", "CMD"}
               PROVE  queue'[i].command = c
  OBVIOUS
<1>4. i \in 1 .. Len(queue')
  BY <1>2
<1>5. CASE i \in 1 .. Len(queue)
  BY <1>1, <1>2, <1>3, <1>5
<1>6. CASE ~(i \in 1 .. Len(queue))
  <2>1. i = Len(queue') /\ Len(queue') = Len(queue) + 1
    <3>1. /\ Len(queue) \in Nat /\ Len(queue') \in Nat
          /\ Len(queue') = Len(queue) \/ Len(queue') = Len(queue) + 1
      BY <1>2
    <3> QED
      BY <1>4, <1>6, <3>1
  <2>2. queue'[i] = e
    BY <1>2, <2>1
  <2> QED
    BY <1>3, <2>2
<1> QED
  BY <1>5, <1>6

\* The environment: the host's next packet is its only one.
LEMMA ServingEnvironment ==
    ASSUME Patient, Nudges = 0, ~Restarts, ServingInv,
           \/ MotorTurns
           \/ \E d \in {Enc!Anticlockwise, Enc!Clockwise} : Nudge(d)
           \/ \E c \in Commands : HostSend(c)
           \/ HostGivesUp
           \/ Reset
    PROVE  Serving'
<1> USE DEF ServingInv, WaitInv, IInv
<1>1. CASE MotorTurns
  <2>1. /\ motor.dir \in {Enc!Anticlockwise, Enc!Clockwise} /\ Move(motor.dir)
        /\ UNCHANGED <<app, host, pc>>
    BY <1>1 DEF MotorTurns, TypeOK
  <2>2. queue \in Seq(Events) /\ queue' \in Seq(Events)
    BY <2>1, MoveType DEF TypeOK, Rings
  <2>3. /\ Len(queue) \in Nat /\ Len(queue') \in Nat
        /\ \A i \in 1 .. Len(queue) : queue'[i] = queue[i]
        /\ \A i \in 1 .. Len(queue') : i > Len(queue) => queue'[i].type \in {"STEP", "HOME"}
    BY <2>1, MoveAppends
  <2>4. DOMAIN queue = 1 .. Len(queue) /\ DOMAIN queue' = 1 .. Len(queue')
    BY <2>2
  <2>5. ASSUME NEW i \in DOMAIN queue', queue'[i].type \in {"PACKET", "CMD"}
        PROVE  i \in DOMAIN queue /\ queue'[i] = queue[i]
    BY <2>3, <2>4, <2>5
  <2> QED
    BY <2>1, <2>5 DEF Serving, app, host
<1>2. ASSUME NEW d \in {Enc!Anticlockwise, Enc!Clockwise}, Nudge(d) PROVE FALSE
  BY <1>2 DEF Nudge, TypeOK
<1>3. ASSUME NEW c \in Commands, HostSend(c) PROVE Serving'
  <2>1. /\ state = "READY" /\ ~HostEventWaiting /\ asked' = c /\ UNCHANGED <<app, pc>>
    BY <1>3 DEF HostSend
  <2>2. pc # "decide"
    <3>1. SUFFICES ASSUME pc = "decide" PROVE FALSE
      OBVIOUS
    <3>2. queue[1].type \in HostTypes /\ Len(queue) = 1
      BY <3>1 DEF Expected
    <3>3. 1 \in DOMAIN queue
      BY <3>2 DEF TypeOK
    <3> QED
      BY <2>1, <3>2, <3>3 DEF HostEventWaiting, HostTypes
  <2>3. PICK e \in Events : /\ Put(e) /\ (e.type \in {"PACKET", "CMD"} => e.command = c)
    BY <1>3, EventTypes DEF HostSend, Event
  <2>4. \A i \in DOMAIN queue : queue[i].type \in {"PACKET", "CMD"} => queue[i].command = c
    BY <2>1 DEF HostEventWaiting
  <2>5. \A i \in DOMAIN queue' :
            queue'[i].type \in {"PACKET", "CMD"} => queue'[i].command = c
    BY <2>3, <2>4, PutServes
  <2> QED
    BY <2>1, <2>2, <2>5 DEF Serving, app
<1>4. CASE Reset
  BY <1>4 DEF Reset, Serving
<1> QED
  BY <1>1, <1>2, <1>3, <1>4 DEF HostGivesUp

\* The main thread: the command handed on is the one received.
LEMMA ServingMain ==
    ASSUME ServingInv, MainThread
    PROVE  Serving'
<1> USE DEF ServingInv, WaitInv, IInv
<1>0. queue \in Seq(Events) /\ Len(queue) \in Nat /\ DOMAIN queue = 1 .. Len(queue)
  BY DEF TypeOK
<1>1. ASSUME pc = "handler" PROVE 1 \in DOMAIN queue /\ Head(queue) = queue[1] /\ Head(queue) \in Events
  BY <1>0, <1>1 DEF TypeOK
<1>2. CASE InitDrivers \/ PostFirst
  <2>1. /\ state = "CALIBRATION" /\ pc # "decide" /\ pc' # "decide" /\ UNCHANGED <<app, host>>
        /\ queue' = queue \/ queue' = <<Internal>>
    BY <1>2 DEF InitDrivers, PostFirst, Expected
  <2>2. Internal.type = "INTERNAL"
    BY DEF Internal, Event
  <2> QED
    BY <2>1, <2>2 DEF Serving, app, host
<1>3. CASE Execute \/ DropPacket \/ StartCalibration \/ CheckPosition \/ StopMotor \/ IgnoreEvent
  <2>1. /\ pc # "decide" /\ pc' # "decide" /\ UNCHANGED <<state, params, host, queue>>
    BY <1>3 DEF Execute, DropPacket, StartCalibration, CheckPosition, StopMotor, IgnoreEvent,
                Ignored, Handling, app
  <2> QED
    BY <2>1 DEF Serving, host
<1>4. CASE Return
  <2>1. pc = "return" /\ pc' = "idle" /\ queue' = Tail(queue) /\ UNCHANGED <<app, host>>
    BY <1>4 DEF Return
  <2>2. queue # <<>>
    BY <2>1 DEF TypeOK
  <2>3. Len(queue) >= 1
    BY <1>0, <2>2
  <2>4. /\ DOMAIN queue' = 1 .. Len(queue')
        /\ \A i \in 1 .. Len(queue') : queue'[i] = queue[i + 1] /\ i + 1 \in DOMAIN queue
    BY <1>0, <2>1, <2>3
  <2> QED
    BY <2>1, <2>4 DEF Serving, app, host
<1>5. CASE ProcessPacket
  <2>1. /\ pc = "handler" /\ pc' = "return" /\ Head(queue).type = "PACKET"
        /\ Put(Event("CMD", Head(queue).command)) /\ UNCHANGED <<app, host>>
    BY <1>5 DEF ProcessPacket, Handling
  <2>2. Head(queue).command = asked
    BY <1>1, <2>1 DEF Serving
  <2>3. /\ Event("CMD", Head(queue).command) \in Events
        /\ Event("CMD", Head(queue).command).command = Head(queue).command
    BY <1>1, <2>1, CommandOfEvent, EventTypes DEF Event
  <2>4. \A i \in DOMAIN queue' :
            queue'[i].type \in {"PACKET", "CMD"} => queue'[i].command = asked
    BY <2>1, <2>2, <2>3, PutServes DEF Serving
  <2> QED
    BY <2>1, <2>4 DEF Serving, app, host
<1>6. CASE EndCalibration
  <2>1. state' = "READY" /\ pc' = "return" /\ UNCHANGED <<params, host, queue>>
    BY <1>6 DEF EndCalibration
  <2> QED
    BY <2>1 DEF Serving, host
<1>7. CASE AcceptCommand
  <2> DEFINE position == ToPosition(Head(queue).command)
  <2>1. /\ pc = "handler" /\ Head(queue).type = "CMD" /\ Head(queue).command # Unknown
        /\ params' = [requested |-> position, ok |-> IsValid(position)]
        /\ UNCHANGED host
        /\ queue' = queue \/ Put(Internal)
    BY <1>7 DEF AcceptCommand, Handling
  <2>2. Head(queue).command = asked /\ asked' = asked
    BY <1>1, <2>1 DEF Serving, host
  <2>3. Head(queue).command \in Commands
    BY <1>1, <2>1, CommandOfEvent
  <2>4. /\ Internal \in Events /\ Internal.type \notin {"PACKET", "CMD"}
    BY EventTypes DEF Internal, Event
  <2>5. \A i \in DOMAIN queue' :
            queue'[i].type \in {"PACKET", "CMD"} => queue'[i].command = asked
    BY <2>1, <2>4, PutServes DEF Serving
  <2> QED
    BY <2>1, <2>2, <2>3, <2>5 DEF Serving
<1>8. CASE DecideDirection
  <2>1. /\ pc = "decide" /\ UNCHANGED <<params, host>>
        /\ queue' = queue \/ Put(Internal)
    BY <1>8 DEF DecideDirection
  <2>4. /\ Internal \in Events /\ Internal.type \notin {"PACKET", "CMD"}
    BY EventTypes DEF Internal, Event
  <2>5. \A i \in DOMAIN queue' :
            queue'[i].type \in {"PACKET", "CMD"} => queue'[i].command = asked
    BY <2>1, <2>4, PutServes DEF Serving
  <2> QED
    BY <2>1, <2>5 DEF Serving, host
<1>9. CASE Respond
  <2>1. pc = "respond" /\ pc' = "return" /\ state' = "READY" /\ queue' = queue
    BY <1>9 DEF Respond
  <2>2. NoPacket
    BY <2>1 DEF Expected
  <2>3. \A i \in DOMAIN queue : queue[i].type \notin {"PACKET", "CMD"}
    BY <2>1, <2>2 DEF NoPacket, HostTypes
  <2> QED
    BY <2>1, <2>3 DEF Serving
<1> QED
  BY <1>2, <1>3, <1>4, <1>5, <1>6, <1>7, <1>8, <1>9 DEF MainThread

LEMMA ServingInvHolds == ASSUME Patient, Nudges = 0, ~Restarts PROVE Spec => []ServingInv
<1>1. Init => ServingInv
  BY WaitInvInit DEF Init, ServingInv, Serving
<1>2. ServingInv /\ [Next]_vars => ServingInv'
  <2> SUFFICES ASSUME ServingInv, [Next]_vars PROVE ServingInv'
    OBVIOUS
  <2>1. WaitInv'
    BY WaitInvStep DEF ServingInv
  <2>2. CASE MainThread
    BY <2>1, <2>2, ServingMain DEF ServingInv
  <2>3. CASE Next /\ ~MainThread
    BY <2>1, <2>3, ServingEnvironment DEF Next, ServingInv
  <2>4. CASE UNCHANGED vars
    BY <2>1, <2>4 DEF vars, ServingInv, Serving
  <2> QED
    BY <2>2, <2>3, <2>4
<1> QED
  BY <1>1, <1>2, PTL DEF Spec

\* No command wraps in the uint8_t that its position is assigned to.
Narrow == \A c \in Commands \ {Unknown} : c * R < UINT8 * FULL_TURN

\* What \div is, to find and to recognise a quotient.
LEMMA Quotient ==
    ASSUME NEW n \in Nat, NEW k \in Nat, k >= 1
    PROVE  n \div k \in Nat /\ k * (n \div k) <= n /\ n < k * (n \div k) + k
  BY SMTT(30)

LEMMA QuotientBelow ==
    ASSUME NEW n \in Nat, NEW k \in Nat, k >= 1, NEW m \in Nat
    PROVE  n \div k < m <=> n < k * m
<1> DEFINE x == n \div k
<1>1. x \in Nat /\ k * x <= n /\ n < k * x + k
  BY Quotient
<1> HIDE DEF x
<1>2. ASSUME x < m PROVE n < k * m
  <2>1. k * (x + 1) <= k * m
    BY <1>1, <1>2, SMTT(30)
  <2>2. k * (x + 1) = k * x + k
    BY <1>1, SMTT(30)
  <2> QED
    BY <1>1, <2>1, <2>2, SMTT(30)
<1>3. ASSUME x >= m PROVE n >= k * m
  <2>1. k * m <= k * x
    BY <1>1, <1>3, SMTT(30)
  <2>2. k * m \in Nat /\ k * x \in Nat
    BY <1>1, SMTT(30)
  <2> QED
    BY <1>1, <2>1, <2>2
<1>4. n < k * m => ~(n >= k * m)
  <2>1. k * m \in Nat
    BY SMTT(30)
  <2> QED
    BY <2>1
<1>5. x < m \/ x >= m
  BY <1>1
<1> QED
  BY <1>2, <1>3, <1>4, <1>5 DEF x

\* The position of a command, which is one of the encoder's for the angles of a turn.
LEMMA PositionOf ==
    ASSUME Narrow, NEW c \in Commands, c # Unknown
    PROVE  /\ c \in Nat
           /\ ToPosition(c) = (c * R) \div FULL_TURN
           /\ IsValid(ToPosition(c)) <=> InTurn(c)
<1> DEFINE n == c * R
           x == n \div FULL_TURN
<1>1. /\ c \in Nat /\ R \in Nat /\ R >= 3 /\ FULL_TURN \in Nat /\ FULL_TURN >= 1
      /\ UINT8 \in Nat /\ UINT8 >= 1
  BY CommandsAssumption, SizesAssumption
<1>2. n \in Nat
  BY <1>1, SMTT(30)
<1>3. n < FULL_TURN * UINT8
  <2>1. FULL_TURN * UINT8 = UINT8 * FULL_TURN
    BY <1>1, SMTT(30)
  <2> QED
    BY <2>1 DEF Narrow
<1>4. n < FULL_TURN * R <=> c < FULL_TURN
  <2>1. ASSUME c < FULL_TURN PROVE n < FULL_TURN * R
    BY <1>1, <2>1, SMTT(30)
  <2>2. ASSUME c >= FULL_TURN PROVE n >= FULL_TURN * R
    BY <1>1, <2>2, SMTT(30)
  <2>3. FULL_TURN * R \in Nat
    BY <1>1, SMTT(30)
  <2> QED
    BY <1>1, <1>2, <2>1, <2>2, <2>3
<1> HIDE DEF n
<1>5. x \in Nat /\ x < UINT8 /\ (x < R <=> n < FULL_TURN * R)
  BY <1>1, <1>2, <1>3, Quotient, QuotientBelow
<1>6. ToPosition(c) = x % UINT8
  BY DEF ToPosition, n
<1> HIDE DEF x
<1>7. x % UINT8 = x
  BY <1>1, <1>5
<1>8. IsValid(x) <=> x < R
  BY <1>1, <1>5 DEF IsValid
<1> QED
  BY <1>1, <1>4, <1>5, <1>6, <1>7, <1>8 DEF InTurn, n, x

\* The angle of that position is right to the encoder's resolution, which divides
\* the turn.
LEMMA AngleOf ==
    ASSUME FULL_TURN % R = 0, NEW a \in Nat
    PROVE  a - ToAngle((a * R) \div FULL_TURN) \in 0 .. (FULL_TURN \div R)
<1>1. FULL_TURN \in Nat /\ FULL_TURN >= 1 /\ R \in Nat /\ R >= 1
  BY SizesAssumption
<1> DEFINE w == FULL_TURN \div R
           n == a * R
           d == n \div FULL_TURN
<1>2. w \in Nat /\ FULL_TURN = R * w
  <2>1. FULL_TURN = R * (FULL_TURN \div R) + (FULL_TURN % R) /\ FULL_TURN \div R \in Nat
    BY <1>1, SMTT(30)
  <2> QED
    BY <1>1, <2>1
<1> HIDE DEF w
<1>3. n \in Nat
  BY <1>1, SMTT(30)
<1> HIDE DEF n
<1>4. d \in Nat /\ FULL_TURN * d <= n /\ n < FULL_TURN * d + FULL_TURN
  BY <1>1, <1>3, Quotient
<1> HIDE DEF d
<1>5. w * d \in Nat /\ w * d <= a /\ a < w * d + w
  <2> DEFINE y == w * d
  <2>1. y \in Nat /\ FULL_TURN * d = R * y /\ FULL_TURN * d + FULL_TURN = R * (y + w)
    BY <1>1, <1>2, <1>4, SMTT(30)
  <2> HIDE DEF y
  <2>2. n = R * a
    BY <1>1, SMTT(30) DEF n
  <2>3. R * y <= R * a /\ R * a < R * (y + w)
    BY <1>4, <2>1, <2>2
  <2>4. \A i, j \in Nat : i < j => R * i < R * j
    BY <1>1, SMTT(30)
  <2>5. \A i, j \in Nat : i <= j => R * i <= R * j
    BY <1>1, SMTT(30)
  <2>6. ~(a < y)
    <3>1. SUFFICES ASSUME a < y PROVE FALSE
      OBVIOUS
    <3>2. R * a < R * y
      BY <2>1, <2>4, <3>1
    <3>3. R * a \in Nat /\ R * y \in Nat
      BY <1>1, <2>1, SMTT(30)
    <3> QED
      BY <2>3, <3>2, <3>3
  <2>7. ~(y + w <= a)
    <3>1. SUFFICES ASSUME y + w <= a PROVE FALSE
      OBVIOUS
    <3>2. R * (y + w) <= R * a
      BY <1>2, <2>1, <2>5, <3>1
    <3>3. R * a \in Nat /\ R * (y + w) \in Nat
      BY <1>1, <1>2, <2>1, SMTT(30)
    <3> QED
      BY <2>3, <3>2, <3>3
  <2> QED
    BY <1>2, <2>1, <2>6, <2>7 DEF y
<1>6. ToAngle(d) = w * d
  <2>1. d * FULL_TURN = R * (w * d)
    BY <1>1, <1>2, <1>4, SMTT(30)
  <2>2. (R * (w * d)) \div R = w * d
    <3> DEFINE y == w * d
               z == (R * y) \div R
    <3>1. y \in Nat /\ R * y \in Nat
      BY <1>1, <1>5, SMTT(30)
    <3>2. R * y < R * (y + 1)
      BY <1>1, <3>1, SMTT(30)
    <3> HIDE DEF y
    <3>3. z \in Nat /\ (z < y <=> R * y < R * y) /\ (z < y + 1 <=> R * y < R * (y + 1))
      BY <1>1, <3>1, Quotient, QuotientBelow
    <3> HIDE DEF z
    <3>4. z = y
      BY <3>1, <3>2, <3>3
    <3> QED
      BY <3>4 DEF y, z
  <2> QED
    BY <2>1, <2>2 DEF ToAngle
<1> QED
  BY <1>2, <1>5, <1>6 DEF d, n, w

\* What a response says of the command it answers.
Answered ==
    /\ asked \in Commands /\ asked # Unknown
    /\ reply'.ok <=> InTurn(asked)
    /\ reply'.angle \in Nat
    /\ reply'.ok => /\ asked - reply'.angle \in 0 .. (FULL_TURN \div R)
                    /\ params.ok /\ params.requested = (asked * R) \div FULL_TURN

LEMMA RespondsTruly ==
    ASSUME Narrow, FULL_TURN % R = 0, ServingInv, Respond
    PROVE  Answered
<1>1. pc = "respond" /\ reply' = [ok |-> params.ok, angle |-> ToAngle(params.requested)]
  BY DEF Respond
<1>2. state = "EXECUTION"
  BY <1>1 DEF ServingInv, WaitInv, Expected
<1>3. /\ asked \in Commands /\ asked # Unknown
      /\ params = [requested |-> ToPosition(asked), ok |-> IsValid(ToPosition(asked))]
  BY <1>2 DEF ServingInv, Serving
<1>4. /\ asked \in Nat /\ ToPosition(asked) = (asked * R) \div FULL_TURN
      /\ IsValid(ToPosition(asked)) <=> InTurn(asked)
  BY <1>3, PositionOf
<1>5. /\ params.requested = (asked * R) \div FULL_TURN
      /\ params.ok <=> InTurn(asked)
  BY <1>3, <1>4
<1>6. reply'.angle \in Nat
  <2>1. params.requested \in Nat
    BY SizesAssumption DEF ServingInv, WaitInv, IInv, TypeOK
  <2> QED
    BY <1>1, <2>1, AngleTypes
<1>7. asked - reply'.angle \in 0 .. (FULL_TURN \div R)
  BY <1>1, <1>4, <1>5, AngleOf
<1>8. reply'.ok <=> params.ok
  BY <1>1
<1> QED
  BY <1>3, <1>5, <1>6, <1>7, <1>8 DEF Answered

LEMMA OnlyRespond ==
    ASSUME Next, pc = "respond", pc' = "return"
    PROVE  Respond
<1>1. ~MotorTurns /\ ~HostGivesUp /\ ~Reset
  BY DEF MotorTurns, HostGivesUp, Reset
<1>2. /\ \A d : ~Nudge(d)
      /\ \A c : ~HostSend(c)
  BY DEF Nudge, HostSend
<1>3. MainThread
  BY <1>1, <1>2 DEF Next
<1> QED
  BY <1>3 DEF MainThread, InitDrivers, PostFirst, Execute, Return, ProcessPacket, DropPacket,
              StartCalibration, EndCalibration, AcceptCommand, DecideDirection, CheckPosition,
              StopMotor, IgnoreEvent, Ignored, Handling

\* A response says OK for exactly the angles of a turn, and then names the angle that
\* was asked for to the encoder's resolution: for every resolution that divides the
\* turn, every ring, main loop, line and reset, if the host waits, nobody turns the
\* rotor by hand, and no command wraps in the uint8_t of its position.
THEOREM RepliesTruthfully ==
    ASSUME Patient, Nudges = 0, ~Restarts, Narrow, FULL_TURN % R = 0
    PROVE  Spec => ReplyTruthful
<1>1. ServingInv /\ [Next]_vars =>
        [pc = "respond" /\ pc' = "return" =>
            /\ reply'.ok <=> InTurn(asked)
            /\ reply'.ok => asked - reply'.angle \in 0 .. (FULL_TURN \div R)]_vars
  <2> SUFFICES ASSUME ServingInv, Next, pc = "respond", pc' = "return"
               PROVE  /\ reply'.ok <=> InTurn(asked)
                      /\ reply'.ok => asked - reply'.angle \in 0 .. (FULL_TURN \div R)
    OBVIOUS
  <2> QED
    BY OnlyRespond, RespondsTruly DEF Answered
<1> QED
  BY <1>1, ServingInvHolds, PTL DEF Spec, ReplyTruthful

-----------------------------------------------------------------------------
(* The service: each step is one of the host's view, or none.              *)

\* Where the rotor is stopped the count is that of its place, or the one before.
LEMMA RestsNear ==
    ASSUME TypeOK, Sighted, Rests
    PROVE  LET at == Enc!TrueCount
               p == encoder.position IN
           (at - p + R) % R \in {R - 1, 0, 1}
<1> DEFINE p == encoder.position
           s == (rotor + 3) \div 4
<1>1. /\ R \in Nat /\ R >= 3 /\ rotor \in Nat /\ rotor < 4 * R /\ Acw # Cw
      /\ motor.dir \in {Acw, Cw} /\ p \in Nat /\ p < R
  BY SizesAssumption, RIsHere
     DEF TypeOK, Enc!Quarters, Enc!EncoderStates, Enc!Positions, Acw, Cw, Enc!Anticlockwise,
         Enc!Clockwise
<1>2. Enc!TrueCount = s % R
  BY RIsHere DEF Enc!TrueCount
<1>3. ASSUME NEW a \in Nat, a < R PROVE a % R = a /\ (a + R) % R = a
  BY <1>1, <1>3, SMTT(30)
<1>4. R % R = 0
  BY <1>1
<1>5. CASE rotor = 0
  <2>1. s = 0 /\ p = 0
    BY <1>5 DEF Sighted
  <2> HIDE DEF s, p
  <2>2. s % R = 0 /\ (0 - 0 + R) % R = 0
    BY <1>1, <1>3, <1>4, <2>1
  <2> QED
    BY <1>2, <2>1, <2>2 DEF p
<1>6. CASE rotor # 0
  <2>1. /\ s >= 1 /\ s <= R /\ s \in Nat
        /\ p \in {s - 1, s} \/ (s - 1 = R - 1 /\ p = 0)
    <3>1. CASE motor.dir = Acw
      <4>1. rotor % 4 \in {1, 2}
        BY <1>1, <1>6, <3>1 DEF Rests, StepQuarter
      <4>2. (rotor - 1) \div 4 = s - 1 /\ s >= 1 /\ s <= R /\ s \in Nat
        BY <1>1, <1>6, <4>1
      <4>3. Sector = s - 1
        BY <3>1, <4>2 DEF Sector
      <4> HIDE DEF s
      <4>4. (s - 1) + 1 = s
        BY <4>2
      <4> QED
        BY <1>6, <4>2, <4>3, <4>4 DEF Sighted
    <3>2. CASE motor.dir = Cw
      <4>1. rotor % 4 \in {2, 3}
        BY <1>1, <1>6, <3>2 DEF Rests, StepQuarter
      <4>2. rotor \div 4 = s - 1 /\ s >= 1 /\ s <= R /\ s \in Nat
        BY <1>1, <1>6, <4>1
      <4>3. Sector = s - 1
        BY <1>1, <3>2, <4>2 DEF Sector
      <4> HIDE DEF s
      <4>4. (s - 1) + 1 = s
        BY <4>2
      <4> QED
        BY <1>6, <4>2, <4>3, <4>4 DEF Sighted
    <3> QED
      BY <1>1, <3>1, <3>2
  <2> HIDE DEF s, p
  <2>2. CASE s < R
    <3>1. s % R = s
      BY <1>3, <2>1, <2>2
    <3>2. p = s - 1 \/ p = s
      BY <1>1, <2>1, <2>2
    <3>3. s - p + R = 1 + R \/ s - p + R = 0 + R
      BY <1>1, <2>1, <3>2
    <3>4. (1 + R) % R = 1 /\ (0 + R) % R = 0
      BY <1>1, <1>3
    <3> QED
      BY <1>2, <3>1, <3>3, <3>4 DEF p
  <2>3. CASE s = R
    <3>1. s % R = 0
      BY <1>4, <2>3
    <3>2. p = R - 1 \/ p = 0
      BY <1>1, <2>1, <2>3
    <3>3. 0 - p + R = 1 \/ 0 - p + R = R
      BY <1>1, <3>2
    <3>4. 1 % R = 1
      BY <1>1, <1>3
    <3> QED
      BY <1>2, <1>4, <3>1, <3>3, <3>4 DEF p
  <2> QED
    BY <1>1, <2>1, <2>2, <2>3
<1> QED
  BY <1>5, <1>6

LEMMA PlaceIsCount ==
    ASSUME NEW q \in Nat PROVE ((q + 3) \div 4) % R \in 0 .. R - 1
<1>1. R \in Nat /\ R > 0 /\ (q + 3) \div 4 \in Int
  BY SizesAssumption
<1> QED
  BY <1>1, ModRange

ServiceStep == [Service!Next]_(Service!vars)

LEMMA ServiceTurns ==
    ASSUME TypeOK', asked' = asked, reply' = reply
    PROVE  ServiceStep
<1>1. R \in Nat /\ R >= 3 /\ rotor' \in Nat
  BY SizesAssumption, RIsHere DEF TypeOK, Enc!Quarters
<1>2. ((rotor' + 3) \div 4) % R \in 0 .. R - 1
  BY <1>1, PlaceIsCount
<1>3. Enc!TrueCount' \in Service!Counts
  BY <1>2, RIsHere DEF Enc!TrueCount, Service!Counts, Service!R, R
<1> QED
  BY <1>3 DEF ServiceStep, Service!Next, Service!Turn

\* An answer comes with the motor stopped at the position asked for.
LEMMA ServiceAnswers ==
    ASSUME Keeping, ~Restarts, Narrow, FULL_TURN % R = 0, CourseInv, ServingInv, Respond
    PROVE  ServiceStep
<1>1. /\ pc = "respond" /\ asked' = Nobody /\ rotor' = rotor
      /\ reply' = [ok |-> params.ok, angle |-> ToAngle(params.requested)]
  BY DEF Respond, plant
<1>2. Answered
  BY RespondsTruly
<1>3. asked # Service!Nobody /\ asked' = Service!Nobody
  <2>1. asked \in Nat
    BY <1>2, CommandsAssumption DEF Answered
  <2> QED
    BY <1>1, <2>1 DEF Service!Nobody, Nobody
<1>4. Enc!TrueCount' = Enc!TrueCount
  BY <1>1 DEF Enc!TrueCount
<1>5. Service!OfTurn(asked) <=> InTurn(asked)
  BY DEF Service!OfTurn, InTurn
<1>6. reply'.ok \in BOOLEAN /\ reply'.angle \in Nat
      /\ reply' = [ok |-> reply'.ok, angle |-> reply'.angle]
  BY <1>1, <1>2 DEF Answered, CourseInv, WaitInv, IInv, TypeOK
<1>7. CASE ~InTurn(asked)
  <2>1. reply'.ok = FALSE
    BY <1>2, <1>6, <1>7 DEF Answered
  <2>2. reply' \in [ok : {FALSE}, angle : Nat]
    BY <1>6, <2>1
  <2> QED
    BY <1>3, <1>4, <1>5, <1>7, <2>2 DEF ServiceStep, Service!Next, Service!Answer
<1>8. CASE InTurn(asked)
  <2>1. /\ reply'.ok = TRUE /\ params.ok /\ params.requested = (asked * R) \div FULL_TURN
        /\ asked - reply'.angle \in 0 .. (FULL_TURN \div R) /\ asked \in Nat
    BY <1>2, <1>6, <1>8, CommandsAssumption DEF Answered
  <2>2. reply'.angle \in asked - (FULL_TURN \div R) .. asked
    <3>1. FULL_TURN \div R \in Nat
      BY SizesAssumption, DivNat
    <3> QED
      BY <1>6, <2>1, <3>1
  <2>3. reply' \in [ok : {TRUE}, angle : asked - (FULL_TURN \div R) .. asked]
    BY <1>6, <2>1, <2>2
  <2>4. encoder.position = (asked * R) \div FULL_TURN
    BY <1>1, <2>1 DEF CourseInv, OnCourse
  <2>5. Sighted /\ Rests
    BY <1>1 DEF CourseInv, OnCourse, WaitInv, IInv, Off, Expected
  <2>6. (Enc!TrueCount - encoder.position + R) % R \in {R - 1, 0, 1}
    BY <2>5, RestsNear DEF CourseInv, WaitInv, IInv
  <2>7. (Enc!TrueCount - Service!Position(asked) + Service!R) % Service!R
            \in {Service!R - 1, 0, 1}
    BY <2>4, <2>6 DEF Service!Position, Service!R, R
  <2>8. reply' \in [ok : {TRUE}, angle : asked - (FULL_TURN \div Service!R) .. asked]
    BY <2>3 DEF Service!R, R
  <2> QED
    BY <1>3, <1>4, <1>5, <1>8, <2>7, <2>8 DEF ServiceStep, Service!Next, Service!Answer
<1> QED
  BY <1>7, <1>8

\* What the code promises its host: every step of the closed loop is one of the service
\* or none that its host can see.  A response says OK for exactly the angles of a turn,
\* when the rotor itself is within one count of the position asked for, and a command
\* fails with a reset alone.
THEOREM ServesSafely ==
    ASSUME Keeping, ~Restarts, Narrow, FULL_TURN % R = 0
    PROVE  Spec => ImplementsService
<1>1. Init => Service!Init
  <2> SUFFICES ASSUME Init PROVE Service!Init
    OBVIOUS
  <2>1. R \in Nat /\ R >= 3 /\ rotor \in Nat
    BY SizesAssumption, RIsHere DEF Init, Enc!Quarters
  <2>3. ((rotor + 3) \div 4) % R \in 0 .. R - 1
    BY <2>1, PlaceIsCount
  <2>4. Enc!TrueCount \in Service!Counts
    BY <2>3, RIsHere DEF Enc!TrueCount, Service!Counts, Service!R, R
  <2> QED
    BY <2>4 DEF Init, Service!Init, Service!Nobody, Nobody
<1>2. CourseInv /\ ServingInv /\ [Next]_vars => [Service!Next]_(Service!vars)
  <2> SUFFICES ASSUME CourseInv, ServingInv, [Next]_vars PROVE ServiceStep
    BY DEF ServiceStep
  <2> USE DEF Keeping
  <2>1. TypeOK'
    BY IInvStep DEF CourseInv, WaitInv, IInv
  <2>2. CASE Respond
    BY <2>2, ServiceAnswers
  <2>3. CASE MainThread /\ ~Respond
    <3>1. asked' = asked /\ reply' = reply
      BY <2>3 DEF MainThread, InitDrivers, PostFirst, Execute, Return, ProcessPacket, DropPacket,
                  StartCalibration, EndCalibration, AcceptCommand, DecideDirection,
                  CheckPosition, StopMotor, IgnoreEvent, host
    <3> QED
      BY <2>1, <3>1, ServiceTurns
  <2>4. CASE MotorTurns
    BY <2>1, <2>4, ServiceTurns DEF MotorTurns, host
  <2>5. ASSUME NEW d \in {Enc!Anticlockwise, Enc!Clockwise}, Nudge(d) PROVE FALSE
    BY <2>5 DEF Nudge, CourseInv, WaitInv, IInv, TypeOK
  <2>6. ASSUME NEW c \in Commands, HostSend(c) PROVE ServiceStep
    <3>1. asked = Nobody /\ asked' = c /\ reply' = reply /\ rotor' = rotor
      BY <2>6 DEF HostSend, plant
    <3>2. Enc!TrueCount' = Enc!TrueCount
      BY <3>1 DEF Enc!TrueCount
    <3> QED
      BY <3>1, <3>2 DEF ServiceStep, Service!Next, Service!Ask, Service!Nobody, Nobody
  <2>7. CASE HostGivesUp
    BY <2>7 DEF HostGivesUp
  <2>8. CASE Reset
    <3>1. asked' = Nobody /\ reply' = reply /\ rotor' = rotor
      BY <2>8 DEF Reset
    <3>2. Enc!TrueCount' = Enc!TrueCount
      BY <3>1 DEF Enc!TrueCount
    <3> QED
      BY <3>1, <3>2
         DEF ServiceStep, Service!Next, Service!Fail, Service!Nobody, Nobody, Service!vars
  <2>9. CASE UNCHANGED vars
    BY <2>1, <2>9, ServiceTurns DEF vars
  <2> QED
    BY <2>2, <2>3, <2>4, <2>5, <2>6, <2>7, <2>8, <2>9 DEF Next
<1>3. Spec => []CourseInv /\ []ServingInv
  BY CourseInvHolds, ServingInvHolds DEF Keeping
<1> QED
  BY <1>1, <1>2, <1>3, PTL DEF Spec, ImplementsService, Service!Safety

-----------------------------------------------------------------------------
(* How full the ring can be: a quarter step posts one event at most, and   *)
(* while the motor runs nobody else posts.                                 *)

EncoderTypes == {"STEP", "HOME"}

Light ==
    /\ pc # "boot" => encoder.registered /\ encoder.handling = IMMEDIATE
    /\ ~encoder.notify
    /\ motor.on =>
           /\ \A i \in DOMAIN queue :
                  queue[i].type \in EncoderTypes \/ (i = 1 /\ pc = "return")
           /\ Len(queue) <= slack + 2
           /\ queue # <<>> /\ queue[1].type \in EncoderTypes => Len(queue) <= slack + 1
    /\ state = "CALIBRATION" /\ ~motor.on => Len(queue) <= 1
    /\ pc = "respond" => Len(queue) <= Slack + 1
    /\ state = "READY" /\ ~HostEventWaiting => Len(queue) <= Slack + 1
    /\ LightLoad

LightInv == WaitInv /\ Light

\* A quarter step of the motor appends one event of the encoder at most.
LEMMA TurnPosts ==
    ASSUME TypeOK, Ready(encoder), NEW d \in {Enc!Anticlockwise, Enc!Clockwise}, Move(d)
    PROVE  /\ Ready(encoder')
           /\ Len(queue) \in Nat /\ Len(queue') \in Nat /\ Len(queue') <= Len(queue) + 1
<1>1. Ready(encoder') /\ (Put(HomeEvent) \/ Put(StepEvent) \/ queue' = queue)
  <2>1. CASE d = Acw
    BY <2>1, MoveUp
  <2>2. CASE d = Cw
    BY <2>2, MoveDown
  <2> QED
    BY <2>1, <2>2 DEF Acw, Cw
<1>2. HomeEvent \in Events /\ StepEvent \in Events
  BY EventTypes DEF HomeEvent, StepEvent, EncoderEvent, Event
<1>3. queue \in Rings /\ Len(queue) \in Nat
  BY DEF TypeOK, Rings, MAX
<1>4. ASSUME NEW e \in Events, Put(e) PROVE Len(queue') \in Nat /\ Len(queue') <= Len(queue) + 1
  BY <1>3, <1>4, PutAppends
<1> QED
  BY <1>1, <1>2, <1>3, <1>4

\* While the motor turns, each late quarter step may add an event.
LEMMA LightTurns == ASSUME LightInv, MotorTurns PROVE Light'
<1> USE DEF LightInv, WaitInv, IInv
<1>1. /\ motor.on /\ motor.dir \in {Enc!Anticlockwise, Enc!Clockwise} /\ Move(motor.dir)
      /\ UNCHANGED <<app, host, motor, pc>>
  BY DEF MotorTurns, TypeOK
<1>2. pc \notin {"boot", "respond"} /\ state # "READY"
  BY <1>1 DEF Expected, Off
<1>3. Ready(encoder)
  BY <1>2 DEF Light, Ready, TypeOK
<1>4. /\ queue \in Seq(Events) /\ Len(queue) \in Nat /\ DOMAIN queue = 1 .. Len(queue)
      /\ slack \in Nat /\ slack <= Slack /\ Slack \in Nat
  BY BoundsAssumption DEF TypeOK
<1>5. Ready(encoder') /\ Len(queue') \in Nat /\ Len(queue') <= Len(queue) + 1
  BY <1>1, <1>3, TurnPosts
<1>6. /\ Len(queue') >= Len(queue)
      /\ \A i \in 1 .. Len(queue) : queue'[i] = queue[i]
      /\ \A i \in 1 .. Len(queue') : i > Len(queue) => queue'[i].type \in EncoderTypes
  BY <1>1, MoveAppends DEF EncoderTypes
<1>7. queue' \in Seq(Events) /\ DOMAIN queue' = 1 .. Len(queue')
  <2>1. queue' \in Seq(Events)
    BY <1>1, MoveType DEF TypeOK, Rings
  <2> QED
    BY <2>1
<1>8. \A i \in DOMAIN queue' : queue'[i].type \in EncoderTypes \/ (i = 1 /\ pc' = "return")
  <2> SUFFICES ASSUME NEW i \in DOMAIN queue', queue'[i].type \notin EncoderTypes
               PROVE  i = 1 /\ pc' = "return"
    OBVIOUS
  <2>1. i \in DOMAIN queue /\ queue'[i] = queue[i]
    BY <1>4, <1>5, <1>6, <1>7
  <2> QED
    BY <1>1, <2>1 DEF Light
<1>9. /\ slack' <= Slack /\ slack' \in Nat /\ Len(queue') <= slack' + 2
      /\ queue' # <<>> /\ queue'[1].type \in EncoderTypes => Len(queue') <= slack' + 1
  <2>1. CASE EncoderEventWaiting
    <3>1. slack' = slack + 1 /\ slack < Slack
      BY <2>1 DEF MotorTurns
    <3>2. Len(queue) <= slack + 2 /\ Len(queue) >= 1
      BY <1>1, <1>4, <2>1 DEF Light, EncoderEventWaiting
    <3>3. queue # <<>> /\ queue'[1] = queue[1]
      BY <1>4, <1>6, <3>2
    <3>4. queue[1].type \in EncoderTypes => Len(queue) <= slack + 1
      BY <1>1, <3>3 DEF Light
    <3> QED
      BY <1>4, <1>5, <3>1, <3>2, <3>3, <3>4
  <2>2. CASE ~EncoderEventWaiting
    <3>1. slack' = 0
      BY <2>2 DEF MotorTurns
    <3>2. \A i \in 1 .. Len(queue) : i = 1 /\ queue[i].type \notin EncoderTypes
      BY <1>1, <1>4, <2>2 DEF Light, EncoderEventWaiting, EncoderTypes
    <3>3. Len(queue) <= 1
      <4>1. CASE Len(queue) >= 2
        <5>1. 2 \in 1 .. Len(queue)
          BY <1>4, <4>1
        <5> QED
          BY <3>2, <5>1
      <4> QED
        BY <1>4, <4>1
    <3>4. Len(queue) = 1 => queue'[1].type \notin EncoderTypes
      BY <1>6, <3>2
    <3> QED
      BY <1>4, <1>5, <3>1, <3>3, <3>4
  <2> QED
    BY <2>1, <2>2
<1>10. LightLoad'
  BY <1>4, <1>5, <1>9 DEF LightLoad
<1> QED
  BY <1>1, <1>2, <1>5, <1>8, <1>9, <1>10 DEF Light, Ready, app

\* The host sends in READY, with nothing of its own waiting.
LEMMA LightEnvironment ==
    ASSUME Patient, Nudges = 0, LightInv,
           \/ \E d \in {Enc!Anticlockwise, Enc!Clockwise} : Nudge(d)
           \/ \E c \in Commands : HostSend(c)
           \/ HostGivesUp
           \/ Reset
    PROVE  Light'
<1> USE DEF LightInv, WaitInv, IInv
<1>0. Len(queue) \in Nat /\ Slack \in Nat /\ slack \in Nat /\ slack <= Slack /\ queue \in Rings
  BY BoundsAssumption DEF TypeOK, Rings, MAX
<1>1. ASSUME NEW d \in {Enc!Anticlockwise, Enc!Clockwise}, Nudge(d) PROVE FALSE
  BY <1>1 DEF Nudge, TypeOK
<1>2. ASSUME NEW c \in Commands, HostSend(c) PROVE Light'
  <2>1. /\ state = "READY" /\ ~HostEventWaiting /\ ~motor.on /\ pc # "respond"
        /\ UNCHANGED <<app, plant, motor, pc>>
    BY <1>2 DEF HostSend, Expected, Off
  <2>2. Len(queue) <= Slack + 1
    BY <2>1 DEF Light
  <2>3. PICK e \in Events : Put(e) /\ e.type \in HostTypes
    BY <1>2, EventTypes DEF HostSend, Event, HostTypes
  <2>4. /\ Len(queue') \in {Len(queue), Len(queue) + 1} /\ queue' \in Seq(Events)
        /\ Len(queue') = Len(queue) + 1 => queue'[Len(queue')] = e
    BY <1>0, <2>3, PutAppends
  <2>5. HostEventWaiting' \/ Len(queue') = Len(queue)
    <3>1. CASE Len(queue') = Len(queue) + 1
      <4>1. Len(queue') \in DOMAIN queue'
        BY <1>0, <2>4, <3>1
      <4> QED
        BY <2>3, <2>4, <3>1, <4>1 DEF HostEventWaiting, HostTypes
    <3> QED
      BY <2>4, <3>1
  <2>6. LightLoad'
    BY <1>0, <2>2, <2>4 DEF LightLoad
  <2> QED
    BY <2>1, <2>2, <2>5, <2>6 DEF Light, app, plant
<1>3. CASE HostGivesUp
  BY <1>3 DEF HostGivesUp, Light, LightLoad, HostEventWaiting, app, plant
<1>4. CASE Reset
  <2>1. /\ encoder' = Enc!InitEncoder /\ motor' = MotorOff /\ queue' = <<>> /\ pc' = "boot"
        /\ state' = "CALIBRATION" /\ slack' = 0
    BY <1>4 DEF Reset
  <2> QED
    BY <1>0, <2>1, InitTypes DEF Light, LightLoad, Enc!InitEncoder
<1> QED
  BY <1>1, <1>2, <1>3, <1>4

\* An event handled makes room.
LEMMA LightScheduler ==
    ASSUME LightInv, InitDrivers \/ PostFirst \/ Execute \/ Return
    PROVE  Light'
<1> USE DEF LightInv, WaitInv, IInv
<1>0. /\ queue \in Seq(Events) /\ Len(queue) \in Nat /\ DOMAIN queue = 1 .. Len(queue)
      /\ Slack \in Nat /\ slack \in Nat /\ slack <= Slack
  BY BoundsAssumption DEF TypeOK
<1>1. CASE InitDrivers
  <2>1. /\ pc = "boot" /\ pc' = "init" /\ motor' = MotorOff /\ UNCHANGED <<app, queue, slack>>
        /\ encoder' = [encoder EXCEPT !.registered = TRUE, !.handling = IMMEDIATE]
    BY <1>1 DEF InitDrivers
  <2>2. encoder'.registered /\ encoder'.handling = IMMEDIATE /\ ~encoder'.notify
    BY <2>1 DEF TypeOK, Enc!EncoderStates, Light
  <2>3. state = "CALIBRATION" /\ ~motor.on /\ ~motor'.on
    BY <2>1, InitTypes DEF Expected
  <2> QED
    BY <2>1, <2>2, <2>3 DEF Light, LightLoad, app
<1>2. CASE PostFirst
  <2>1. pc = "init" /\ pc' = "idle" /\ queue' = <<Internal>> /\ UNCHANGED <<app, plant, motor>>
    BY <1>2 DEF PostFirst
  <2>2. state = "CALIBRATION" /\ ~motor.on
    BY <2>1 DEF Expected
  <2> QED
    BY <1>0, <2>1, <2>2 DEF Light, LightLoad, app, plant
<1>3. CASE Execute
  <2>1. pc = "idle" /\ pc' = "handler" /\ UNCHANGED <<app, plant, motor, queue>>
    BY <1>3 DEF Execute
  <2> QED
    BY <2>1 DEF Light, LightLoad, HostEventWaiting, app, plant
<1>4. CASE Return
  <2>1. pc = "return" /\ pc' = "idle" /\ queue' = Tail(queue) /\ UNCHANGED <<app, plant, motor>>
    BY <1>4 DEF Return
  <2>2. queue # <<>> /\ Len(queue) >= 1
    BY <1>0, <2>1 DEF TypeOK
  <2>3. /\ Len(queue') = Len(queue) - 1 /\ DOMAIN queue' = 1 .. Len(queue')
        /\ \A i \in 1 .. Len(queue') : queue'[i] = queue[i + 1] /\ i + 1 \in DOMAIN queue
    BY <1>0, <2>1, <2>2
  <2>4. ASSUME motor.on
        PROVE  /\ \A i \in DOMAIN queue' : queue'[i].type \in EncoderTypes
               /\ Len(queue') <= slack + 1
    <3>1. ASSUME NEW i \in DOMAIN queue' PROVE queue'[i].type \in EncoderTypes
      <4>1. i + 1 \in DOMAIN queue /\ queue'[i] = queue[i + 1] /\ i + 1 # 1
        BY <2>3
      <4> QED
        BY <2>4, <4>1 DEF Light
    <3> QED
      BY <1>0, <2>3, <2>4, <3>1 DEF Light
  <2>5. LightLoad' /\ Len(queue') <= Slack + 1
    BY <1>0, <2>3 DEF Light, LightLoad
  <2>6. state = "CALIBRATION" /\ ~motor.on => Len(queue') <= 1
    BY <1>0, <2>3 DEF Light
  <2> QED
    BY <1>0, <2>1, <2>3, <2>4, <2>5, <2>6 DEF Light, app, plant
<1> QED
  BY <1>1, <1>2, <1>3, <1>4

\* A command follows its packet when both are all there is, and an internal event
\* its command.
LEMMA LightPackets ==
    ASSUME LightInv, ProcessPacket \/ DropPacket \/ IgnoreEvent \/ AcceptCommand
    PROVE  Light'
<1> USE DEF LightInv, WaitInv, IInv
<1>0. /\ queue \in Seq(Events) /\ queue \in Rings /\ Len(queue) \in Nat
      /\ DOMAIN queue = 1 .. Len(queue) /\ pc = "handler" /\ pc' # "respond"
      /\ Slack \in Nat /\ slack \in Nat /\ slack <= Slack
      /\ state \in {"CALIBRATION", "READY", "EXECUTION"}
  BY BoundsAssumption
     DEF TypeOK, Rings, MAX, ProcessPacket, DropPacket, IgnoreEvent, Ignored, AcceptCommand, Handling
<1>1. queue # <<>> /\ 1 \in DOMAIN queue /\ Head(queue) = queue[1] /\ Head(queue) \in Events
  BY <1>0 DEF TypeOK
<1>2. ASSUME Head(queue).type \in HostTypes
      PROVE  state = "READY" /\ Len(queue) = 1 /\ ~motor.on
  <2>1. state # "CALIBRATION"
    BY <1>1, <1>2 DEF Expected, HostEventWaiting, HostTypes
  <2>2. state # "EXECUTION"
    BY <1>0, <1>1, <1>2 DEF Expected, NoPacket
  <2> QED
    BY <1>0, <1>1, <1>2, <2>1, <2>2 DEF Expected, PacketLast, Off
<1>3. CASE DropPacket \/ IgnoreEvent
  <2>1. pc' = "return" /\ UNCHANGED <<app, plant, motor, queue>>
    BY <1>3 DEF DropPacket, IgnoreEvent
  <2> QED
    BY <1>0, <2>1 DEF Light, LightLoad, HostEventWaiting, app, plant
<1>4. CASE ProcessPacket
  <2>1. /\ Head(queue).type = "PACKET" /\ Put(Event("CMD", Head(queue).command))
        /\ pc' = "return" /\ UNCHANGED <<app, plant, motor>>
    BY <1>4 DEF ProcessPacket, Handling
  <2>2. state = "READY" /\ Len(queue) = 1 /\ ~motor.on
    BY <1>2, <2>1 DEF HostTypes
  <2>3. Event("CMD", Head(queue).command) \in Events /\ Event("CMD", Head(queue).command).type = "CMD"
    BY <1>1, <2>1, CommandOfEvent, EventTypes DEF Event
  <2>4. Len(queue') = 2 /\ queue'[2].type = "CMD" /\ 2 \in DOMAIN queue'
    BY <1>0, <2>1, <2>2, <2>3, OneMore
  <2> QED
    BY <1>0, <2>1, <2>2, <2>4 DEF Light, LightLoad, HostEventWaiting, app, plant
<1>5. CASE AcceptCommand
  <2> DEFINE position == ToPosition(Head(queue).command)
  <2>1. Head(queue).type = "CMD" /\ state = "READY" /\ UNCHANGED <<encoder, slack, motor>>
    BY <1>5 DEF AcceptCommand, Handling
  <2>2. Len(queue) = 1 /\ ~motor.on
    BY <1>2, <2>1 DEF HostTypes
  <2>3. CASE IsValid(position)
    <3>1. state' = state /\ queue' = queue
      BY <1>5, <2>3 DEF AcceptCommand
    <3>2. Len(queue') = 1
      BY <2>2, <3>1
    <3>3. 1 <= Slack + 1 /\ 1 <= Slack + 2
      BY BoundsAssumption
    <3> QED
      BY <1>0, <2>1, <2>2, <3>1, <3>2, <3>3 DEF Light, LightLoad
  <2>4. CASE ~IsValid(position)
    <3>1. state' = "EXECUTION" /\ Put(Internal) /\ pc' = "return"
      BY <1>5, <2>4 DEF AcceptCommand
    <3>2. Len(queue') = 2
      BY <1>0, <2>2, <3>1, EventTypes, OneMore DEF Internal
    <3> QED
      BY <1>0, <2>1, <2>2, <3>1, <3>2 DEF Light, LightLoad
  <2> QED
    BY <2>3, <2>4
<1> QED
  BY <1>3, <1>4, <1>5

\* The motor is started with one event in the ring, and stopped by an event of the
\* encoder or by the internal one, which is then alone.
LEMMA LightMotor ==
    ASSUME LightInv, StartCalibration \/ EndCalibration \/ DecideDirection
                       \/ CheckPosition \/ StopMotor \/ Respond
    PROVE  Light'
<1> USE DEF LightInv, WaitInv, IInv
<1>0. /\ queue \in Seq(Events) /\ queue \in Rings /\ Len(queue) \in Nat
      /\ DOMAIN queue = 1 .. Len(queue)
      /\ Slack \in Nat /\ slack \in Nat /\ slack <= Slack
  BY BoundsAssumption DEF TypeOK, Rings, MAX
<1>1. CASE StartCalibration
  <2>1. /\ pc = "handler" /\ pc' = "return" /\ state = "CALIBRATION" /\ motor'.on
        /\ Head(queue).type = "INTERNAL" /\ UNCHANGED <<app, plant, queue>>
    BY <1>1 DEF StartCalibration, Handling, Drive
  <2>2. queue # <<>> /\ Head(queue) = queue[1] /\ 1 \in DOMAIN queue
    BY <1>0, <2>1 DEF TypeOK
  <2>3. queue[1].type \notin EncoderTypes
    BY <2>1, <2>2 DEF EncoderTypes
  <2>4. ~motor.on /\ Len(queue) = 1
    BY <1>0, <2>1, <2>2, <2>3 DEF Light
  <2> QED
    BY <1>0, <2>1, <2>3, <2>4 DEF Light, LightLoad, app, plant
<1>2. CASE EndCalibration
  <2>1. /\ pc = "handler" /\ pc' = "return" /\ state = "CALIBRATION" /\ state' = "READY" /\ ~motor'.on
        /\ Head(queue).type = "HOME" /\ UNCHANGED <<plant, queue>>
    BY <1>2, DriveType DEF EndCalibration, Handling
  <2>2. queue # <<>> /\ Head(queue) = queue[1]
    BY <1>0, <2>1 DEF TypeOK
  <2>3. Len(queue) <= Slack + 1
    BY <1>0, <2>1, <2>2 DEF Light, EncoderTypes
  <2> QED
    BY <1>0, <2>1, <2>3 DEF Light, LightLoad, plant
<1>3. CASE DecideDirection
  <2>1. /\ pc = "decide" /\ pc' = "return" /\ state' = "EXECUTION" /\ UNCHANGED plant
    BY <1>3 DEF DecideDirection
  <2>2. state = "READY" /\ Len(queue) = 1 /\ ~motor.on /\ queue[1].type \in HostTypes
    BY <2>1 DEF Expected, Off
  <2>3. CASE motor'.on /\ queue' = queue
    <3>1. queue[1].type \notin EncoderTypes /\ \A i \in DOMAIN queue : i = 1
      BY <1>0, <2>2 DEF EncoderTypes, HostTypes
    <3>2. Len(queue') = 1 /\ slack' = slack
      BY <2>1, <2>2, <2>3 DEF plant
    <3>3. 1 <= slack + 2 /\ 1 <= Slack + 2
      BY <1>0
    <3> QED
      BY <2>1, <2>2, <2>3, <3>1, <3>2, <3>3 DEF Light, LightLoad, plant
  <2>4. CASE Put(Internal) /\ UNCHANGED motor
    <3>1. Len(queue') = 2
      BY <1>0, <2>1, <2>2, <2>4, EventTypes, OneMore DEF Internal
    <3> QED
      BY <1>0, <2>1, <2>2, <2>4, <3>1 DEF Light, LightLoad, plant
  <2> QED
    BY <1>3, <2>3, <2>4 DEF DecideDirection, Drive
<1>4. CASE CheckPosition
  <2>1. /\ pc = "handler" /\ pc' \in {"stop", "return"} /\ state = "EXECUTION"
        /\ UNCHANGED <<state, plant, motor, queue>>
    BY <1>4 DEF CheckPosition, Handling
  <2> QED
    BY <2>1 DEF Light, LightLoad, plant
<1>5. CASE StopMotor
  <2>1. /\ pc = "stop" /\ pc' = "respond" /\ ~motor'.on /\ UNCHANGED <<app, plant, queue>>
    BY <1>5, DriveType DEF StopMotor
  <2>2. state = "EXECUTION" /\ queue # <<>> /\ 1 \in DOMAIN queue
    BY <1>0, <2>1 DEF Expected, TypeOK
  <2>3. Len(queue) <= Slack + 1
    <3>1. CASE motor.on
      <4>1. queue[1].type \in EncoderTypes
        BY <2>1, <2>2, <3>1 DEF Light
      <4> QED
        BY <1>0, <2>2, <3>1, <4>1 DEF Light
    <3>2. CASE ~motor.on
      BY <1>0, <2>1, <2>2, <3>2 DEF Expected, Pending
    <3> QED
      BY <3>1, <3>2
  <2> QED
    BY <1>0, <2>1, <2>2, <2>3 DEF Light, LightLoad, app, plant
<1>6. CASE Respond
  <2>1. /\ pc = "respond" /\ pc' = "return" /\ state' = "READY" /\ UNCHANGED <<plant, motor, queue>>
    BY <1>6 DEF Respond
  <2>2. ~motor.on /\ Len(queue) <= Slack + 1
    BY <2>1 DEF Off, Light
  <2> QED
    BY <1>0, <2>1, <2>2 DEF Light, LightLoad, plant
<1> QED
  BY <1>1, <1>2, <1>3, <1>4, <1>5, <1>6

\* No post of the closed loop is refused by a ring of more than Slack + 2 slots, Slack
\* being the quarter steps that the main loop may be late: whatever the line does, however
\* often the host is interrupted and the controller reset.
THEOREM RingSuffices == ASSUME Patient, Nudges = 0 PROVE Spec => []LightLoad
<1>1. Init => LightInv
  <2>1. Init => Light
    BY InitTypes, BoundsAssumption DEF Init, Light, LightLoad, Enc!InitEncoder
  <2> QED
    BY <2>1, WaitInvInit DEF LightInv
<1>2. LightInv /\ [Next]_vars => LightInv'
  <2> SUFFICES ASSUME LightInv, [Next]_vars PROVE LightInv'
    OBVIOUS
  <2>1. WaitInv'
    BY WaitInvStep DEF LightInv
  <2>2. CASE MainThread
    BY <2>1, <2>2, LightScheduler, LightPackets, LightMotor DEF MainThread, LightInv
  <2>3. CASE MotorTurns
    BY <2>1, <2>3, LightTurns DEF LightInv
  <2>4. CASE Next /\ ~MainThread /\ ~MotorTurns
    BY <2>1, <2>4, LightEnvironment DEF Next, LightInv
  <2>5. CASE UNCHANGED vars
    BY <2>1, <2>5 DEF vars, LightInv, Light, LightLoad, HostEventWaiting
  <2> QED
    BY <2>1, <2>2, <2>3, <2>4, <2>5 DEF LightInv
<1>3. LightInv => LightLoad
  BY DEF LightInv, Light
<1> QED
  BY <1>1, <1>2, <1>3, PTL DEF Spec

=============================================================================
