-------------------------- MODULE UserApplication --------------------------
(***************************************************************************)
(* application/user_application.c in its closed loop: the state machine    *)
(* that calibrates the motor and moves it to the angle a host asks for,    *)
(* driving the stepper motor driver and fed by the encoder's interrupts    *)
(* and by received packets.                                                *)
(*                                                                         *)
(* The scheduler is the FIFO that Scheduler is shown to implement, with    *)
(* the refusal of a full ring.  The encoder driver is that of              *)
(* EncoderDriver, whose interrupt comes right after the edge.  The main    *)
(* thread runs in the steps between which an interrupt makes a difference. *)
(***************************************************************************)
EXTENDS Integers, Sequences

CONSTANTS ENCODER_DRV_ENCODER_POSITION_RESOLUTION,
          FULL_TURN,                 \* the degrees of a turn, 360 in the code
          UINT8,                     \* the values of a uint8_t, 256 in the code
          SCHEDULER_MAX_QUEUE_SIZE,
          IMMEDIATE, SCHEDULED,
          Commands,                  \* environment: what the host may send
          Unknown,                   \* a command with another cmd_type
          Patient,                   \* environment: the host sends once calibrated
          Restarts,                  \* environment: main.py may be interrupted
          Noise,                     \* environment: packets may be corrupted
          Slack,                     \* environment: quarter steps the rotor makes
                                     \* at most while an encoder event is waiting
          Nudges,                    \* bound: quarter steps the stopped rotor is
                                     \* forced to make, in all
          Resets                     \* bound: resets, by watchdog or power

R == ENCODER_DRV_ENCODER_POSITION_RESOLUTION

ASSUME SizesAssumption ==
    /\ R \in Nat /\ R >= 3
    /\ FULL_TURN \in Nat /\ FULL_TURN >= R
    /\ UINT8 \in Nat /\ UINT8 >= R
    /\ SCHEDULER_MAX_QUEUE_SIZE \in Nat /\ SCHEDULER_MAX_QUEUE_SIZE >= 2
ASSUME CommandsAssumption == Commands \subseteq Nat \cup {Unknown}
ASSUME BoundsAssumption == Slack \in Nat /\ Nudges \in Nat /\ Resets \in Nat

VARIABLES encoder, rotor,      \* as in EncoderDriver
          motor,               \* the DIR pin and whether the PWM runs
          queue,               \* the scheduler's ring; its head is being handled
          pc,                  \* where the main thread is
          state,               \* user_application_state_machine_state
          params,              \* user_application_state_machine_params
          current,             \* current_encoder_position, once read
          slack, nudges,       \* environment: quarter steps made
          resets,              \* environment: resets so far
          asked,               \* history: the command the host waits for
          reply,               \* history: the last response
          travel               \* history: quarter steps driven for this command

app == <<state, params, current>>
plant == <<encoder, rotor, slack, nudges, resets, travel>>
host == <<asked, reply>>
vars == <<encoder, rotor, motor, queue, pc, state, params, current, slack, nudges,
          resets, asked, reply, travel>>

Nobody == -1   \* no command is outstanding

Enc == INSTANCE EncoderDriver WITH
    Handling <- IMMEDIATE, Lag <- 0, Drift <- 0,
    direction <- motor.dir, latched <- {}, lagging <- 0,
    calls <- <<>>, homed <- state # "CALIBRATION", drift <- 0

-----------------------------------------------------------------------------
(* Data. *)

Event(type, command) == [type |-> type, command |-> command]

Internal == Event("INTERNAL", 0)

\* ENCODER_DRV_ENCODER_ANGLE_TO_POSITION, assigned to a uint8_t, and back.
ToPosition(angle) == ((angle * R) \div FULL_TURN) % UINT8
ToAngle(position) == (position * FULL_TURN) \div R

\* Mutant: the higher bound is off by one.
IsValidInclusive(position) == position <= R

IsValid(position) == position <= R - 1

Events ==
    {Event(t, 0) : t \in {"INTERNAL", "STEP", "HOME", "CORRUPTED"}}
        \cup {Event(t, c) : t \in {"PACKET", "CMD"}, c \in Commands}

TypeOK ==
    /\ encoder \in Enc!EncoderStates
    /\ rotor \in Enc!Quarters
    /\ motor \in [on : BOOLEAN, dir : {Enc!Anticlockwise, Enc!Clockwise}]
    /\ queue \in Seq(Events) /\ Len(queue) <= SCHEDULER_MAX_QUEUE_SIZE
    /\ pc \in {"boot", "init", "idle", "handler", "decide", "stop", "respond", "return"}
    /\ pc \notin {"boot", "init", "idle"} => queue # <<>>
    /\ state \in {"CALIBRATION", "READY", "EXECUTION"}
    /\ params \in [requested : 0 .. UINT8 - 1, ok : BOOLEAN]
    /\ current \in 0 .. R - 1
    /\ slack \in 0 .. Slack
    /\ nudges \in 0 .. Nudges
    /\ resets \in 0 .. Resets
    /\ asked \in Commands \cup {Nobody}
    /\ reply \in [ok : BOOLEAN, angle : Nat]
    /\ travel \in Nat

\* scheduler_event_put, called for each event in turn, with its status ignored:
\* what does not fit is refused.
PutAll(q, events) ==
    LET all == q \o events
    IN IF Len(all) <= SCHEDULER_MAX_QUEUE_SIZE THEN all
       ELSE SubSeq(all, 1, SCHEDULER_MAX_QUEUE_SIZE)

Put(e) == queue' = PutAll(queue, <<e>>)

-----------------------------------------------------------------------------
(* Power-up or a reset, and user_application_init.                        *)

NoParams == [requested |-> 0, ok |-> TRUE]
MotorOff == [on |-> FALSE, dir |-> Enc!Anticlockwise]

Init ==
    /\ encoder = Enc!InitEncoder
    /\ rotor \in Enc!Quarters
    /\ motor = MotorOff
    /\ queue = <<>>
    /\ pc = "boot"
    /\ state = "CALIBRATION"
    /\ params = NoParams
    /\ current = 0
    /\ slack = 0
    /\ nudges = 0
    /\ resets = 0
    /\ asked = Nobody
    /\ reply = [ok |-> TRUE, angle |-> 0]
    /\ travel = 0

\* A reset spares nothing but the place of the rotor; the host's port is gone
\* with the device, which ends its wait for a response.
Reset ==
    /\ resets < Resets
    /\ resets' = resets + 1
    /\ encoder' = Enc!InitEncoder
    /\ motor' = MotorOff
    /\ queue' = <<>>
    /\ pc' = "boot"
    /\ state' = "CALIBRATION"
    /\ params' = NoParams
    /\ current' = 0
    /\ slack' = 0
    /\ asked' = Nobody
    /\ travel' = 0
    /\ UNCHANGED <<rotor, nudges, reply>>

\* ipc_init, encoder_drv_init and stepper_motor_drv_init: from here on events of
\* the encoder are posted ...
InitDrivers ==
    /\ pc = "boot"
    /\ encoder' = [encoder EXCEPT !.registered = TRUE, !.handling = IMMEDIATE]
    /\ motor' = MotorOff
    /\ pc' = "init"
    /\ UNCHANGED <<rotor, slack, nudges, resets, travel, app, host, queue>>

\* ... which scheduler_init discards before the first event is posted: also the step
\* event of a home pulse between the stores of handlers and handling (EncoderDriver).
PostFirst ==
    /\ pc = "init"
    /\ queue' = <<Internal>>
    /\ pc' = "idle"
    /\ UNCHANGED <<app, plant, host, motor>>

-----------------------------------------------------------------------------
(* The stepper motor driver. *)

Drive(dir) == motor' = [on |-> TRUE, dir |-> dir]
DriveStop == motor' = [motor EXCEPT !.on = FALSE]

-----------------------------------------------------------------------------
(* The main thread. *)

\* scheduler_execute calls the handler of the oldest event ...
Execute ==
    /\ pc = "idle"
    /\ queue # <<>>
    /\ pc' = "handler"
    /\ UNCHANGED <<app, plant, host, motor, queue>>

\* ... and frees its slot when it has returned.
Return ==
    /\ pc = "return"
    /\ queue' = Tail(queue)
    /\ pc' = "idle"
    /\ UNCHANGED <<app, plant, host, motor>>

Handling(types) == pc = "handler" /\ Head(queue).type \in types

\* user_application_process_received_data_packet_handler
ProcessPacket ==
    /\ Handling({"PACKET"})
    /\ Put(Event("CMD", Head(queue).command))
    /\ pc' = "return"
    /\ UNCHANGED <<app, plant, host, motor>>

DropPacket ==
    /\ Handling({"CORRUPTED"})
    /\ pc' = "return"
    /\ UNCHANGED <<app, plant, host, motor, queue>>

\* user_application_state_machine_event_handler, CALIBRATION
StartCalibration ==
    /\ Handling({"INTERNAL"})
    /\ state = "CALIBRATION"
    /\ Drive(Enc!Clockwise)
    /\ pc' = "return"
    /\ UNCHANGED <<app, plant, host, queue>>

\* Mutant: calibration ends with the motor running.
EndCalibrationRunning ==
    /\ Handling({"HOME"})
    /\ state = "CALIBRATION"
    /\ state' = "READY"
    /\ pc' = "return"
    /\ UNCHANGED <<motor, params, current, plant, host, queue>>

EndCalibration ==
    /\ Handling({"HOME"})
    /\ state = "CALIBRATION"
    /\ DriveStop
    /\ state' = "READY"
    /\ pc' = "return"
    /\ UNCHANGED <<params, current, plant, host, queue>>

\* READY: a command is checked, and the position read ...
AcceptCommand ==
    /\ Handling({"CMD"})
    /\ state = "READY"
    /\ Head(queue).command # Unknown
    /\ LET position == ToPosition(Head(queue).command)
       IN /\ params' = [requested |-> position, ok |-> IsValid(position)]
          /\ IF IsValid(position)
             THEN /\ current' = encoder.position
                  /\ pc' = "decide"
                  /\ UNCHANGED <<state, queue>>
             ELSE /\ state' = "EXECUTION"
                  /\ Put(Internal)
                  /\ pc' = "return"
                  /\ UNCHANGED current
    /\ travel' = 0
    /\ UNCHANGED <<encoder, rotor, slack, nudges, resets, host, motor>>

\* Mutant: nothing ends a command for the position already reached.
DecideDirectionSilently ==
    /\ pc = "decide"
    /\ state' = "EXECUTION"
    /\ \/ params.requested > current /\ Drive(Enc!Anticlockwise)
       \/ params.requested < current /\ Drive(Enc!Clockwise)
       \/ params.requested = current /\ UNCHANGED motor
    /\ pc' = "return"
    /\ UNCHANGED <<params, current, plant, host, queue>>

\* Mutant: the internal event is posted for every command.
DecideDirectionPosting ==
    /\ pc = "decide"
    /\ state' = "EXECUTION"
    /\ \/ params.requested > current /\ Drive(Enc!Anticlockwise)
       \/ params.requested < current /\ Drive(Enc!Clockwise)
       \/ params.requested = current /\ UNCHANGED motor
    /\ Put(Internal)
    /\ pc' = "return"
    /\ UNCHANGED <<params, current, plant, host>>

\* ... and the motor driven the way the position read calls for.
DecideDirection ==
    /\ pc = "decide"
    /\ state' = "EXECUTION"
    /\ \/ /\ params.requested > current
          /\ Drive(Enc!Anticlockwise)
          /\ UNCHANGED queue
       \/ /\ params.requested < current
          /\ Drive(Enc!Clockwise)
          /\ UNCHANGED queue
       \/ /\ params.requested = current
          /\ Put(Internal)
          /\ UNCHANGED motor
    /\ pc' = "return"
    /\ UNCHANGED <<params, current, plant, host>>

\* Mutant: step events are ignored in EXECUTION too.
CheckPositionOnInternal ==
    /\ Handling({"INTERNAL", "STEP"})
    /\ state = "EXECUTION"
    /\ current' = encoder.position
    /\ pc' = IF /\ Head(queue).type = "INTERNAL"
                /\ params.requested = encoder.position \/ ~params.ok
             THEN "stop" ELSE "return"
    /\ UNCHANGED <<state, params, plant, host, motor, queue>>

\* EXECUTION: an internal or a step event compares the positions ...
CheckPosition ==
    /\ Handling({"INTERNAL", "STEP"})
    /\ state = "EXECUTION"
    /\ current' = encoder.position
    /\ pc' = IF params.requested = encoder.position \/ ~params.ok
             THEN "stop" ELSE "return"
    /\ UNCHANGED <<state, params, plant, host, motor, queue>>

\* ... stops the motor ...
StopMotor ==
    /\ pc = "stop"
    /\ DriveStop
    /\ pc' = "respond"
    /\ UNCHANGED <<app, plant, host, queue>>

\* Mutant: the status of the response is left at its initial value.
RespondOk ==
    /\ pc = "respond"
    /\ reply' = [ok |-> TRUE, angle |-> ToAngle(params.requested)]
    /\ asked' = Nobody
    /\ state' = "READY"
    /\ pc' = "return"
    /\ UNCHANGED <<params, current, plant, motor, queue>>

\* ... and sends the response, which reports the position requested.
Respond ==
    /\ pc = "respond"
    /\ reply' = [ok |-> params.ok, angle |-> ToAngle(params.requested)]
    /\ asked' = Nobody
    /\ state' = "READY"
    /\ pc' = "return"
    /\ UNCHANGED <<params, current, plant, motor, queue>>

\* The events each state ignores.
Ignored ==
    \/ state = "CALIBRATION" /\ Handling({"CMD", "STEP"})
    \/ state = "READY" /\ Handling({"INTERNAL", "STEP", "HOME"})
    \/ state = "READY" /\ Handling({"CMD"}) /\ Head(queue).command = Unknown
    \/ state = "EXECUTION" /\ Handling({"CMD", "HOME"})

IgnoreEvent ==
    /\ Ignored
    /\ pc' = "return"
    /\ UNCHANGED <<app, plant, host, motor, queue>>

MainThread ==
    \/ InitDrivers \/ PostFirst
    \/ Execute \/ Return
    \/ ProcessPacket \/ DropPacket
    \/ StartCalibration \/ EndCalibration
    \/ AcceptCommand \/ DecideDirection
    \/ CheckPosition \/ StopMotor \/ Respond
    \/ IgnoreEvent

-----------------------------------------------------------------------------
(* The rotor, and the encoder's interrupt for the edges it causes, whose   *)
(* handlers post an event each.                                            *)

EncoderEvent(call) == Event(IF call = "home" THEN "HOME" ELSE "STEP", 0)

Move(d) ==
    /\ rotor' = Enc!Turned(rotor, d)
    /\ LET s == Enc!Serve(Enc!Rising(rotor, rotor'), encoder, rotor')
       IN /\ encoder' = s.encoder
          /\ queue' = PutAll(queue, [i \in DOMAIN s.calls |-> EncoderEvent(s.calls[i])])

EncoderEventWaiting == \E i \in DOMAIN queue : queue[i].type \in {"STEP", "HOME"}

MotorTurns ==
    /\ motor.on
    /\ EncoderEventWaiting => slack < Slack
    /\ Move(motor.dir)
    /\ slack' = IF EncoderEventWaiting THEN slack + 1 ELSE 0
    /\ travel' = IF state = "EXECUTION" /\ travel <= 4 * R + Slack THEN travel + 1 ELSE travel
    /\ UNCHANGED <<app, host, motor, pc, nudges, resets>>

\* "forcibly rotated by someone/external factors"; before encoder_drv_init enables
\* its interrupts nothing sees it.
Nudge(d) ==
    /\ ~motor.on
    /\ nudges < Nudges
    /\ nudges' = nudges + 1
    /\ \/ Move(d)
       \/ pc = "boot" /\ rotor' = Enc!Turned(rotor, d) /\ UNCHANGED <<encoder, queue>>
    /\ UNCHANGED <<app, host, motor, pc, slack, resets, travel>>

-----------------------------------------------------------------------------
(* The host: main.py sends one command and waits for the response.  The     *)
(* script sleeps for two seconds before it sends, so that a packet of its  *)
(* predecessor has left the ring.                                          *)

HostEventWaiting ==
    \E i \in DOMAIN queue : queue[i].type \in {"PACKET", "CORRUPTED", "CMD"}

HostSend(c) ==
    /\ asked = Nobody
    /\ pc \notin {"boot", "init"}
    /\ ~HostEventWaiting
    /\ Patient => state = "READY"
    /\ asked' = c
    /\ \/ Put(Event("PACKET", c))
       \/ Noise /\ Put(Event("CORRUPTED", 0))
    /\ UNCHANGED <<app, plant, motor, pc, reply>>

\* main.py waits without a timeout: who is tired of it interrupts the script.
HostGivesUp ==
    /\ Restarts
    /\ asked # Nobody
    /\ asked' = Nobody
    /\ UNCHANGED <<app, plant, motor, queue, pc, reply>>

-----------------------------------------------------------------------------
Next ==
    \/ MainThread
    \/ MotorTurns
    \/ \E d \in {Enc!Anticlockwise, Enc!Clockwise} : Nudge(d)
    \/ \E c \in Commands : HostSend(c)
    \/ HostGivesUp
    \/ Reset

Fairness == WF_vars(MainThread) /\ WF_vars(MotorTurns)

Spec == Init /\ [][Next]_vars /\ Fairness

-----------------------------------------------------------------------------
(* Properties. *)

\* A response says OK for exactly the angles of a turn, and then names the
\* angle that was asked for to the resolution of the encoder ("ensuring the
\* validity of the request and responding back with appropriate status
\* messages", README, Application).
InTurn(c) == c \in 0 .. FULL_TURN - 1

ReplyTruthful ==
    [][pc = "respond" /\ pc' = "return" =>
         /\ reply'.ok <=> InTurn(asked)
         /\ reply'.ok => asked - reply'.angle \in 0 .. (FULL_TURN \div R)]_vars

\* The closed loop is the service its host counts on: besides being truthful,
\* "halting when the desired angle is achieved" (README, Application) leaves the
\* rotor itself, not only the count of the encoder driver, within one count of
\* the position asked for, and a command ends with its answer or with a reset.
Service == INSTANCE PositioningService WITH at <- Enc!TrueCount

ImplementsService == Service!Safety

\* The motor takes the direct way: no command turns the rotor past its target
\* and once around.
DirectPath == travel <= 4 * R + Slack

\* The motor never runs on with nobody to stop it: READY ignores every event of
\* the encoder, so there it must be off, whatever host and line do.
Halts == state = "READY" /\ pc \in {"idle", "handler"} => ~motor.on

\* Nor does a command wait for an event that cannot come: in EXECUTION the motor
\* runs, or an event is waiting that ends the command.
NeverStranded ==
    state = "EXECUTION" /\ pc = "idle" =>
        motor.on \/ \E i \in DOMAIN queue : queue[i].type \in {"INTERNAL", "STEP"}

\* The status of no post is looked at (user_application.c 53, 59, 134, 156): the ring
\* must never be full.  One event is being handled or comes from the host, the
\* others are those of the quarter steps the main loop is late.
LightLoad == Len(queue) <= Slack + 2

\* Whenever the motor has been started, some event stops it.
EveryDriveEnds == motor.on ~> ~motor.on

\* Wherever the rotor stands at power-up or at a reset, calibration ends, unless
\* another reset begins it again.
Calibrates == state = "CALIBRATION" ~> state = "READY"

\* "Wait for the response from the MCU" (README, Usage): a host that waits for a
\* response gets one, unless a reset takes its command with it.
EveryCommandAnswered == Service!EveryCommandEnds
=============================================================================
