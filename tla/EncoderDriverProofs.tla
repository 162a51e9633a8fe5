------------------------ MODULE EncoderDriverProofs ------------------------
(***************************************************************************)
(* EncoderDriver for every resolution, and however late its interrupt is   *)
(* served: its types, that every count is reported, that an edge served    *)
(* before the next quarter step is counted in the direction the rotor      *)
(* turns in, and that the position tracks the rotor.                       *)
(***************************************************************************)
EXTENDS EncoderDriver, TLAPS

-----------------------------------------------------------------------------
(* The operators of the driver. *)

LEMMA CountedType ==
    ASSUME NEW e \in EncoderStates, NEW p \in Positions
    PROVE  Counted(e, p) \in EncoderStates
  BY DEF Counted, EncoderStates

LEMMA StepsType ==
    ASSUME NEW e \in EncoderStates
    PROVE  /\ Increment(e.position) \in Positions
           /\ Decrement(e.position) \in Positions
  BY ResolutionAssumption
     DEF Increment, Decrement, Positions, EncoderStates

LEMMA PinTypes ==
    ASSUME NEW e \in EncoderStates, NEW high
    PROVE  /\ AnticlockwisePin(e, high) \in EncoderStates
           /\ ClockwisePin(e, high) \in EncoderStates
           /\ HomePin(e) \in EncoderStates
           /\ StepNotified(e) \in EncoderStates
<1> DEFINE up == Counted(e, Increment(e.position))
           down == Counted(e, Decrement(e.position))
<1>1. up \in EncoderStates /\ down \in EncoderStates
  BY StepsType, CountedType
<1>2. ASSUME NEW f \in EncoderStates, NEW b \in BOOLEAN
      PROVE  /\ [f EXCEPT !.acwFailed = b] \in EncoderStates
             /\ [f EXCEPT !.cwFailed = b] \in EncoderStates
             /\ [f EXCEPT !.notify = b] \in EncoderStates
  BY DEF EncoderStates
<1> HIDE DEF up, down
<1>3. AnticlockwisePin(e, high) \in EncoderStates
  <2>1. (IF e.cwFailed THEN down ELSE e) \in EncoderStates
    BY <1>1
  <2>2. [(IF e.cwFailed THEN down ELSE e) EXCEPT !.cwFailed = TRUE] \in EncoderStates
    BY <2>1, <1>2
  <2>3. [up EXCEPT !.acwFailed = FALSE] \in EncoderStates
    BY <1>1, <1>2
  <2> QED
    BY <2>2, <2>3 DEF AnticlockwisePin, up, down
<1>4. ClockwisePin(e, high) \in EncoderStates
  <2>1. (IF e.acwFailed THEN up ELSE e) \in EncoderStates
    BY <1>1
  <2>2. [(IF e.acwFailed THEN up ELSE e) EXCEPT !.acwFailed = TRUE] \in EncoderStates
    BY <2>1, <1>2
  <2>3. [down EXCEPT !.cwFailed = FALSE] \in EncoderStates
    BY <1>1, <1>2
  <2> QED
    BY <2>2, <2>3 DEF ClockwisePin, up, down
<1>5. HomePin(e) \in EncoderStates
  <2>1. 0 \in Positions
    BY ResolutionAssumption DEF Positions
  <2> QED
    BY <2>1 DEF HomePin, EncoderStates
<1>6. StepNotified(e) \in EncoderStates
  <2>1. (e.notify /\ ~NotifiesStep(e)) \in BOOLEAN
    OBVIOUS
  <2> QED
    BY <2>1, <1>2 DEF StepNotified
<1> QED
  BY <1>3, <1>4, <1>5, <1>6

Calls == Seq({"step", "home"})

LEMMA CallTypes ==
    ASSUME NEW e \in EncoderStates, NEW c \in Calls
    PROVE  StepCall(e, c) \in Calls /\ HomeCall(e, c) \in Calls
  BY DEF StepCall, HomeCall, Calls

LEMMA ServeType ==
    ASSUME NEW pins, NEW e \in EncoderStates, NEW q
    PROVE  /\ Serve(pins, e, q).encoder \in EncoderStates
           /\ Serve(pins, e, q).calls \in Calls
<1> DEFINE
    a == IF "A" \in pins THEN AnticlockwisePin(e, BHigh(q)) ELSE e
    ca == IF "A" \in pins THEN StepCall(a, <<>>) ELSE <<>>
    na == IF "A" \in pins THEN StepNotified(a) ELSE a
    z == IF "Z" \in pins THEN HomePin(na) ELSE na
    cz == IF "Z" \in pins THEN HomeCall(z, ca) ELSE ca
    b == IF "B" \in pins THEN ClockwisePin(z, AHigh(q)) ELSE z
    cb == IF "B" \in pins THEN StepCall(b, cz) ELSE cz
    nb == IF "B" \in pins THEN StepNotified(b) ELSE b
<1>0. <<>> \in Calls
  BY DEF Calls
<1>1. a \in EncoderStates
  BY PinTypes
<1>2. ca \in Calls
  <2> HIDE DEF a
  <2> QED BY <1>0, <1>1, CallTypes
<1>3. na \in EncoderStates
  <2> HIDE DEF a
  <2> QED BY <1>1, PinTypes
<1>4. z \in EncoderStates
  <2> HIDE DEF na
  <2> QED BY <1>3, PinTypes
<1>5. cz \in Calls
  <2> HIDE DEF z, ca
  <2> QED BY <1>2, <1>4, CallTypes
<1>6. b \in EncoderStates
  <2> HIDE DEF z
  <2> QED BY <1>4, PinTypes
<1>7. cb \in Calls
  <2> HIDE DEF b, cz
  <2> QED BY <1>5, <1>6, CallTypes
<1>8. nb \in EncoderStates
  <2> HIDE DEF b
  <2> QED BY <1>6, PinTypes
<1>9. Serve(pins, e, q) = [encoder |-> nb, calls |-> cb]
  BY DEF Serve
<1> HIDE DEF nb, cb
<1> QED
  BY <1>7, <1>8, <1>9

-----------------------------------------------------------------------------
(* Types. *)

LEMMA ModRange == ASSUME NEW a \in Int, NEW b \in Nat, b > 0 PROVE a % b \in 0 .. b - 1
  BY SMT

LEMMA TurnedType ==
    ASSUME NEW q \in Quarters, NEW d \in {Anticlockwise, Clockwise}
    PROVE  Turned(q, d) \in Quarters
<1>1. q + d + 4 * R \in Int /\ 4 * R \in Nat /\ 4 * R > 0
  BY ResolutionAssumption DEF Quarters, Anticlockwise, Clockwise
<1> QED
  BY <1>1, ModRange DEF Turned, Quarters

\* The late quarter steps are part of the drift, which is why the drift a home
\* pulse leaves is within its bound.
TypeInv == TypeOK /\ LateCost * lagging <= drift

LEMMA TypeInvInit == Init => TypeInv
<1>1. 0 \in Positions /\ <<>> \in Seq({"step", "home"})
  BY ResolutionAssumption DEF Positions
<1>2. InitEncoder \in EncoderStates
  BY <1>1 DEF InitEncoder, EncoderStates
<1>3. ASSUME Init PROVE TypeInv
  <2>1. encoder \in EncoderStates /\ calls \in Seq({"step", "home"})
    BY <1>1, <1>2, <1>3 DEF Init
  <2>2. lagging \in 0 .. Lag /\ drift \in 0 .. Drift /\ LateCost * lagging <= drift
    BY <1>3, LagAssumption DEF Init, LateCost
  <2> QED
    BY <1>3, <2>1, <2>2 DEF Init, TypeInv, TypeOK
<1> QED
  BY <1>3

LEMMA TypeInvStep == TypeInv /\ [Next]_vars => TypeInv'
<1> SUFFICES ASSUME TypeInv, [Next]_vars PROVE TypeInv'
  OBVIOUS
<1> USE DEF TypeInv
<1>1. CASE RegisterHandlers \/ SetHandling
  <2>1. \A e \in EncoderStates :
            /\ [e EXCEPT !.registered = TRUE] \in EncoderStates
            /\ [e EXCEPT !.handling = Handling] \in EncoderStates
    BY HandlingAssumption DEF EncoderStates
  <2> QED
    BY <1>1, <2>1 DEF RegisterHandlers, SetHandling, TypeOK
<1>2. ASSUME NEW p \in 0 .. R, SetEncoderPosition(p) PROVE TypeInv'
  <2>1. \A e \in EncoderStates, n \in Positions : [e EXCEPT !.position = n] \in EncoderStates
    BY DEF EncoderStates
  <2> QED
    BY <1>2, <2>1 DEF SetEncoderPosition, TypeOK
<1>3. CASE Interrupt
  <2>1. encoder' \in EncoderStates /\ calls' \in Seq({"step", "home"})
    BY <1>3, ServeType DEF Interrupt, TypeOK, Calls
  <2>2. drift' \in 0 .. Drift
    BY <1>3, LagAssumption DEF Interrupt, TypeOK, LateCost
  <2>3. lagging' = 0 /\ latched' = {} /\ homed' \in BOOLEAN
    BY <1>3 DEF Interrupt, TypeOK
  <2> QED
    BY <1>3, <2>1, <2>2, <2>3, LagAssumption DEF Interrupt, TypeOK, LateCost
<1>4. CASE Rotate
  <2>1. rotor' \in Quarters
    BY <1>4, TurnedType DEF Rotate, TypeOK
  <2>2. latched' \in SUBSET {"A", "B", "Z"}
    BY <1>4 DEF Rotate, Rising, TypeOK
  <2>3. lagging' \in 0 .. Lag /\ drift' \in 0 .. Drift /\ LateCost * lagging' <= drift'
    BY <1>4, LagAssumption DEF Rotate, TypeOK, LateCost
  <2> QED
    BY <1>4, <2>1, <2>2, <2>3 DEF Rotate, TypeOK
<1>5. CASE Reverse
  <2>1. direction' \in {Anticlockwise, Clockwise}
    BY <1>5 DEF Reverse, TypeOK, Anticlockwise, Clockwise
  <2>2. drift' \in 0 .. Drift /\ drift' >= drift
    BY <1>5, LagAssumption DEF Reverse, TypeOK
  <2>3. UNCHANGED <<encoder, rotor, latched, lagging, calls, homed>>
    BY <1>5 DEF Reverse
  <2>4. LateCost * lagging <= drift'
    BY <2>2, LagAssumption DEF TypeOK, LateCost
  <2> QED
    BY <2>1, <2>2, <2>3, <2>4 DEF TypeOK
<1>6. CASE UNCHANGED vars
  BY <1>6 DEF vars, TypeOK
<1> QED
  BY <1>1, <1>2, <1>3, <1>4, <1>5, <1>6 DEF Next

LEMMA TypeInvariant == Spec => []TypeInv
<1> QED
  BY TypeInvInit, TypeInvStep, PTL DEF Spec

\* The position stays between its bounds and the flags of the interrupt keep
\* their types, for every resolution, lag and drift.
THEOREM TypeCorrect == Spec => []TypeOK
<1>1. TypeInv => TypeOK
  BY DEF TypeInv
<1> QED
  BY <1>1, TypeInvariant, PTL

-----------------------------------------------------------------------------
(* Arithmetic of the circle. *)

\* The count of a quarter step, before it is wrapped.
CountAt(q) == (q + 3) \div 4

LEMMA DivMod ==
    ASSUME NEW a \in Int, NEW b \in Nat, b > 0
    PROVE  a = (a \div b) * b + (a % b) /\ a \div b \in Int /\ a % b \in 0 .. b - 1
  BY SMT

LEMMA Products ==
    ASSUME NEW j \in Int, NEW k \in Int
    PROVE  /\ (j + k) * R = j * R + k * R
           /\ (j - k) * R = j * R - k * R
           /\ j * R \in Int
           /\ j > 0 => j * R >= R
           /\ j < 0 => j * R <= -R
           /\ 0 * R = 0 /\ 1 * R = R
  BY ResolutionAssumption, SMT

LEMMA QuarterAfter ==
    ASSUME NEW q \in Nat
    PROVE  /\ q % 4 \in 0 .. 3
           /\ (q + 1) % 4 = IF q % 4 = 3 THEN 0 ELSE (q % 4) + 1
           /\ CountAt(q) \in Nat
           /\ CountAt(q + 1) = IF q % 4 = 0 THEN CountAt(q) + 1 ELSE CountAt(q)
  BY SMT DEF CountAt

LEMMA LastQuarter ==
    /\ 4 * R - 1 \in Quarters /\ (4 * R - 1) % 4 = 3 /\ CountAt(4 * R - 1) = R
    /\ 0 \in Quarters /\ 0 % 4 = 0 /\ CountAt(0) = 0
  BY ResolutionAssumption, SMT DEF CountAt, Quarters

LEMMA TurnedAnticlockwise ==
    ASSUME NEW q \in Quarters
    PROVE  Turned(q, Anticlockwise) = IF q = 4 * R - 1 THEN 0 ELSE q + 1
  BY ResolutionAssumption, SMTT(30) DEF Quarters, Turned, Anticlockwise

LEMMA TurnedClockwise ==
    ASSUME NEW q \in Quarters
    PROVE  Turned(q, Clockwise) = IF q = 0 THEN 4 * R - 1 ELSE q - 1
  BY ResolutionAssumption, SMTT(30) DEF Quarters, Turned, Clockwise

\* What a quarter step does to pins and count.
LEMMA AnticlockwiseStep ==
    ASSUME NEW q \in Quarters, NEW n, n = Turned(q, Anticlockwise)
    PROVE  /\ n \in Quarters /\ q % 4 \in 0 .. 3
           /\ q % 4 = 0 => n % 4 = 1 /\ Rising(q, n) = {"A"}
           /\ q % 4 = 1 => n % 4 = 2 /\ Rising(q, n) = {"B"}
           /\ q % 4 = 2 => n % 4 = 3 /\ Rising(q, n) = {}
           /\ q % 4 = 3 => n % 4 = 0 /\ Rising(q, n) = IF n = 0 THEN {"Z"} ELSE {}
           /\ CountAt(n) = CountAt(q) + (IF q % 4 = 0 THEN 1 ELSE 0)
                                      - (IF n = 0 THEN R ELSE 0)
<1>1. q \in Nat /\ q < 4 * R
  BY ResolutionAssumption DEF Quarters
<1>2. CASE q = 4 * R - 1
  <2>1. n = 0 /\ q % 4 = 3 /\ CountAt(q) = R /\ n % 4 = 0 /\ CountAt(n) = 0 /\ n \in Quarters
    BY <1>2, LastQuarter, TurnedAnticlockwise
  <2>2. Rising(q, n) = {"Z"}
    BY <1>2, <2>1, ResolutionAssumption DEF Rising, AHigh, BHigh, ZHigh
  <2> QED
    BY <2>1, <2>2, ResolutionAssumption
<1>3. CASE q # 4 * R - 1
  <2>1. n = q + 1 /\ n # 0 /\ n \in Quarters
    BY <1>1, <1>3, TurnedAnticlockwise, ResolutionAssumption DEF Quarters
  <2>2. /\ q % 4 \in 0 .. 3 /\ n % 4 = IF q % 4 = 3 THEN 0 ELSE (q % 4) + 1
        /\ CountAt(q) \in Nat
        /\ CountAt(n) = IF q % 4 = 0 THEN CountAt(q) + 1 ELSE CountAt(q)
    BY <1>1, <2>1, QuarterAfter
  <2>3. "Z" \notin Rising(q, n)
    BY <2>1 DEF Rising, ZHigh
  <2>4. /\ "A" \in Rising(q, n) <=> q % 4 = 0
        /\ "B" \in Rising(q, n) <=> q % 4 = 1
    BY <2>2 DEF Rising, AHigh, BHigh
  <2>5. Rising(q, n) \subseteq {"A", "B", "Z"}
    BY DEF Rising
  <2>6. /\ q % 4 = 0 => Rising(q, n) = {"A"}
        /\ q % 4 = 1 => Rising(q, n) = {"B"}
        /\ q % 4 \in {2, 3} => Rising(q, n) = {}
    BY <2>3, <2>4, <2>5
  <2> QED
    BY <2>1, <2>2, <2>6
<1> QED
  BY <1>2, <1>3

LEMMA ClockwiseStep ==
    ASSUME NEW q \in Quarters, NEW n, n = Turned(q, Clockwise)
    PROVE  /\ n \in Quarters /\ q % 4 \in 0 .. 3
           /\ q % 4 = 0 => n % 4 = 3 /\ Rising(q, n) = {"B"}
           /\ q % 4 = 3 => n % 4 = 2 /\ Rising(q, n) = {"A"}
           /\ q % 4 = 2 => n % 4 = 1 /\ Rising(q, n) = {}
           /\ q % 4 = 1 => n % 4 = 0 /\ Rising(q, n) = IF n = 0 THEN {"Z"} ELSE {}
           /\ CountAt(n) = CountAt(q) - (IF q % 4 = 1 THEN 1 ELSE 0)
                                      + (IF q = 0 THEN R ELSE 0)
<1>1. q \in Nat
  BY ResolutionAssumption DEF Quarters
<1>2. CASE q = 0
  <2>1. n = 4 * R - 1 /\ q % 4 = 0 /\ CountAt(q) = 0 /\ n % 4 = 3 /\ CountAt(n) = R /\ n \in Quarters
    BY <1>2, LastQuarter, TurnedClockwise
  <2>2. Rising(q, n) = {"B"}
    BY <1>2, <2>1, ResolutionAssumption DEF Rising, AHigh, BHigh, ZHigh
  <2> QED
    BY <1>2, <2>1, <2>2, ResolutionAssumption
<1>3. CASE q # 0
  <2>1. q = n + 1 /\ n \in Nat /\ n \in Quarters
    BY <1>1, <1>3, TurnedClockwise, ResolutionAssumption DEF Quarters
  <2>2. /\ n % 4 \in 0 .. 3 /\ q % 4 = IF n % 4 = 3 THEN 0 ELSE (n % 4) + 1
        /\ CountAt(n) \in Nat
        /\ CountAt(q) = IF n % 4 = 0 THEN CountAt(n) + 1 ELSE CountAt(n)
    BY <2>1, QuarterAfter
  <2>3. "Z" \in Rising(q, n) <=> n = 0
    BY <1>3 DEF Rising, ZHigh
  <2>4. /\ "A" \in Rising(q, n) <=> q % 4 = 3
        /\ "B" \in Rising(q, n) <=> q % 4 = 0
    BY <2>2 DEF Rising, AHigh, BHigh
  <2>5. Rising(q, n) \subseteq {"A", "B", "Z"}
    BY DEF Rising
  <2>6. n = 0 => n % 4 = 0 /\ q % 4 = 1
    BY <2>1, <2>2, LastQuarter
  <2>7. /\ q % 4 = 0 => Rising(q, n) = {"B"}
        /\ q % 4 = 3 => Rising(q, n) = {"A"}
        /\ q % 4 = 2 => Rising(q, n) = {}
        /\ q % 4 = 1 => Rising(q, n) = IF n = 0 THEN {"Z"} ELSE {}
    BY <2>3, <2>4, <2>5, <2>6
  <2> QED
    BY <1>3, <2>1, <2>2, <2>7
<1> QED
  BY <1>2, <1>3

-----------------------------------------------------------------------------
(* Windows: how far a position is from a count. *)

\* The position p is off the count c by lo to hi, whole turns apart.
Near(p, c, lo, hi) == \E k \in Int : p - c + (k * R) \in lo .. hi

LEMMA NearShifts ==
    ASSUME NEW p \in Int, NEW c \in Int, NEW lo \in Int, NEW hi \in Int, Near(p, c, lo, hi),
           NEW p2 \in Int, NEW c2 \in Int, NEW lo2 \in Int, NEW hi2 \in Int,
           \E y \in {0, R, -R} : LET x == (p2 - c2) - (p - c) - y
                                 IN lo2 <= lo + x /\ hi + x <= hi2
    PROVE  Near(p2, c2, lo2, hi2)
<1>1. PICK k \in Int : p - c + (k * R) \in lo .. hi
  BY DEF Near
<1>2. PICK y \in {0, R, -R} : LET x == (p2 - c2) - (p - c) - y
                              IN lo2 <= lo + x /\ hi + x <= hi2
  OBVIOUS
<1>3. k * R \in Int /\ R \in Nat
  BY Products, ResolutionAssumption
<1>4. ASSUME NEW j \in Int, j * R = (k * R) - y PROVE Near(p2, c2, lo2, hi2)
  <2>1. p2 - c2 + (j * R) \in lo2 .. hi2
    BY <1>1, <1>2, <1>3, <1>4
  <2> QED
    BY <2>1 DEF Near
<1>5. CASE y = 0
  <2>1. k * R = (k * R) - y
    BY <1>3, <1>5
  <2> QED
    BY <1>4, <2>1
<1>6. CASE y = R
  <2>1. k - 1 \in Int /\ (k - 1) * R = (k * R) - y
    BY <1>6, Products
  <2> QED
    BY <1>4, <2>1
<1>7. CASE y = -R
  <2>1. k + 1 \in Int /\ (k + 1) * R = (k * R) - y
    BY <1>3, <1>7, Products
  <2> QED
    BY <1>4, <2>1
<1> QED
  BY <1>5, <1>6, <1>7

\* A count up or down moves the window with it.
LEMMA NearCounts ==
    ASSUME NEW p \in Positions, NEW c \in Int, NEW lo \in Int, NEW hi \in Int, Near(p, c, lo, hi),
           NEW lo2 \in Int, NEW hi2 \in Int
    PROVE  /\ lo2 <= lo /\ hi <= hi2 => Near(p, c, lo2, hi2)
           /\ lo2 <= lo + 1 /\ hi + 1 <= hi2 => Near(Increment(p), c, lo2, hi2)
           /\ lo2 <= lo - 1 /\ hi - 1 <= hi2 => Near(Decrement(p), c, lo2, hi2)
<1>1. R \in Nat /\ p \in Int /\ Increment(p) \in Int /\ Decrement(p) \in Int
  BY ResolutionAssumption DEF Positions, Increment, Decrement
<1>3. ASSUME lo2 <= lo, hi <= hi2 PROVE Near(p, c, lo2, hi2)
  <2>1. \E y \in {0, R, -R} : LET x == (p - c) - (p - c) - y
                               IN lo2 <= lo + x /\ hi + x <= hi2
    BY <1>1, <1>3
  <2> QED
    BY <1>1, <2>1, NearShifts
<1>4. ASSUME lo2 <= lo + 1, hi + 1 <= hi2 PROVE Near(Increment(p), c, lo2, hi2)
  <2> DEFINE turn == IF p = R - 1 THEN -R ELSE 0
  <2>1. turn \in {0, R, -R} /\ (Increment(p) - c) - (p - c) - turn = 1
    BY <1>1 DEF Increment
  <2> HIDE DEF turn
  <2>2. \E y \in {0, R, -R} : LET x == (Increment(p) - c) - (p - c) - y
                               IN lo2 <= lo + x /\ hi + x <= hi2
    BY <1>1, <1>4, <2>1
  <2> QED
    BY <1>1, <2>2, NearShifts
<1>5. ASSUME lo2 <= lo - 1, hi - 1 <= hi2 PROVE Near(Decrement(p), c, lo2, hi2)
  <2> DEFINE turn == IF p = 0 THEN R ELSE 0
  <2>1. turn \in {0, R, -R} /\ (Decrement(p) - c) - (p - c) - turn = -1
    BY <1>1 DEF Decrement
  <2> HIDE DEF turn
  <2>2. \E y \in {0, R, -R} : LET x == (Decrement(p) - c) - (p - c) - y
                               IN lo2 <= lo + x /\ hi + x <= hi2
    BY <1>1, <1>5, <2>1
  <2> QED
    BY <1>1, <2>2, NearShifts
<1> QED
  BY <1>3, <1>4, <1>5

\* What is near by count is near on the circle, in one direction or the other.
LEMMA NearOnCircle ==
    ASSUME NEW p \in Positions, NEW c \in Int, NEW b \in Nat, Near(p, c, -b, b)
    PROVE  LET error == ((p - (c % R)) + R) % R
           IN error <= b \/ R - error <= b
<1> DEFINE error == ((p - (c % R)) + R) % R
<1>0. R \in Nat /\ R > 0 /\ p \in Int
  BY ResolutionAssumption DEF Positions
<1>1. PICK k \in Int : p - c + (k * R) \in -b .. b
  BY DEF Near
<1> DEFINE i == c \div R
           a == (p - (c % R)) + R
           j == a \div R
<1>2. c = (i * R) + (c % R) /\ i \in Int /\ c % R \in Int
  BY <1>0, DivMod
<1>3. a = (j * R) + error /\ j \in Int /\ error \in 0 .. R - 1
  <2>1. a \in Int
    BY <1>0, <1>2
  <2> HIDE DEF a
  <2>2. a = ((a \div R) * R) + (a % R) /\ a \div R \in Int /\ a % R \in 0 .. R - 1
    BY <1>0, <2>1, DivMod
  <2> QED
    BY <2>2 DEF a
<1>9. a = (p - (c % R)) + R
  OBVIOUS
<1> HIDE DEF error, i, j, a
<1> DEFINE n == ((j - i) + k) - 1
<1>4. n \in Int /\ n * R = (j * R) - (i * R) + (k * R) - R
  <2>1. (j - i) * R = (j * R) - (i * R) /\ j - i \in Int
    BY <1>2, <1>3, Products
  <2>2. ((j - i) + k) * R = ((j - i) * R) + (k * R) /\ (j - i) + k \in Int
    BY <1>2, <1>3, <2>1, Products
  <2>3. n * R = (((j - i) + k) * R) - (1 * R) /\ 1 * R = R /\ n \in Int
    BY <1>2, <1>3, <2>2, Products
  <2>4. j * R \in Int /\ i * R \in Int /\ k * R \in Int
    BY <1>2, <1>3, Products
  <2> HIDE DEF n
  <2> QED
    BY <1>0, <2>1, <2>2, <2>3, <2>4
<1>5. /\ n > 0 => n * R >= R
      /\ n < 0 => n * R <= -R
      /\ n = 0 => n * R = 0
      /\ n * R \in Int
  BY <1>2, <1>3, <1>4, Products
<1>6. p - c + (k * R) = (n * R) + error
  <2>1. j * R \in Int /\ i * R \in Int /\ k * R \in Int
    BY <1>2, <1>3, Products
  <2> QED
    BY <1>0, <1>2, <1>3, <1>9, <1>4, <2>1
<1> HIDE DEF n
<1>7. (n * R) + error \in -b .. b
  BY <1>1, <1>6
<1>8. error <= b \/ R - error <= b
  BY <1>0, <1>3, <1>4, <1>5, <1>7
<1> QED
  BY <1>8 DEF error

-----------------------------------------------------------------------------
(* What an interrupt changes. *)

SameCount(e, f) ==
    /\ f.position = e.position /\ f.home = e.home
    /\ f.acwFailed = e.acwFailed /\ f.cwFailed = e.cwFailed

\* What a count changes, and what being reported does not.
LEMMA CountedFields ==
    ASSUME NEW e \in EncoderStates, NEW p \in Positions
    PROVE  LET f == Counted(e, p)
           IN /\ f.position = IF e.home THEN e.position ELSE p
              /\ f.home = FALSE /\ f.notify = TRUE
              /\ f.acwFailed = e.acwFailed /\ f.cwFailed = e.cwFailed
              /\ f.registered = e.registered /\ f.handling = e.handling
  BY DEF Counted, EncoderStates

LEMMA NotifiedFields ==
    ASSUME NEW e \in EncoderStates
    PROVE  LET f == StepNotified(e)
           IN /\ f \in EncoderStates /\ SameCount(e, f)
              /\ f.registered = e.registered /\ f.handling = e.handling
<1>1. LET f == StepNotified(e)
      IN SameCount(e, f) /\ f.registered = e.registered /\ f.handling = e.handling
  BY DEF StepNotified, EncoderStates, SameCount
<1> QED
  BY <1>1, PinTypes

LEMMA FlagFields ==
    ASSUME NEW e \in EncoderStates, NEW b \in BOOLEAN
    PROVE  LET f == [e EXCEPT !.acwFailed = b]
               g == [e EXCEPT !.cwFailed = b]
           IN /\ f.position = e.position /\ f.home = e.home /\ f.notify = e.notify
              /\ f.registered = e.registered /\ f.handling = e.handling /\ f.acwFailed = b
              /\ g.position = e.position /\ g.home = e.home /\ g.notify = e.notify
              /\ g.registered = e.registered /\ g.handling = e.handling /\ g.cwFailed = b
  BY DEF EncoderStates

\* What the edge of one pin makes of e, the other pin being high or not.
Counts(e, f, high, ahead, back, failed) ==
    /\ f \in EncoderStates /\ f.registered = e.registered /\ f.handling = e.handling
    /\ f.position # e.position => f.notify
    /\ ~e.home => ~f.home
    /\ high = FALSE => f.position = (IF e.home THEN e.position ELSE ahead) /\ ~f.home
    /\ high = TRUE => f.position = IF failed /\ ~e.home THEN back ELSE e.position

LEMMA HomeFields ==
    ASSUME NEW e \in EncoderStates
    PROVE  LET f == HomePin(e)
           IN /\ f \in EncoderStates /\ f.registered = e.registered /\ f.handling = e.handling
              /\ f.position = 0 /\ f.home = TRUE
<1>1. HomePin(e) \in EncoderStates
  BY PinTypes
<1>2. LET f == HomePin(e)
      IN /\ f.registered = e.registered /\ f.handling = e.handling
         /\ f.position = 0 /\ f.home = TRUE
  BY DEF HomePin, EncoderStates
<1> QED
  BY <1>1, <1>2

LEMMA AnticlockwiseFields ==
    ASSUME NEW e \in EncoderStates, NEW high \in BOOLEAN
    PROVE  LET f == AnticlockwisePin(e, high)
           IN /\ Counts(e, f, high, Increment(e.position), Decrement(e.position), e.cwFailed)
              /\ high = FALSE => ~f.acwFailed
<1> DEFINE up == Counted(e, Increment(e.position))
           down == Counted(e, Decrement(e.position))
           f == AnticlockwisePin(e, high)
<1>0. f \in EncoderStates
  BY PinTypes
<1>1. Increment(e.position) \in Positions /\ Decrement(e.position) \in Positions
  BY StepsType
<1>2. /\ up \in EncoderStates
      /\ up.position = IF e.home THEN e.position ELSE Increment(e.position)
      /\ up.home = FALSE /\ up.notify = TRUE
      /\ up.registered = e.registered /\ up.handling = e.handling
  BY <1>1, CountedFields, CountedType
<1>3. /\ down \in EncoderStates
      /\ down.position = IF e.home THEN e.position ELSE Decrement(e.position)
      /\ down.home = FALSE /\ down.notify = TRUE
      /\ down.registered = e.registered /\ down.handling = e.handling
  BY <1>1, CountedFields, CountedType
<1>4. /\ high = TRUE /\ e.cwFailed => f = [down EXCEPT !.cwFailed = TRUE]
      /\ high = TRUE /\ ~e.cwFailed => f = [e EXCEPT !.cwFailed = TRUE]
      /\ high = FALSE => f = [up EXCEPT !.acwFailed = FALSE]
  BY DEF AnticlockwisePin
<1> HIDE DEF up, down, f
<1>5. CASE high = FALSE
  <2>1. /\ f.position = up.position /\ f.home = up.home /\ f.notify = up.notify
        /\ f.registered = up.registered /\ f.handling = up.handling /\ f.acwFailed = FALSE
    <3>1. f = [up EXCEPT !.acwFailed = FALSE]
      BY <1>4, <1>5
    <3>2. up \in EncoderStates
      BY <1>2
    <3> QED
      BY <3>1, <3>2, FlagFields
  <2>2. /\ f.position = IF e.home THEN e.position ELSE Increment(e.position)
        /\ f.notify /\ ~f.home /\ ~f.acwFailed
        /\ f.registered = e.registered /\ f.handling = e.handling
    BY <1>2, <2>1
  <2> QED
    BY <1>0, <1>5, <2>2 DEF f, Counts
<1>6. CASE high = TRUE /\ e.cwFailed
  <2>1. /\ f.position = down.position /\ f.home = down.home /\ f.notify = down.notify
        /\ f.registered = down.registered /\ f.handling = down.handling
    <3>1. f = [down EXCEPT !.cwFailed = TRUE]
      BY <1>4, <1>6
    <3>2. down \in EncoderStates
      BY <1>3
    <3> QED
      BY <3>1, <3>2, FlagFields
  <2> QED
    BY <1>0, <1>3, <1>6, <2>1 DEF f, Counts
<1>7. CASE high = TRUE /\ ~e.cwFailed
  <2>1. /\ f.position = e.position /\ f.home = e.home /\ f.notify = e.notify
        /\ f.registered = e.registered /\ f.handling = e.handling
    <3>1. f = [e EXCEPT !.cwFailed = TRUE]
      BY <1>4, <1>7
    <3>2. e \in EncoderStates
      OBVIOUS
    <3> QED
      BY <3>1, <3>2, FlagFields
  <2> QED
    BY <1>0, <1>7, <2>1 DEF f, Counts
<1> QED
  BY <1>5, <1>6, <1>7

LEMMA ClockwiseFields ==
    ASSUME NEW e \in EncoderStates, NEW high \in BOOLEAN
    PROVE  LET f == ClockwisePin(e, high)
           IN /\ Counts(e, f, high, Decrement(e.position), Increment(e.position), e.acwFailed)
              /\ high = FALSE => ~f.cwFailed
<1> DEFINE up == Counted(e, Decrement(e.position))
           down == Counted(e, Increment(e.position))
           f == ClockwisePin(e, high)
<1>0. f \in EncoderStates
  BY PinTypes
<1>1. Decrement(e.position) \in Positions /\ Increment(e.position) \in Positions
  BY StepsType
<1>2. /\ up \in EncoderStates
      /\ up.position = IF e.home THEN e.position ELSE Decrement(e.position)
      /\ up.home = FALSE /\ up.notify = TRUE
      /\ up.registered = e.registered /\ up.handling = e.handling
  BY <1>1, CountedFields, CountedType
<1>3. /\ down \in EncoderStates
      /\ down.position = IF e.home THEN e.position ELSE Increment(e.position)
      /\ down.home = FALSE /\ down.notify = TRUE
      /\ down.registered = e.registered /\ down.handling = e.handling
  BY <1>1, CountedFields, CountedType
<1>4. /\ high = TRUE /\ e.acwFailed => f = [down EXCEPT !.acwFailed = TRUE]
      /\ high = TRUE /\ ~e.acwFailed => f = [e EXCEPT !.acwFailed = TRUE]
      /\ high = FALSE => f = [up EXCEPT !.cwFailed = FALSE]
  BY DEF ClockwisePin
<1> HIDE DEF up, down, f
<1>5. CASE high = FALSE
  <2>1. /\ f.position = up.position /\ f.home = up.home /\ f.notify = up.notify
        /\ f.registered = up.registered /\ f.handling = up.handling /\ f.cwFailed = FALSE
    <3>1. f = [up EXCEPT !.cwFailed = FALSE]
      BY <1>4, <1>5
    <3>2. up \in EncoderStates
      BY <1>2
    <3> QED
      BY <3>1, <3>2, FlagFields
  <2>2. /\ f.position = IF e.home THEN e.position ELSE Decrement(e.position)
        /\ f.notify /\ ~f.home /\ ~f.cwFailed
        /\ f.registered = e.registered /\ f.handling = e.handling
    BY <1>2, <2>1
  <2> QED
    BY <1>0, <1>5, <2>2 DEF f, Counts
<1>6. CASE high = TRUE /\ e.acwFailed
  <2>1. /\ f.position = down.position /\ f.home = down.home /\ f.notify = down.notify
        /\ f.registered = down.registered /\ f.handling = down.handling
    <3>1. f = [down EXCEPT !.acwFailed = TRUE]
      BY <1>4, <1>6
    <3>2. down \in EncoderStates
      BY <1>3
    <3> QED
      BY <3>1, <3>2, FlagFields
  <2> QED
    BY <1>0, <1>3, <1>6, <2>1 DEF f, Counts
<1>7. CASE high = TRUE /\ ~e.acwFailed
  <2>1. /\ f.position = e.position /\ f.home = e.home /\ f.notify = e.notify
        /\ f.registered = e.registered /\ f.handling = e.handling
    <3>1. f = [e EXCEPT !.acwFailed = TRUE]
      BY <1>4, <1>7
    <3>2. e \in EncoderStates
      OBVIOUS
    <3> QED
      BY <3>1, <3>2, FlagFields
  <2> QED
    BY <1>0, <1>7, <2>1 DEF f, Counts
<1> QED
  BY <1>5, <1>6, <1>7

LEMMA ServeOne ==
    ASSUME NEW e \in EncoderStates, NEW q
    PROVE  /\ SameCount(AnticlockwisePin(e, BHigh(q)), Serve({"A"}, e, q).encoder)
           /\ SameCount(ClockwisePin(e, AHigh(q)), Serve({"B"}, e, q).encoder)
           /\ SameCount(HomePin(e), Serve({"Z"}, e, q).encoder)
<1>1. /\ Serve({"A"}, e, q).encoder = StepNotified(AnticlockwisePin(e, BHigh(q)))
      /\ Serve({"B"}, e, q).encoder = StepNotified(ClockwisePin(e, AHigh(q)))
      /\ Serve({"Z"}, e, q).encoder = HomePin(e)
  BY DEF Serve
<1> QED
  BY <1>1, PinTypes, NotifiedFields DEF SameCount

-----------------------------------------------------------------------------
(* Edges served before the next quarter step. *)

At == rotor % 4

\* The edges a quarter step can leave waiting, as long as no other follows it.
Edge ==
    \/ latched = {"A"} /\ direction = Anticlockwise /\ At = 1
    \/ latched = {"B"} /\ direction = Anticlockwise /\ At = 2
    \/ latched = {"B"} /\ direction = Clockwise /\ At = 3
    \/ latched = {"A"} /\ direction = Clockwise /\ At = 2
    \/ latched = {"Z"} /\ rotor = 0

EdgeInv == TypeInv /\ (latched # {} /\ lagging = 0 => Edge)

LEMMA RotateEdge ==
    ASSUME TypeInv, Rotate, latched = {}
    PROVE  latched' = {} \/ Edge'
<1>1. /\ rotor \in Quarters /\ rotor' = Turned(rotor, direction) /\ direction' = direction
      /\ latched' = Rising(rotor, rotor')
  BY DEF TypeInv, TypeOK, Rotate
<1>2. CASE direction = Anticlockwise
  BY <1>1, <1>2, AnticlockwiseStep DEF Edge, At
<1>3. CASE direction = Clockwise
  BY <1>1, <1>3, ClockwiseStep DEF Edge, At
<1> QED
  BY <1>2, <1>3 DEF TypeInv, TypeOK

LEMMA EdgeInvStep == EdgeInv /\ [Next]_vars => EdgeInv'
<1> SUFFICES ASSUME EdgeInv, [Next]_vars PROVE EdgeInv'
  OBVIOUS
<1>0. TypeInv'
  BY TypeInvStep DEF EdgeInv
<1>1. CASE RegisterHandlers \/ SetHandling \/ (\E p \in 0 .. R : SetEncoderPosition(p)) \/ UNCHANGED vars
  <2>1. UNCHANGED <<rotor, direction, latched, lagging>>
    BY <1>1 DEF RegisterHandlers, SetHandling, SetEncoderPosition, vars
  <2> QED
    BY <1>0, <2>1 DEF EdgeInv, Edge, At
<1>2. CASE Interrupt
  BY <1>0, <1>2 DEF Interrupt, EdgeInv
<1>3. CASE Rotate
  <2>1. CASE latched = {}
    BY <1>0, <1>3, <2>1, RotateEdge DEF EdgeInv
  <2>2. CASE latched # {}
    <3>1. lagging' = lagging + 1 /\ lagging \in Nat
      <4>1. lagging \in Nat
        BY LagAssumption DEF EdgeInv, TypeInv, TypeOK
      <4> QED
        BY <1>3, <2>2, <4>1 DEF Rotate
    <3>2. lagging' # 0
      BY <3>1
    <3> QED
      BY <1>0, <3>2 DEF EdgeInv
  <2> QED
    BY <2>1, <2>2
<1>4. CASE Reverse
  BY <1>0, <1>4 DEF Reverse, EdgeInv
<1> QED
  BY <1>1, <1>2, <1>3, <1>4 DEF Next

LEMMA BackwardsStep == EdgeInv /\ [Next]_vars =>
    (Interrupt /\ lagging = 0 /\ "Z" \notin latched /\ encoder'.position # encoder.position =>
         encoder'.position = IF direction = Anticlockwise
                             THEN Increment(encoder.position)
                             ELSE Decrement(encoder.position))
<1> SUFFICES ASSUME EdgeInv, Interrupt, lagging = 0, "Z" \notin latched,
                    encoder'.position # encoder.position
             PROVE  encoder'.position = IF direction = Anticlockwise
                                        THEN Increment(encoder.position)
                                        ELSE Decrement(encoder.position)
  OBVIOUS
<1>1. /\ encoder \in EncoderStates /\ encoder' = Serve(latched, encoder, rotor).encoder
      /\ Edge
  BY DEF EdgeInv, TypeInv, TypeOK, Interrupt
<1>2. /\ At = 1 => BHigh(rotor) = FALSE
      /\ At = 2 => AHigh(rotor) = TRUE /\ BHigh(rotor) = TRUE
      /\ At = 3 => AHigh(rotor) = FALSE
      /\ AHigh(rotor) \in BOOLEAN /\ BHigh(rotor) \in BOOLEAN
  BY DEF At, AHigh, BHigh
<1>3. Anticlockwise # Clockwise
  BY DEF Anticlockwise, Clockwise
<1>4. CASE latched = {"A"}
  <2> DEFINE f == AnticlockwisePin(encoder, BHigh(rotor))
  <2>1. /\ encoder'.position = f.position
        /\ Counts(encoder, f, BHigh(rotor), Increment(encoder.position),
                  Decrement(encoder.position), encoder.cwFailed)
    BY <1>1, <1>2, <1>4, ServeOne, AnticlockwiseFields DEF SameCount
  <2> HIDE DEF f
  <2>2. /\ BHigh(rotor) = FALSE => encoder'.position \in {encoder.position, Increment(encoder.position)}
        /\ BHigh(rotor) = TRUE => encoder'.position \in {encoder.position, Decrement(encoder.position)}
    BY <2>1 DEF Counts
  <2>3. \/ BHigh(rotor) = FALSE /\ direction = Anticlockwise
        \/ BHigh(rotor) = TRUE /\ direction = Clockwise
    BY <1>1, <1>2, <1>4 DEF Edge
  <2> QED
    BY <1>3, <2>2, <2>3
<1>5. CASE latched = {"B"}
  <2> DEFINE f == ClockwisePin(encoder, AHigh(rotor))
  <2>1. /\ encoder'.position = f.position
        /\ Counts(encoder, f, AHigh(rotor), Decrement(encoder.position),
                  Increment(encoder.position), encoder.acwFailed)
    BY <1>1, <1>2, <1>5, ServeOne, ClockwiseFields DEF SameCount
  <2> HIDE DEF f
  <2>2. /\ AHigh(rotor) = FALSE => encoder'.position \in {encoder.position, Decrement(encoder.position)}
        /\ AHigh(rotor) = TRUE => encoder'.position \in {encoder.position, Increment(encoder.position)}
    BY <2>1 DEF Counts
  <2>3. \/ AHigh(rotor) = TRUE /\ direction = Anticlockwise
        \/ AHigh(rotor) = FALSE /\ direction = Clockwise
    BY <1>1, <1>2, <1>5 DEF Edge
  <2> QED
    BY <1>3, <2>2, <2>3
<1> QED
  BY <1>1, <1>4, <1>5 DEF Edge

\* However late other edges are served, one that is served before the next quarter
\* step is counted in the direction the rotor turns in.
THEOREM CountsForwards == Spec => NeverCountsBackwards
<1>1. Init => EdgeInv
  BY TypeInvInit DEF Init, EdgeInv
<1> QED
  BY <1>1, EdgeInvStep, BackwardsStep, PTL DEF Spec, NeverCountsBackwards

-----------------------------------------------------------------------------
(* Calls. *)

LEMMA AppendNotEmpty ==
    ASSUME NEW c \in Calls, NEW call \in {"step", "home"}
    PROVE  /\ Append(c, call) # <<>>
           /\ Len(c) + 1 \in DOMAIN Append(c, call) /\ Append(c, call)[Len(c) + 1] = call
           /\ \A i \in DOMAIN c : i \in DOMAIN Append(c, call) /\ Append(c, call)[i] = c[i]
  BY DEF Calls

\* A pin that moves the position adds a call, whatever the handling.
LEMMA ServeCalls ==
    ASSUME NEW pins, NEW e \in EncoderStates, NEW q, e.registered
    PROVE  LET s == Serve(pins, e, q)
           IN s.encoder.position # e.position => s.calls # <<>>
<1> DEFINE
    a == IF "A" \in pins THEN AnticlockwisePin(e, BHigh(q)) ELSE e
    ca == IF "A" \in pins THEN StepCall(a, <<>>) ELSE <<>>
    na == IF "A" \in pins THEN StepNotified(a) ELSE a
    z == IF "Z" \in pins THEN HomePin(na) ELSE na
    cz == IF "Z" \in pins THEN HomeCall(z, ca) ELSE ca
    b == IF "B" \in pins THEN ClockwisePin(z, AHigh(q)) ELSE z
    cb == IF "B" \in pins THEN StepCall(b, cz) ELSE cz
    nb == IF "B" \in pins THEN StepNotified(b) ELSE b
<1>0. <<>> \in Calls /\ AHigh(q) \in BOOLEAN /\ BHigh(q) \in BOOLEAN
  BY DEF Calls, AHigh, BHigh
<1>1. /\ a \in EncoderStates /\ a.registered = e.registered /\ a.handling = e.handling
      /\ a.position # e.position => "A" \in pins /\ a.notify
  <2>1. CASE "A" \in pins
    <3>1. a = AnticlockwisePin(e, BHigh(q))
      BY <2>1
    <3> HIDE DEF a
    <3> QED
      BY <1>0, <2>1, <3>1, AnticlockwiseFields DEF Counts
  <2>2. CASE "A" \notin pins
    BY <2>2
  <2> QED
    BY <2>1, <2>2
<1>2. /\ ca \in Calls /\ na \in EncoderStates /\ a.position = na.position
      /\ na.registered = e.registered /\ na.handling = e.handling
      /\ a.position # e.position => ca # <<>>
  <2> HIDE DEF a
  <2>1. a.position # e.position => ca = Append(<<>>, "step")
    BY <1>1 DEF StepCall, NotifiesStep
  <2>2. a.position # e.position => ca # <<>>
    BY <1>0, <1>1, <2>1, AppendNotEmpty
  <2> QED
    BY <1>0, <1>1, <2>2, CallTypes, PinTypes, NotifiedFields DEF SameCount
<1>3. /\ z \in EncoderStates /\ z.registered = e.registered /\ z.handling = e.handling
      /\ z.position # na.position => "Z" \in pins
  <2> HIDE DEF na
  <2> QED
    BY <1>2, HomeFields
<1>4. /\ cz \in Calls
      /\ ca # <<>> \/ "Z" \in pins => cz # <<>>
  <2> HIDE DEF z, ca
  <2>1. cz \in Calls
    BY <1>2, <1>3, CallTypes
  <2>2. ASSUME "Z" \in pins
        PROVE cz = Append(ca, IF z.handling = IMMEDIATE THEN "home" ELSE "step")
    BY <1>3, <2>2 DEF HomeCall
  <2>3. "Z" \notin pins => cz = ca
    OBVIOUS
  <2> HIDE DEF cz
  <2>4. "Z" \in pins => cz # <<>>
    BY <1>2, <2>2, AppendNotEmpty
  <2> QED
    BY <2>1, <2>3, <2>4
<1>5. /\ b \in EncoderStates /\ b.registered = e.registered
      /\ b.position # z.position => "B" \in pins /\ b.notify
  <2> HIDE DEF z
  <2>1. CASE "B" \in pins
    <3>1. b = ClockwisePin(z, AHigh(q))
      BY <2>1
    <3> HIDE DEF b
    <3> QED
      BY <1>0, <1>3, <2>1, <3>1, ClockwiseFields DEF Counts
  <2>2. CASE "B" \notin pins
    BY <1>3, <2>2
  <2> QED
    BY <2>1, <2>2
<1>6. /\ nb.position = b.position
      /\ cb = cz \/ cb = Append(cz, "step")
      /\ b.position # z.position => cb = Append(cz, "step")
  <2> HIDE DEF b, cz
  <2> QED
    BY <1>5, NotifiedFields DEF SameCount, StepCall, NotifiesStep
<1>7. Serve(pins, e, q) = [encoder |-> nb, calls |-> cb]
  BY DEF Serve
<1> HIDE DEF a, ca, na, z, cz, b, cb, nb
<1>8. nb.position # e.position => cb # <<>>
  BY <1>1, <1>2, <1>3, <1>4, <1>5, <1>6, AppendNotEmpty
<1> QED
  BY <1>7, <1>8

\* Whenever its interrupt is served, every change of the position is reported once
\* handlers are registered, before and after the handling is stored.
THEOREM ChangesReported == Spec => EveryChangeReported
<1>1. TypeInv => (Interrupt /\ encoder.registered /\ encoder'.position # encoder.position =>
                    calls' # <<>>)
  BY ServeCalls DEF TypeInv, TypeOK, Interrupt
<1> QED
  BY <1>1, TypeInvariant, PTL DEF Spec, EveryChangeReported

-----------------------------------------------------------------------------
(* Where the position is, quarter step by quarter step. *)

OffBy(lo, hi) == Near(encoder.position, CountAt(rotor), lo - drift, hi + drift)

\* No edge waits: at rest between two counts, or in between.  After a home pulse
\* served late, the first edge that should have been counted may not have come.
Resting ==
    /\ latched = {} /\ At = 0
    /\ homed => IF encoder.home THEN OffBy(0, 0)
                ELSE IF direction = Anticlockwise THEN OffBy(-1, 0) ELSE OffBy(0, 1)

\* Turned round before the edge that would have undone the last count.
TurnedEarly ==
    \/ direction = Anticlockwise /\ At = 1 /\ encoder.acwFailed
    \/ direction = Clockwise /\ At = 3 /\ encoder.cwFailed

Between ==
    /\ latched = {} /\ At # 0
    /\ homed => IF encoder.home THEN OffBy(1, -2)
                ELSE OffBy(-1, 0) /\ (TurnedEarly => OffBy(0, -1))

\* One edge waits, since the last quarter step: of the pin that leads or trails.
FirstEdge ==
    /\ lagging = 0
    /\ \/ /\ latched = {"A"} /\ direction = Anticlockwise /\ At = 1
          /\ homed => IF encoder.home THEN OffBy(-1, -1) ELSE OffBy(-2, -1)
       \/ /\ latched = {"B"} /\ direction = Clockwise /\ At = 3
          /\ homed => IF encoder.home THEN OffBy(0, 0) ELSE OffBy(0, 1)

SecondEdge ==
    /\ lagging = 0 /\ At = 2
    /\ \/ /\ latched = {"B"} /\ direction = Anticlockwise
          /\ homed /\ ~encoder.home /\ encoder.acwFailed => OffBy(0, -1)
       \/ /\ latched = {"A"} /\ direction = Clockwise
          /\ homed /\ ~encoder.home /\ encoder.cwFailed => OffBy(0, -1)
    /\ homed => IF encoder.home THEN OffBy(1, -2) ELSE OffBy(-1, 0)

\* Edges wait for longer than that: the trailing pin's alone, or both.
LateEdge ==
    /\ lagging > 0
    /\ \/ latched = {"A"} /\ direction = Clockwise /\ At \in {0, 1}
       \/ latched = {"B"} /\ direction = Anticlockwise /\ At \in {0, 3}
    /\ homed => OffBy(1, -2)

LateEdges ==
    /\ lagging > 0 /\ latched = {"A", "B"}
    /\ homed => IF At # 2 THEN OffBy(2, -3)
                ELSE IF encoder.home THEN OffBy(1, -2) ELSE OffBy(0, -1)

\* The home pulse waits, alone or with others: position will be 0.
HomeEdge ==
    /\ "Z" \in latched
    /\ IF lagging = 0 THEN latched = {"Z"} /\ rotor = 0
       ELSE Near(0, CountAt(rotor), -lagging, lagging - 1)

Place == Resting \/ Between \/ FirstEdge \/ SecondEdge \/ LateEdge \/ LateEdges \/ HomeEdge

TrackInv == TypeInv /\ Place

LEMMA CountAtInt == ASSUME NEW q \in Quarters PROVE CountAt(q) \in Int
  BY QuarterAfter, ResolutionAssumption DEF Quarters

\* The window of the position, moved by a quarter step of the rotor.
LEMMA NearTurns ==
    ASSUME NEW p \in Positions, NEW q \in Quarters, NEW d \in {Anticlockwise, Clockwise},
           NEW n, n = Turned(q, d), NEW lo \in Int, NEW hi \in Int, Near(p, CountAt(q), lo, hi)
    PROVE  /\ d = Anticlockwise /\ q % 4 = 0 => Near(p, CountAt(n), lo - 1, hi - 1)
           /\ d = Clockwise /\ q % 4 = 1 => Near(p, CountAt(n), lo + 1, hi + 1)
           /\ d = Anticlockwise /\ q % 4 # 0 => Near(p, CountAt(n), lo, hi)
           /\ d = Clockwise /\ q % 4 # 1 => Near(p, CountAt(n), lo, hi)
<1> DEFINE c == CountAt(q)
           c2 == CountAt(n)
<1>1. n \in Quarters /\ c \in Int /\ c2 \in Int
  BY TurnedType, CountAtInt
<1>2. R \in Nat /\ p \in Int /\ lo - 1 \in Int /\ hi - 1 \in Int /\ lo + 1 \in Int /\ hi + 1 \in Int
  BY ResolutionAssumption DEF Positions
<1>3. d = Anticlockwise =>
        c2 = c + (IF q % 4 = 0 THEN 1 ELSE 0) - (IF n = 0 THEN R ELSE 0)
  BY AnticlockwiseStep
<1>4. d = Clockwise =>
        c2 = c - (IF q % 4 = 1 THEN 1 ELSE 0) + (IF q = 0 THEN R ELSE 0)
  BY ClockwiseStep
<1>5. Near(p, c, lo, hi)
  OBVIOUS
<1> HIDE DEF c, c2
<1>6. ASSUME d = Anticlockwise, q % 4 = 0 PROVE Near(p, c2, lo - 1, hi - 1)
  <2> DEFINE turn == IF n = 0 THEN R ELSE 0
  <2>1. turn \in {0, R, -R} /\ (p - c2) - (p - c) - turn = -1
    BY <1>1, <1>2, <1>3, <1>6
  <2> HIDE DEF turn
  <2>2. \E y \in {0, R, -R} : LET x == (p - c2) - (p - c) - y
                               IN lo - 1 <= lo + x /\ hi + x <= hi - 1
    BY <1>2, <2>1
  <2> QED
    BY <1>1, <1>2, <1>5, <2>2, NearShifts
<1>7. ASSUME d = Clockwise, q % 4 = 1 PROVE Near(p, c2, lo + 1, hi + 1)
  <2> DEFINE turn == IF q = 0 THEN -R ELSE 0
  <2>1. turn \in {0, R, -R} /\ (p - c2) - (p - c) - turn = 1
    BY <1>1, <1>2, <1>4, <1>7
  <2> HIDE DEF turn
  <2>2. \E y \in {0, R, -R} : LET x == (p - c2) - (p - c) - y
                               IN lo + 1 <= lo + x /\ hi + x <= hi + 1
    BY <1>2, <2>1
  <2> QED
    BY <1>1, <1>2, <1>5, <2>2, NearShifts
<1>8. ASSUME \/ d = Anticlockwise /\ q % 4 # 0
             \/ d = Clockwise /\ q % 4 # 1
      PROVE Near(p, c2, lo, hi)
  <2> DEFINE turn == IF d = Anticlockwise THEN (IF n = 0 THEN R ELSE 0)
                                          ELSE (IF q = 0 THEN -R ELSE 0)
  <2>1. turn \in {0, R, -R} /\ (p - c2) - (p - c) - turn = 0
    BY <1>1, <1>2, <1>3, <1>4, <1>8 DEF Anticlockwise, Clockwise
  <2> HIDE DEF turn
  <2>2. \E y \in {0, R, -R} : LET x == (p - c2) - (p - c) - y
                               IN lo <= lo + x /\ hi + x <= hi
    BY <1>2, <2>1
  <2> QED
    BY <1>1, <1>2, <1>5, <2>2, NearShifts
<1> QED
  BY <1>6, <1>7, <1>8 DEF c, c2

\* What the place is after an interrupt or a turn, by how near the position is.
LEMMA Placed ==
    ASSUME TypeInv', latched' = {}
    PROVE  /\ (homed' => OffBy(1, -2)') => Place'
           /\ ~encoder'.home /\ (homed' => OffBy(0, -1)') => Place'
           /\ ~encoder'.home /\ ~TurnedEarly' /\ (homed' => OffBy(0, 0)') => Place'
           /\ ~encoder'.home /\ ~TurnedEarly' /\ At' # 0 /\ (homed' => OffBy(-1, 0)') => Place'
           /\ At' = 0 /\ (homed' => OffBy(0, 0)') => Place'
<1>1. /\ encoder'.position \in Positions /\ drift' \in Nat /\ CountAt(rotor') \in Int
      /\ direction' \in {Anticlockwise, Clockwise}
  <2>1. \A q \in Quarters : CountAt(q) \in Int
    BY CountAtInt
  <2> QED
    BY <2>1, LagAssumption DEF TypeInv, TypeOK, EncoderStates
<1>2. /\ OffBy(1, -2)' => OffBy(0, -1)'
      /\ OffBy(0, -1)' => OffBy(0, 0)'
      /\ OffBy(0, 0)' => OffBy(-1, 0)' /\ OffBy(0, 1)'
  <2>1. ASSUME NEW n \in Positions, NEW c \in Int, NEW d \in Nat
        PROVE  /\ Near(n, c, 1 - d, -2 + d) => Near(n, c, 0 - d, -1 + d)
               /\ Near(n, c, 0 - d, -1 + d) => Near(n, c, 0 - d, 0 + d)
               /\ Near(n, c, 0 - d, 0 + d) => Near(n, c, -1 - d, 0 + d)
               /\ Near(n, c, 0 - d, 0 + d) => Near(n, c, 0 - d, 1 + d)
    <3>1. \A lo, hi, lo2, hi2 \in Int :
            Near(n, c, lo, hi) /\ lo2 <= lo /\ hi <= hi2 => Near(n, c, lo2, hi2)
      BY NearCounts
    <3>2. Near(n, c, 1 - d, -2 + d) => Near(n, c, 0 - d, -1 + d)
      BY <3>1
    <3>3. Near(n, c, 0 - d, -1 + d) => Near(n, c, 0 - d, 0 + d)
      BY <3>1
    <3>4. Near(n, c, 0 - d, 0 + d) => Near(n, c, -1 - d, 0 + d)
      BY <3>1
    <3>5. Near(n, c, 0 - d, 0 + d) => Near(n, c, 0 - d, 1 + d)
      BY <3>1
    <3> QED
      BY <3>2, <3>3, <3>4, <3>5
  <2> QED
    BY <1>1, <2>1 DEF OffBy
<1>3. ASSUME homed' => OffBy(1, -2)' PROVE Place'
  BY <1>2, <1>3 DEF Place, Resting, Between
<1>4. ASSUME ~encoder'.home, homed' => OffBy(0, -1)' PROVE Place'
  BY <1>2, <1>4 DEF Place, Resting, Between
<1>5. ASSUME ~encoder'.home, ~TurnedEarly', homed' => OffBy(0, 0)' PROVE Place'
  BY <1>2, <1>5 DEF Place, Resting, Between
<1>6. ASSUME ~encoder'.home, ~TurnedEarly', At' # 0, homed' => OffBy(-1, 0)' PROVE Place'
  BY <1>6 DEF Place, Between
<1>7. ASSUME At' = 0, homed' => OffBy(0, 0)' PROVE Place'
  BY <1>2, <1>7 DEF Place, Resting
<1> QED
  BY <1>3, <1>4, <1>5, <1>6, <1>7

\* A quarter step moves the window by the count it is due, and the drift of one
\* that is late makes room.
LEMMA OffByTurns ==
    ASSUME TypeInv, NEW cost \in Nat, rotor' = Turned(rotor, direction), encoder' = encoder,
           drift' = drift + cost,
           NEW step \in Int,
           step = (IF direction = Anticlockwise /\ At = 0 THEN 1
                   ELSE IF direction = Clockwise /\ At = 1 THEN -1 ELSE 0),
           NEW lo \in Int, NEW hi \in Int, OffBy(lo, hi),
           NEW lo2 \in Int, NEW hi2 \in Int, lo2 <= lo - step + cost, hi - step - cost <= hi2
    PROVE  OffBy(lo2, hi2)'
<1> DEFINE low == lo - drift
           high == hi + drift
           p == encoder.position
           c == CountAt(rotor')
<1>1. /\ p \in Positions /\ rotor \in Quarters /\ rotor' \in Quarters /\ drift \in Int
      /\ direction \in {Anticlockwise, Clockwise} /\ Anticlockwise # Clockwise
  BY TurnedType DEF TypeInv, TypeOK, EncoderStates, Anticlockwise, Clockwise
<1>2. c \in Int /\ low \in Int /\ high \in Int /\ Near(p, CountAt(rotor), low, high)
  BY <1>1, CountAtInt DEF OffBy
<1>3. Near(p, c, low - step, high - step)
  <2>1. /\ low - 0 = low /\ high - 0 = high
        /\ low - (-1) = low + 1 /\ high - (-1) = high + 1
    BY <1>2
  <2>2. /\ direction = Anticlockwise /\ At = 0 => Near(p, c, low - 1, high - 1)
        /\ direction = Clockwise /\ At = 1 => Near(p, c, low + 1, high + 1)
        /\ direction = Anticlockwise /\ At # 0 => Near(p, c, low, high)
        /\ direction = Clockwise /\ At # 1 => Near(p, c, low, high)
    <3> HIDE DEF low, high
    <3> QED
      BY <1>1, <1>2, NearTurns DEF At
  <2> HIDE DEF low, high, p, c
  <2>3. CASE direction = Anticlockwise /\ At = 0
    BY <2>2, <2>3
  <2>4. CASE direction = Clockwise /\ At = 1
    <3>1. step = -1
      BY <1>1, <2>4
    <3> QED
      BY <2>1, <2>2, <2>4, <3>1
  <2>5. CASE direction = Anticlockwise /\ At # 0
    <3>1. step = 0
      BY <1>1, <2>5
    <3> QED
      BY <2>1, <2>2, <2>5, <3>1
  <2>6. CASE direction = Clockwise /\ At # 1
    <3>1. step = 0
      BY <1>1, <2>6
    <3> QED
      BY <2>1, <2>2, <2>6, <3>1
  <2> QED
    BY <1>1, <2>3, <2>4, <2>5, <2>6
<1>4. /\ low - step \in Int /\ high - step \in Int
      /\ lo2 - (drift + cost) \in Int /\ hi2 + (drift + cost) \in Int
      /\ lo2 - (drift + cost) <= low - step /\ high - step <= hi2 + (drift + cost)
  BY <1>1
<1> HIDE DEF low, high, p, c
<1>5. Near(p, c, lo2 - (drift + cost), hi2 + (drift + cost))
  BY <1>1, <1>2, <1>3, <1>4, NearCounts
<1> QED
  BY <1>5 DEF OffBy, p, c

LEMMA RotatePlace ==
    ASSUME TrackInv, Rotate, latched = {}
    PROVE  Place'
<1>1. /\ rotor \in Quarters /\ rotor' = Turned(rotor, direction)
      /\ direction \in {Anticlockwise, Clockwise} /\ Anticlockwise # Clockwise
      /\ latched' = Rising(rotor, rotor') /\ At \in 0 .. 3
      /\ encoder' = encoder /\ homed' = homed /\ direction' = direction
      /\ drift' = drift /\ lagging' = 0
  BY AnticlockwiseStep, ClockwiseStep
     DEF TrackInv, TypeInv, TypeOK, Rotate, At, Anticlockwise, Clockwise
<1>2. drift' = drift + 0
  BY <1>1 DEF TrackInv, TypeInv, TypeOK
<1> DEFINE step == IF direction = Anticlockwise /\ At = 0 THEN 1
                   ELSE IF direction = Clockwise /\ At = 1 THEN -1 ELSE 0
<1>3. \A lo, hi, lo2, hi2 \in Int :
        OffBy(lo, hi) /\ lo2 <= lo - step /\ hi - step <= hi2 => OffBy(lo2, hi2)'
  <2>1. step \in Int /\ \A lo \in Int : lo - step + 0 = lo - step /\ lo - step - 0 = lo - step
    OBVIOUS
  <2> HIDE DEF step
  <2>2. ASSUME NEW lo \in Int, NEW hi \in Int, NEW lo2 \in Int, NEW hi2 \in Int,
               OffBy(lo, hi), lo2 <= lo - step, hi - step <= hi2
        PROVE  OffBy(lo2, hi2)'
    BY <1>1, <1>2, <2>1, <2>2, OffByTurns DEF TrackInv, step
  <2> QED
    BY <2>2
<1>4. Resting \/ Between
  BY DEF TrackInv, Place, FirstEdge, SecondEdge, LateEdge, LateEdges, HomeEdge
<1>5. CASE direction = Anticlockwise
  <2>1. /\ At = 0 => At' = 1 /\ latched' = {"A"}
        /\ At = 1 => At' = 2 /\ latched' = {"B"}
        /\ At = 2 => At' = 3 /\ latched' = {}
        /\ At = 3 => At' = 0 /\ latched' = IF rotor' = 0 THEN {"Z"} ELSE {}
    BY <1>1, <1>5, AnticlockwiseStep DEF At
  <2>2. CASE At = 0
    <3>1. homed => IF encoder.home THEN OffBy(0, 0) ELSE OffBy(-1, 0)
      BY <1>4, <1>5, <2>2 DEF Resting, Between
    <3>2. step = 1
      BY <1>5, <2>2
    <3> HIDE DEF step
    <3>3. homed => IF encoder.home THEN OffBy(-1, -1)' ELSE OffBy(-2, -1)'
      BY <1>3, <3>1, <3>2
    <3> QED
      BY <1>1, <1>5, <2>1, <2>2, <3>3 DEF Place, FirstEdge
  <2>3. CASE At # 0
    <3>1. /\ homed => IF encoder.home THEN OffBy(1, -2) ELSE OffBy(-1, 0)
          /\ homed /\ ~encoder.home /\ encoder.acwFailed /\ At = 1 => OffBy(0, -1)
      BY <1>4, <1>5, <2>3 DEF Resting, Between, TurnedEarly
    <3>2. step = 0
      BY <1>1, <1>5, <2>3
    <3> HIDE DEF step
    <3>3. /\ homed => IF encoder.home THEN OffBy(1, -2)' /\ OffBy(0, 0)' ELSE OffBy(-1, 0)'
          /\ homed /\ ~encoder.home /\ encoder.acwFailed /\ At = 1 => OffBy(0, -1)'
      BY <1>3, <3>1, <3>2
    <3>4. CASE At = 1
      BY <1>1, <1>5, <2>1, <3>3, <3>4 DEF Place, SecondEdge
    <3>5. CASE At = 2
      <4>1. ~TurnedEarly'
        BY <1>1, <1>5, <2>1, <3>5 DEF TurnedEarly
      <4> QED
        BY <1>1, <2>1, <3>3, <3>5, <4>1 DEF Place, Between
    <3>6. CASE At = 3
      BY <1>1, <1>5, <2>1, <3>3, <3>6 DEF Place, Resting, HomeEdge
    <3> QED
      BY <1>1, <2>3, <3>4, <3>5, <3>6
  <2> QED
    BY <2>2, <2>3
<1>6. CASE direction = Clockwise
  <2>1. /\ At = 0 => At' = 3 /\ latched' = {"B"}
        /\ At = 3 => At' = 2 /\ latched' = {"A"}
        /\ At = 2 => At' = 1 /\ latched' = {}
        /\ At = 1 => At' = 0 /\ latched' = IF rotor' = 0 THEN {"Z"} ELSE {}
    BY <1>1, <1>6, ClockwiseStep DEF At
  <2>2. CASE At = 0
    <3>1. homed => IF encoder.home THEN OffBy(0, 0) ELSE OffBy(0, 1)
      BY <1>1, <1>4, <1>6, <2>2 DEF Resting, Between
    <3>2. step = 0
      BY <1>1, <1>6, <2>2
    <3> HIDE DEF step
    <3>3. homed => IF encoder.home THEN OffBy(0, 0)' ELSE OffBy(0, 1)'
      BY <1>3, <3>1, <3>2
    <3> QED
      BY <1>1, <1>6, <2>1, <2>2, <3>3 DEF Place, FirstEdge
  <2>3. CASE At = 1
    <3>1. homed => IF encoder.home THEN OffBy(1, -2) ELSE OffBy(-1, 0)
      BY <1>4, <2>3 DEF Resting, Between
    <3>2. step = -1
      BY <1>1, <1>6, <2>3
    <3> HIDE DEF step
    <3>3. homed => IF encoder.home THEN OffBy(0, 0)' ELSE OffBy(0, 1)'
      BY <1>3, <3>1, <3>2
    <3> QED
      BY <1>1, <1>6, <2>1, <2>3, <3>3 DEF Place, Resting, HomeEdge
  <2>4. CASE At = 2 \/ At = 3
    <3>1. /\ homed => IF encoder.home THEN OffBy(1, -2) ELSE OffBy(-1, 0)
          /\ homed /\ ~encoder.home /\ encoder.cwFailed /\ At = 3 => OffBy(0, -1)
      BY <1>4, <1>6, <2>4 DEF Resting, Between, TurnedEarly
    <3>2. step = 0
      BY <1>1, <1>6, <2>4
    <3> HIDE DEF step
    <3>3. /\ homed => IF encoder.home THEN OffBy(1, -2)' ELSE OffBy(-1, 0)'
          /\ homed /\ ~encoder.home /\ encoder.cwFailed /\ At = 3 => OffBy(0, -1)'
      BY <1>3, <3>1, <3>2
    <3>4. CASE At = 3
      BY <1>1, <1>6, <2>1, <3>3, <3>4 DEF Place, SecondEdge
    <3>5. CASE At = 2
      <4>1. ~TurnedEarly'
        BY <1>1, <1>6, <2>1, <3>5 DEF TurnedEarly
      <4> QED
        BY <1>1, <2>1, <3>3, <3>5, <4>1 DEF Place, Between
    <3> QED
      BY <2>4, <3>4, <3>5
  <2> QED
    BY <1>1, <2>2, <2>3, <2>4
<1> QED
  BY <1>1, <1>5, <1>6

\* A quarter step made with edges waiting makes the drift two counts wider.
LEMMA RotateLatePlace ==
    ASSUME TrackInv, Rotate, latched # {}
    PROVE  Place'
<1>1. /\ rotor \in Quarters /\ rotor' = Turned(rotor, direction) /\ rotor' \in Quarters
      /\ direction \in {Anticlockwise, Clockwise} /\ Anticlockwise # Clockwise
      /\ latched' = latched \cup Rising(rotor, rotor') /\ At \in 0 .. 3
      /\ encoder' = encoder /\ homed' = homed /\ direction' = direction
      /\ drift' = drift + 2 /\ lagging \in Nat /\ lagging' = lagging + 1 /\ lagging' > 0
  <2>1. lagging \in Nat /\ rotor \in Quarters /\ direction \in {Anticlockwise, Clockwise}
    BY LagAssumption DEF TrackInv, TypeInv, TypeOK
  <2>2. /\ rotor' = Turned(rotor, direction) /\ latched' = latched \cup Rising(rotor, rotor')
        /\ encoder' = encoder /\ homed' = homed /\ direction' = direction
        /\ drift' = drift + 2 /\ lagging' = lagging + 1
    BY DEF Rotate, LateCost
  <2>3. rotor' \in Quarters /\ At \in 0 .. 3 /\ Anticlockwise # Clockwise
    BY <2>1, <2>2, TurnedType, AnticlockwiseStep, ClockwiseStep DEF At, Anticlockwise, Clockwise
  <2>4. lagging' > 0
    BY <2>1, <2>2
  <2> QED
    BY <2>1, <2>2, <2>3, <2>4
<1> DEFINE step == IF direction = Anticlockwise /\ At = 0 THEN 1
                   ELSE IF direction = Clockwise /\ At = 1 THEN -1 ELSE 0
<1>2. step \in {-1, 0, 1}
  OBVIOUS
<1>3. \A lo, hi, lo2, hi2 \in Int :
        OffBy(lo, hi) /\ lo2 <= lo - step + 2 /\ hi - step - 2 <= hi2 => OffBy(lo2, hi2)'
  <2>1. step \in Int
    OBVIOUS
  <2> HIDE DEF step
  <2>2. ASSUME NEW lo \in Int, NEW hi \in Int, NEW lo2 \in Int, NEW hi2 \in Int,
               OffBy(lo, hi), lo2 <= lo - step + 2, hi - step - 2 <= hi2
        PROVE  OffBy(lo2, hi2)'
    BY <1>1, <2>1, <2>2, OffByTurns DEF TrackInv, step
  <2> QED
    BY <2>2
<1>4. direction = Anticlockwise =>
        /\ At = 0 => At' = 1 /\ Rising(rotor, rotor') = {"A"}
        /\ At = 1 => At' = 2 /\ Rising(rotor, rotor') = {"B"}
        /\ At = 2 => At' = 3 /\ Rising(rotor, rotor') = {}
        /\ At = 3 => At' = 0 /\ Rising(rotor, rotor') = IF rotor' = 0 THEN {"Z"} ELSE {}
  BY <1>1, AnticlockwiseStep DEF At
<1>5. direction = Clockwise =>
        /\ At = 0 => At' = 3 /\ Rising(rotor, rotor') = {"B"}
        /\ At = 3 => At' = 2 /\ Rising(rotor, rotor') = {"A"}
        /\ At = 2 => At' = 1 /\ Rising(rotor, rotor') = {}
        /\ At = 1 => At' = 0 /\ Rising(rotor, rotor') = IF rotor' = 0 THEN {"Z"} ELSE {}
  BY <1>1, ClockwiseStep DEF At
<1>6. CASE "Z" \in latched
  <2>1. 0 \in Positions /\ CountAt(rotor) \in Int /\ CountAt(rotor') \in Int
    BY <1>1, CountAtInt, ResolutionAssumption DEF Positions
  <2>2. /\ lagging = 0 => At = 0 /\ Near(0, CountAt(rotor), 0, 0)
        /\ lagging # 0 => Near(0, CountAt(rotor), -lagging, lagging - 1)
    <3>1. HomeEdge
      BY <1>6 DEF TrackInv, Place, Resting, Between, FirstEdge, SecondEdge, LateEdge, LateEdges
    <3>2. Near(0, 0, 0, 0)
      <4>1. 0 - 0 + (0 * R) \in 0 .. 0
        BY Products
      <4> QED
        BY <4>1 DEF Near
    <3> QED
      BY <3>1, <3>2, LastQuarter DEF HomeEdge, At
  <2>3. Near(0, CountAt(rotor'), -lagging', lagging' - 1)
    <3>1. ASSUME NEW lo \in Int, NEW hi \in Int, Near(0, CountAt(rotor), lo, hi),
                 lo - 1 >= -lagging' \/ (lo >= -lagging' /\ step = 0),
                 lo >= -lagging', hi - 1 <= lagging' - 1,
                 hi + 1 <= lagging' - 1 \/ (hi <= lagging' - 1 /\ step # -1)
          PROVE  Near(0, CountAt(rotor'), -lagging', lagging' - 1)
      <4>1. /\ direction = Anticlockwise /\ At = 0 => Near(0, CountAt(rotor'), lo - 1, hi - 1)
            /\ direction = Clockwise /\ At = 1 => Near(0, CountAt(rotor'), lo + 1, hi + 1)
            /\ direction = Anticlockwise /\ At # 0 => Near(0, CountAt(rotor'), lo, hi)
            /\ direction = Clockwise /\ At # 1 => Near(0, CountAt(rotor'), lo, hi)
        BY <1>1, <2>1, <3>1, NearTurns DEF At
      <4>2. \A a, b, a2, b2 \in Int : Near(0, CountAt(rotor'), a, b) /\ a2 <= a /\ b <= b2 =>
                                          Near(0, CountAt(rotor'), a2, b2)
        BY <2>1, NearCounts
      <4>3. lo - 1 \in Int /\ hi - 1 \in Int /\ lo + 1 \in Int /\ hi + 1 \in Int
            /\ -lagging' \in Int /\ lagging' - 1 \in Int
        BY <1>1
      <4>4. CASE direction = Anticlockwise /\ At = 0
        <5>1. step = 1
          BY <4>4
        <5>2. -lagging' <= lo - 1 /\ hi - 1 <= lagging' - 1
          BY <3>1, <5>1
        <5> QED
          BY <4>1, <4>2, <4>3, <4>4, <5>2
      <4>5. CASE direction = Clockwise /\ At = 1
        <5>1. step = -1
          BY <1>1, <4>5
        <5>2. -lagging' <= lo + 1 /\ hi + 1 <= lagging' - 1
          BY <1>1, <3>1, <5>1
        <5> QED
          BY <4>1, <4>2, <4>3, <4>5, <5>2
      <4>6. CASE \/ direction = Anticlockwise /\ At # 0
                 \/ direction = Clockwise /\ At # 1
        <5>1. step = 0
          BY <1>1, <4>6
        <5>2. -lagging' <= lo /\ hi <= lagging' - 1
          BY <1>1, <3>1, <5>1
        <5> QED
          BY <4>1, <4>2, <4>3, <4>6, <5>2
      <4> QED
        BY <1>1, <4>4, <4>5, <4>6
    <3>2. CASE lagging = 0
      <4>1. step # -1
        BY <2>2, <3>2
      <4> HIDE DEF step
      <4>2. 0 - 1 >= -lagging' /\ 0 >= -lagging' /\ 0 - 1 <= lagging' - 1 /\ 0 <= lagging' - 1
        BY <1>1, <3>2
      <4> QED
        BY <2>2, <3>1, <3>2, <4>1, <4>2
    <3>3. CASE lagging # 0
      <4> HIDE DEF step
      <4>1. /\ -lagging \in Int /\ lagging - 1 \in Int
            /\ -lagging - 1 >= -lagging' /\ -lagging >= -lagging'
            /\ (lagging - 1) - 1 <= lagging' - 1 /\ (lagging - 1) + 1 <= lagging' - 1
        BY <1>1
      <4> QED
        BY <2>2, <3>1, <3>3, <4>1
    <3> QED
      BY <3>2, <3>3
  <2> QED
    BY <1>1, <1>6, <2>3 DEF Place, HomeEdge
<1>7. CASE "Z" \notin latched /\ "Z" \in Rising(rotor, rotor')
  <2>1. rotor' = 0
    BY <1>7 DEF Rising, ZHigh
  <2>2. 0 - 0 + (0 * R) \in -lagging' .. lagging' - 1
    <3>1. 0 - 0 + (0 * R) = 0
      BY Products
    <3> QED
      BY <1>1, <3>1
  <2>3. Near(0, CountAt(rotor'), -lagging', lagging' - 1)
    BY <2>1, <2>2, LastQuarter DEF Near
  <2> QED
    BY <1>1, <1>7, <2>3 DEF Place, HomeEdge
<1>8. CASE "Z" \notin latched /\ "Z" \notin Rising(rotor, rotor')
  <2>1. FirstEdge \/ SecondEdge \/ LateEdge \/ LateEdges
    BY <1>8 DEF TrackInv, Place, Resting, Between, HomeEdge
  <2> HIDE DEF step
  <2>2. CASE FirstEdge
    <3>1. At' = 2 /\ latched' = {"A", "B"} /\ step = 0
      BY <1>1, <1>4, <1>5, <2>2 DEF FirstEdge, step
    <3>2. homed => IF encoder.home THEN OffBy(-1, -1) \/ OffBy(0, 0)
                   ELSE OffBy(-2, -1) \/ OffBy(0, 1)
      BY <2>2 DEF FirstEdge
    <3>3. homed => IF encoder.home THEN OffBy(1, -2)' ELSE OffBy(0, -1)'
      BY <1>3, <3>1, <3>2
    <3> QED
      BY <1>1, <3>1, <3>3 DEF Place, LateEdges
  <2>3. CASE SecondEdge
    <3>1. /\ latched' = latched /\ step = 0
          /\ direction = Anticlockwise => At' = 3
          /\ direction = Clockwise => At' = 1
      BY <1>1, <1>4, <1>5, <2>3 DEF SecondEdge, step
    <3>2. homed => OffBy(1, -2) \/ OffBy(-1, 0)
      BY <2>3 DEF SecondEdge
    <3>3. homed => OffBy(1, -2)'
      BY <1>3, <3>1, <3>2
    <3> QED
      BY <1>1, <2>3, <3>1, <3>3 DEF Place, SecondEdge, LateEdge
  <2>4. CASE LateEdge
    <3>1. homed => OffBy(1, -2)
      BY <2>4 DEF LateEdge
    <3>2. homed => OffBy(1, -2)' /\ OffBy(2, -3)'
      BY <1>2, <1>3, <3>1 DEF step
    <3>3. CASE latched = {"A"} /\ direction = Clockwise /\ At = 1
      <4>1. At' = 0 /\ latched' = {"A"}
        BY <1>1, <1>5, <1>8, <3>3
      <4> QED
        BY <1>1, <3>2, <3>3, <4>1 DEF Place, LateEdge
    <3>4. CASE latched = {"A"} /\ direction = Clockwise /\ At = 0
      <4>1. At' = 3 /\ latched' = {"A", "B"}
        BY <1>1, <1>5, <1>8, <3>4
      <4>2. homed => OffBy(2, -3)'
        BY <3>2
      <4> QED
        BY <1>1, <4>1, <4>2 DEF Place, LateEdges
    <3>5. CASE latched = {"B"} /\ direction = Anticlockwise /\ At = 3
      <4>1. At' = 0 /\ latched' = {"B"}
        BY <1>1, <1>4, <1>8, <3>5
      <4> QED
        BY <1>1, <3>2, <3>5, <4>1 DEF Place, LateEdge
    <3>6. CASE latched = {"B"} /\ direction = Anticlockwise /\ At = 0
      <4>1. At' = 1 /\ latched' = {"A", "B"}
        BY <1>1, <1>4, <1>8, <3>6
      <4>2. homed => OffBy(2, -3)'
        BY <3>2
      <4> QED
        BY <1>1, <4>1, <4>2 DEF Place, LateEdges
    <3> QED
      BY <2>4, <3>3, <3>4, <3>5, <3>6 DEF LateEdge
  <2>5. CASE LateEdges
    <3>1. latched' = {"A", "B"}
      <4>1. Rising(rotor, rotor') \subseteq {"A", "B", "Z"}
        BY DEF Rising
      <4> QED
        BY <1>1, <1>8, <2>5, <4>1 DEF LateEdges
    <3>2. homed => \/ OffBy(2, -3)
                   \/ step = 0 /\ (OffBy(1, -2) \/ OffBy(0, -1))
      BY <1>1, <2>5 DEF LateEdges, step
    <3>3. homed => OffBy(2, -3)' /\ OffBy(1, -2)' /\ OffBy(0, -1)'
      BY <1>2, <1>3, <3>2 DEF step
    <3> QED
      BY <1>1, <3>1, <3>3 DEF Place, LateEdges
  <2> QED
    BY <2>1, <2>2, <2>3, <2>4, <2>5
<1> QED
  BY <1>6, <1>7, <1>8

\* Two edges move the position by a count each at most, and not while the mark of the
\* home pulse stays.
LEMMA ServeBoth ==
    ASSUME NEW e \in EncoderStates, NEW q
    PROVE  LET f == Serve({"A", "B"}, e, q).encoder
               p == e.position
               Moves(n) == {n, Increment(n), Decrement(n)}
           IN /\ f.home => e.home /\ f.position = p
              /\ \E n \in Moves(p) : n \in Positions /\ f.position \in Moves(n)
              /\ AHigh(q) = TRUE /\ BHigh(q) = TRUE =>
                     \E n \in {p, Decrement(p)} : n \in Positions /\ f.position \in {n, Increment(n)}
<1> DEFINE a == AnticlockwisePin(e, BHigh(q))
           na == StepNotified(a)
           b == ClockwisePin(na, AHigh(q))
           f == Serve({"A", "B"}, e, q).encoder
<1>1. f = StepNotified(b)
  BY DEF Serve
<1>2. AHigh(q) \in BOOLEAN /\ BHigh(q) \in BOOLEAN
  BY DEF AHigh, BHigh
<1>3. /\ a \in EncoderStates
      /\ Counts(e, a, BHigh(q), Increment(e.position), Decrement(e.position), e.cwFailed)
  BY <1>2, AnticlockwiseFields, PinTypes
<1>4. na \in EncoderStates /\ na.position = a.position /\ na.home = a.home
  <2> HIDE DEF a
  <2> QED
    BY <1>3, NotifiedFields DEF SameCount
<1>5. /\ b \in EncoderStates
      /\ Counts(na, b, AHigh(q), Decrement(na.position), Increment(na.position), na.acwFailed)
  <2> HIDE DEF na
  <2> QED
    BY <1>2, <1>4, ClockwiseFields, PinTypes
<1>6. f.position = b.position /\ f.home = b.home
  <2> HIDE DEF b
  <2> QED
    BY <1>1, <1>5, NotifiedFields DEF SameCount
<1>7. na.position \in Positions
  BY <1>4 DEF EncoderStates
<1> HIDE DEF a, na, b, f
<1>8. /\ na.position \in {e.position, Increment(e.position), Decrement(e.position)}
      /\ na.home => e.home /\ na.position = e.position
      /\ BHigh(q) = TRUE => na.position \in {e.position, Decrement(e.position)}
  <2>1. /\ a.position \in {e.position, Increment(e.position), Decrement(e.position)}
        /\ a.home => e.home /\ a.position = e.position
        /\ BHigh(q) = TRUE => a.position \in {e.position, Decrement(e.position)}
    BY <1>2, <1>3 DEF Counts
  <2> QED
    BY <1>4, <2>1
<1>9. /\ f.position \in {na.position, Increment(na.position), Decrement(na.position)}
      /\ f.home => na.home /\ f.position = na.position
      /\ AHigh(q) = TRUE => f.position \in {na.position, Increment(na.position)}
  <2>1. /\ b.position \in {na.position, Increment(na.position), Decrement(na.position)}
        /\ b.home => na.home /\ b.position = na.position
        /\ AHigh(q) = TRUE => b.position \in {na.position, Increment(na.position)}
    BY <1>2, <1>5 DEF Counts
  <2> QED
    BY <1>6, <2>1
<1>10. f.home => e.home /\ f.position = e.position
  BY <1>8, <1>9
<1> QED
  BY <1>7, <1>8, <1>9, <1>10 DEF f

LEMMA ServeHome ==
    ASSUME NEW pins, "Z" \in pins, NEW e \in EncoderStates, NEW q
    PROVE  Serve(pins, e, q).encoder.position = 0
<1> DEFINE
    a == IF "A" \in pins THEN StepNotified(AnticlockwisePin(e, BHigh(q))) ELSE e
    z == HomePin(a)
    b == ClockwisePin(z, AHigh(q))
<1>1. a \in EncoderStates
  BY PinTypes
<1>2. z \in EncoderStates /\ z.position = 0 /\ z.home = TRUE
  <2> HIDE DEF a
  <2> QED
    BY <1>1, HomeFields
<1>3. b \in EncoderStates /\ b.position = 0
  <2> HIDE DEF z
  <2>1. AHigh(q) \in BOOLEAN
    BY DEF AHigh
  <2>2. /\ b \in EncoderStates
        /\ Counts(z, b, AHigh(q), Decrement(z.position), Increment(z.position), z.acwFailed)
    BY <1>2, <2>1, ClockwiseFields, PinTypes
  <2> QED
    BY <1>2, <2>1, <2>2 DEF Counts
<1>4. StepNotified(b).position = 0
  <2> HIDE DEF b
  <2> QED
    BY <1>3, NotifiedFields DEF SameCount
<1>5. Serve(pins, e, q).encoder = IF "B" \in pins THEN StepNotified(b) ELSE z
  BY DEF Serve
<1> HIDE DEF z, b
<1> QED
  BY <1>2, <1>4, <1>5

\* The interrupt of a home pulse puts the position to 0, which the rotor has left by
\* a count at most for each quarter step the pulse waited.
LEMMA HomePlace ==
    ASSUME TrackInv, Interrupt, "Z" \in latched
    PROVE  Place'
<1>1. TypeInv' /\ latched' = {} /\ rotor' = rotor /\ drift' = LateCost * lagging /\ At' = At
  BY TypeInvStep DEF TrackInv, Interrupt, Next, At
<1>2. encoder'.position = 0
  BY ServeHome DEF TrackInv, TypeInv, TypeOK, Interrupt
<1>3. HomeEdge /\ lagging \in Nat
  BY LagAssumption DEF TrackInv, TypeInv, TypeOK, Place, Resting, Between, FirstEdge, SecondEdge,
                       LateEdge, LateEdges, HomeEdge
<1>4. CASE lagging = 0
  <2>1. At' = 0 /\ CountAt(rotor) = 0
    BY <1>1, <1>3, <1>4, LastQuarter DEF HomeEdge, At
  <2>2. drift' = 0
    <3>1. drift' = LateCost * 0
      BY <1>1, <1>4
    <3> QED
      BY <3>1 DEF LateCost
  <2>3. Near(0, 0, 0 - 0, 0 + 0)
    <3>1. 0 - 0 + (0 * R) \in (0 - 0) .. (0 + 0)
      BY Products
    <3> QED
      BY <3>1 DEF Near
  <2>4. OffBy(0, 0)'
    BY <1>1, <1>2, <2>1, <2>2, <2>3 DEF OffBy
  <2> QED
    BY <1>1, <2>1, <2>4, Placed
<1>5. CASE lagging # 0
  <2>1. Near(0, CountAt(rotor), -lagging, lagging - 1)
    BY <1>3, <1>5 DEF HomeEdge
  <2>2. 0 \in Positions /\ CountAt(rotor) \in Int
    BY CountAtInt, ResolutionAssumption DEF Positions, TrackInv, TypeInv, TypeOK
  <2>3. /\ drift' \in Int /\ drift' = 2 * lagging /\ -lagging \in Int /\ lagging - 1 \in Int
        /\ 1 - drift' \in Int /\ -2 + drift' \in Int
        /\ 1 - drift' <= -lagging /\ lagging - 1 <= -2 + drift'
    BY <1>1, <1>3, <1>5 DEF LateCost
  <2>4. Near(0, CountAt(rotor), 1 - drift', -2 + drift')
    BY <2>1, <2>2, <2>3, NearCounts
  <2>5. OffBy(1, -2)'
    BY <1>1, <1>2, <2>4 DEF OffBy
  <2> QED
    BY <1>1, <2>5, Placed
<1> QED
  BY <1>4, <1>5

\* The windows an interrupt moves the position through.
LEMMA Windows ==
    ASSUME NEW n \in Positions, NEW c \in Int, NEW d \in Int, NEW lo \in Int, NEW hi \in Int,
           Near(n, c, lo - d, hi + d), NEW lo2 \in Int, NEW hi2 \in Int
    PROVE  /\ lo2 <= lo /\ hi <= hi2 => Near(n, c, lo2 - d, hi2 + d)
           /\ lo2 <= lo + 1 /\ hi + 1 <= hi2 => Near(Increment(n), c, lo2 - d, hi2 + d)
           /\ lo2 <= lo - 1 /\ hi - 1 <= hi2 => Near(Decrement(n), c, lo2 - d, hi2 + d)
<1> DEFINE l == lo - d
           h == hi + d
           l2 == lo2 - d
           h2 == hi2 + d
<1>1. l \in Int /\ h \in Int /\ l2 \in Int /\ h2 \in Int /\ Near(n, c, l, h)
  OBVIOUS
<1>2. /\ lo2 <= lo /\ hi <= hi2 => l2 <= l /\ h <= h2
      /\ lo2 <= lo + 1 /\ hi + 1 <= hi2 => l2 <= l + 1 /\ h + 1 <= h2
      /\ lo2 <= lo - 1 /\ hi - 1 <= hi2 => l2 <= l - 1 /\ h - 1 <= h2
  OBVIOUS
<1> HIDE DEF l, h, l2, h2
<1>3. /\ lo2 <= lo /\ hi <= hi2 => Near(n, c, l2, h2)
      /\ lo2 <= lo + 1 /\ hi + 1 <= hi2 => Near(Increment(n), c, l2, h2)
      /\ lo2 <= lo - 1 /\ hi - 1 <= hi2 => Near(Decrement(n), c, l2, h2)
  BY <1>1, <1>2, NearCounts
<1> QED
  BY <1>3 DEF l2, h2

\* Other interrupts leave the drift alone: one edge served in time, the trailing
\* pin's served late, or both.
LEMMA EdgePlace ==
    ASSUME TrackInv, Interrupt, "Z" \notin latched
    PROVE  Place'
<1>1. /\ encoder \in EncoderStates /\ encoder' = Serve(latched, encoder, rotor).encoder
      /\ encoder.position \in Positions /\ drift \in Int /\ CountAt(rotor) \in Int
      /\ direction \in {Anticlockwise, Clockwise} /\ At \in 0 .. 3
  <2>1. rotor \in Quarters
    BY DEF TrackInv, TypeInv, TypeOK
  <2> QED
    BY <2>1, CountAtInt, AnticlockwiseStep DEF TrackInv, TypeInv, TypeOK, EncoderStates, Interrupt, At
<1>2. /\ TypeInv' /\ latched # {} /\ latched' = {} /\ rotor' = rotor
      /\ direction' = direction /\ At' = At
  BY TypeInvStep DEF TrackInv, Interrupt, Next, At
<1>3. drift' = drift /\ homed' = homed
  BY DEF TrackInv, TypeInv, TypeOK, Interrupt
<1>4. /\ At \in {0, 1} => BHigh(rotor) = FALSE
      /\ At = 2 => AHigh(rotor) = TRUE /\ BHigh(rotor) = TRUE
      /\ At \in {0, 3} => AHigh(rotor) = FALSE
      /\ AHigh(rotor) \in BOOLEAN /\ BHigh(rotor) \in BOOLEAN
  BY DEF At, AHigh, BHigh
<1>5. Anticlockwise # Clockwise
  BY DEF Anticlockwise, Clockwise
<1> DEFINE p == encoder.position
           Off(n, lo, hi) == Near(n, CountAt(rotor), lo - drift, hi + drift)
<1>6. \A n \in Positions : \A lo, hi \in Int : Off(n, lo, hi) =>
        \A lo2, hi2 \in Int :
          /\ lo2 <= lo /\ hi <= hi2 => Off(n, lo2, hi2)
          /\ lo2 <= lo + 1 /\ hi + 1 <= hi2 => Off(Increment(n), lo2, hi2)
          /\ lo2 <= lo - 1 /\ hi - 1 <= hi2 => Off(Decrement(n), lo2, hi2)
  BY <1>1, Windows
<1>7. \A lo, hi : OffBy(lo, hi) <=> Off(p, lo, hi)
  BY DEF OffBy
<1>8. \A lo, hi : OffBy(lo, hi)' <=> Off(encoder'.position, lo, hi)
  BY <1>2, <1>3 DEF OffBy
<1>9. p \in Positions
  BY <1>1
<1> HIDE DEF Off, p
<1>10. ASSUME latched = {"A"}
       PROVE  LET f == encoder'
              IN /\ ~encoder.home => ~f.home
                 /\ BHigh(rotor) = FALSE => /\ f.position = IF encoder.home THEN p ELSE Increment(p)
                                            /\ ~f.home /\ ~f.acwFailed
                 /\ BHigh(rotor) = TRUE =>
                      f.position = IF encoder.cwFailed /\ ~encoder.home THEN Decrement(p) ELSE p
  <2> DEFINE f == AnticlockwisePin(encoder, BHigh(rotor))
  <2>1. SameCount(f, encoder')
    BY <1>1, <1>10, ServeOne
  <2>2. /\ Counts(encoder, f, BHigh(rotor), Increment(p), Decrement(p), encoder.cwFailed)
        /\ BHigh(rotor) = FALSE => ~f.acwFailed
    BY <1>1, <1>4, AnticlockwiseFields DEF p
  <2> HIDE DEF f
  <2> QED
    BY <2>1, <2>2 DEF SameCount, Counts, p
<1>11. ASSUME latched = {"B"}
       PROVE  LET f == encoder'
              IN /\ ~encoder.home => ~f.home
                 /\ AHigh(rotor) = FALSE => /\ f.position = IF encoder.home THEN p ELSE Decrement(p)
                                            /\ ~f.home /\ ~f.cwFailed
                 /\ AHigh(rotor) = TRUE =>
                      f.position = IF encoder.acwFailed /\ ~encoder.home THEN Increment(p) ELSE p
  <2> DEFINE f == ClockwisePin(encoder, AHigh(rotor))
  <2>1. SameCount(f, encoder')
    BY <1>1, <1>11, ServeOne
  <2>2. /\ Counts(encoder, f, AHigh(rotor), Decrement(p), Increment(p), encoder.acwFailed)
        /\ AHigh(rotor) = FALSE => ~f.cwFailed
    BY <1>1, <1>4, ClockwiseFields DEF p
  <2> HIDE DEF f
  <2> QED
    BY <2>1, <2>2 DEF SameCount, Counts, p
<1>12. CASE FirstEdge
  <2>1. CASE latched = {"A"} /\ direction = Anticlockwise /\ At = 1
    <3>1. homed => IF encoder.home THEN Off(p, -1, -1) ELSE Off(p, -2, -1)
      BY <1>5, <1>7, <1>12, <2>1 DEF FirstEdge
    <3>2. /\ encoder'.position = IF encoder.home THEN p ELSE Increment(p)
          /\ ~encoder'.home /\ ~encoder'.acwFailed
      BY <1>4, <1>10, <2>1
    <3>3. homed => Off(encoder'.position, -1, 0)
      BY <1>6, <1>9, <3>1, <3>2
    <3>4. ~TurnedEarly'
      BY <1>2, <1>5, <2>1, <3>2 DEF TurnedEarly
    <3> QED
      BY <1>2, <1>3, <1>8, <2>1, <3>2, <3>3, <3>4, Placed
  <2>2. CASE latched = {"B"} /\ direction = Clockwise /\ At = 3
    <3>1. homed => IF encoder.home THEN Off(p, 0, 0) ELSE Off(p, 0, 1)
      BY <1>5, <1>7, <1>12, <2>2 DEF FirstEdge
    <3>2. /\ encoder'.position = IF encoder.home THEN p ELSE Decrement(p)
          /\ ~encoder'.home /\ ~encoder'.cwFailed
      BY <1>4, <1>11, <2>2
    <3>3. homed => Off(encoder'.position, -1, 0)
      BY <1>6, <1>9, <3>1, <3>2
    <3>4. ~TurnedEarly'
      BY <1>2, <1>5, <2>2, <3>2 DEF TurnedEarly
    <3> QED
      BY <1>2, <1>3, <1>8, <2>2, <3>2, <3>3, <3>4, Placed
  <2> QED
    BY <1>12, <2>1, <2>2 DEF FirstEdge
<1>13. CASE SecondEdge
  <2>0. At = 2 /\ ~TurnedEarly'
    BY <1>2, <1>13 DEF SecondEdge, TurnedEarly
  <2>1. CASE encoder.home
    <3>1. encoder'.position = p /\ (homed => Off(p, 1, -2))
      BY <1>4, <1>7, <1>10, <1>11, <1>13, <2>0, <2>1 DEF SecondEdge
    <3> QED
      BY <1>2, <1>3, <1>8, <3>1, Placed
  <2>2. CASE ~encoder.home /\ latched = {"B"}
    <3>1. homed => Off(p, -1, 0) /\ (encoder.acwFailed => Off(p, 0, -1))
      BY <1>7, <1>13, <2>2 DEF SecondEdge
    <3>2. ~encoder'.home /\ encoder'.position = IF encoder.acwFailed THEN Increment(p) ELSE p
      BY <1>4, <1>11, <2>0, <2>2
    <3>3. homed => Off(encoder'.position, -1, 0)
      BY <1>6, <1>9, <3>1, <3>2
    <3> QED
      BY <1>2, <1>3, <1>8, <2>0, <3>2, <3>3, Placed
  <2>3. CASE ~encoder.home /\ latched = {"A"}
    <3>1. homed => Off(p, -1, 0) /\ (encoder.cwFailed => Off(p, 0, -1))
      BY <1>7, <1>13, <2>3 DEF SecondEdge
    <3>2. ~encoder'.home /\ encoder'.position = IF encoder.cwFailed THEN Decrement(p) ELSE p
      BY <1>4, <1>10, <2>0, <2>3
    <3>3. homed => Off(encoder'.position, -1, 0)
      BY <1>6, <1>9, <3>1, <3>2
    <3> QED
      BY <1>2, <1>3, <1>8, <2>0, <3>2, <3>3, Placed
  <2> QED
    BY <1>13, <2>1, <2>2, <2>3 DEF SecondEdge
<1>14. CASE LateEdge
  <2>1. homed => Off(p, 1, -2)
    BY <1>7, <1>14 DEF LateEdge
  <2>2. ~encoder'.home /\ encoder'.position \in {p, Increment(p), Decrement(p)}
    BY <1>4, <1>10, <1>11, <1>14 DEF LateEdge
  <2>3. homed => Off(encoder'.position, 0, 0)
    <3>1. homed => Off(p, 0, 0) /\ Off(Increment(p), 0, 0) /\ Off(Decrement(p), 0, 0)
      BY <1>6, <1>9, <2>1
    <3> QED
      BY <2>2, <3>1
  <2>4. ~TurnedEarly'
    <3>1. CASE latched = {"A"} /\ direction = Clockwise /\ At \in {0, 1}
      BY <1>2, <1>5, <3>1 DEF TurnedEarly
    <3>2. CASE latched = {"B"} /\ direction = Anticlockwise /\ At \in {0, 3}
      BY <1>2, <1>5, <3>2 DEF TurnedEarly
    <3> QED
      BY <1>14, <3>1, <3>2 DEF LateEdge
  <2> QED
    BY <1>2, <1>3, <1>8, <2>2, <2>3, <2>4, Placed
<1>15. CASE LateEdges
  <2>1. latched = {"A", "B"}
    BY <1>15 DEF LateEdges
  <2> DEFINE Moves(n) == {n, Increment(n), Decrement(n)}
  <2>2. /\ encoder'.home => encoder.home /\ encoder'.position = p
        /\ \E n \in Moves(p) : n \in Positions /\ encoder'.position \in Moves(n)
        /\ At = 2 => \E n \in {p, Decrement(p)} :
                        n \in Positions /\ encoder'.position \in {n, Increment(n)}
    <3>1. encoder' = Serve({"A", "B"}, encoder, rotor).encoder
      BY <1>1, <2>1
    <3>2. LET f == Serve({"A", "B"}, encoder, rotor).encoder
          IN /\ f.home => encoder.home /\ f.position = p
             /\ \E n \in Moves(p) : n \in Positions /\ f.position \in Moves(n)
             /\ AHigh(rotor) = TRUE /\ BHigh(rotor) = TRUE =>
                    \E n \in {p, Decrement(p)} :
                        n \in Positions /\ f.position \in {n, Increment(n)}
      BY <1>1, ServeBoth DEF p
    <3> QED
      BY <1>4, <3>1, <3>2
  <2>3. CASE encoder'.home
    <3>1. homed => Off(p, 2, -3) \/ Off(p, 1, -2)
      BY <1>7, <1>15, <2>2, <2>3 DEF LateEdges
    <3>2. homed => Off(p, 1, -2)
      BY <1>6, <1>9, <3>1
    <3> QED
      BY <1>2, <1>3, <1>8, <2>2, <2>3, <3>2, Placed
  <2>4. CASE ~encoder'.home /\ At # 2
    <3>1. homed => Off(p, 2, -3)
      BY <1>7, <1>15, <2>4 DEF LateEdges
    <3>2. \A n \in Moves(p) : homed => Off(n, 1, -2)
      BY <1>6, <1>9, <3>1
    <3>3. PICK n \in Moves(p) : n \in Positions /\ encoder'.position \in Moves(n)
      BY <2>2
    <3>4. homed => Off(n, 0, -1) /\ Off(Increment(n), 0, -1) /\ Off(Decrement(n), 0, -1)
      BY <1>6, <3>2, <3>3
    <3>5. homed => Off(encoder'.position, 0, -1)
      BY <3>3, <3>4
    <3> QED
      BY <1>2, <1>3, <1>8, <2>4, <3>5, Placed
  <2>5. CASE ~encoder'.home /\ At = 2
    <3>1. homed => Off(p, 0, -1)
      <4>1. homed => Off(p, 0, -1) \/ Off(p, 1, -2)
        BY <1>7, <1>15, <2>5 DEF LateEdges
      <4> QED
        BY <1>6, <1>9, <4>1
    <3>2. PICK n \in {p, Decrement(p)} : n \in Positions /\ encoder'.position \in {n, Increment(n)}
      BY <2>2, <2>5
    <3>3. homed => Off(n, -1, -1)
      <4>1. homed => Off(p, -1, -1) /\ Off(Decrement(p), -1, -1)
        BY <1>6, <1>9, <3>1
      <4> QED
        BY <3>2, <4>1
    <3>4. homed => Off(n, -1, 0) /\ Off(Increment(n), -1, 0)
      BY <1>6, <3>2, <3>3
    <3>5. homed => Off(encoder'.position, -1, 0)
      BY <3>2, <3>4
    <3>6. ~TurnedEarly'
      BY <1>2, <2>5 DEF TurnedEarly
    <3> QED
      BY <1>2, <1>3, <1>8, <2>5, <3>5, <3>6, Placed
  <2> QED
    BY <2>3, <2>4, <2>5
<1> QED
  BY <1>2, <1>12, <1>13, <1>14, <1>15 DEF TrackInv, Place, Resting, Between, HomeEdge

\* Turning round costs a count, except after one that was made in the old direction.
LEMMA ReversePlace ==
    ASSUME TrackInv, Reverse
    PROVE  Place'
<1>1. /\ encoder.position \in Positions /\ drift \in Nat /\ CountAt(rotor) \in Int
      /\ direction \in {Anticlockwise, Clockwise} /\ drift' \in {drift, drift + 1}
  BY CountAtInt, LagAssumption DEF TrackInv, TypeInv, TypeOK, EncoderStates, Reverse
<1>2. /\ latched = {} /\ latched' = {} /\ rotor' = rotor /\ encoder' = encoder
      /\ homed' = homed /\ At' = At
  BY DEF Reverse, At
<1>3. /\ direction = Anticlockwise => direction' = Clockwise
      /\ direction = Clockwise => direction' = Anticlockwise
      /\ Anticlockwise # Clockwise
  BY DEF Reverse, Anticlockwise, Clockwise
<1>4. /\ At = 0 => drift' = drift + 1
      /\ direction = Clockwise /\ At = 1 => drift' = drift + 1
      /\ direction = Anticlockwise /\ At = 3 => drift' = drift + 1
  BY <1>3 DEF Reverse, AfterCount, At
<1> DEFINE Off(d, lo, hi) == Near(encoder.position, CountAt(rotor), lo - d, hi + d)
<1>5. /\ Off(drift, -1, 0) => Off(drift', -1, 0)
      /\ Off(drift, 0, 0) => Off(drift', 0, 0)
      /\ Off(drift, 1, -2) => Off(drift', 1, -2)
      /\ drift' = drift + 1 /\ Off(drift, -1, 0) => Off(drift', 0, 1)
      /\ drift' = drift + 1 /\ Off(drift, 0, 1) => Off(drift', -1, 0)
      /\ drift' = drift + 1 /\ Off(drift, -1, 0) => Off(drift', 0, -1)
  <2>1. ASSUME NEW c \in Int, NEW d \in Nat, NEW e \in {d, d + 1}, NEW n \in Positions
        PROVE  /\ Near(n, c, -1 - d, 0 + d) => Near(n, c, -1 - e, 0 + e)
               /\ Near(n, c, 0 - d, 0 + d) => Near(n, c, 0 - e, 0 + e)
               /\ Near(n, c, 1 - d, -2 + d) => Near(n, c, 1 - e, -2 + e)
               /\ e = d + 1 /\ Near(n, c, -1 - d, 0 + d) => Near(n, c, 0 - e, 1 + e)
               /\ e = d + 1 /\ Near(n, c, 0 - d, 1 + d) => Near(n, c, -1 - e, 0 + e)
               /\ e = d + 1 /\ Near(n, c, -1 - d, 0 + d) => Near(n, c, 0 - e, -1 + e)
    <3>1. \A lo, hi, lo2, hi2 \in Int :
            Near(n, c, lo, hi) /\ lo2 <= lo /\ hi <= hi2 => Near(n, c, lo2, hi2)
      BY NearCounts
    <3>2. Near(n, c, -1 - d, 0 + d) => Near(n, c, -1 - e, 0 + e)
      BY <3>1
    <3>3. Near(n, c, 0 - d, 0 + d) => Near(n, c, 0 - e, 0 + e)
      BY <3>1
    <3>4. e = d + 1 /\ Near(n, c, -1 - d, 0 + d) => Near(n, c, 0 - e, 1 + e)
      BY <3>1
    <3>5. e = d + 1 /\ Near(n, c, 0 - d, 1 + d) => Near(n, c, -1 - e, 0 + e)
      BY <3>1
    <3>6. e = d + 1 /\ Near(n, c, -1 - d, 0 + d) => Near(n, c, 0 - e, -1 + e)
      BY <3>1
    <3>7. Near(n, c, 1 - d, -2 + d) => Near(n, c, 1 - e, -2 + e)
      BY <3>1
    <3> QED
      BY <3>2, <3>3, <3>4, <3>5, <3>6, <3>7
  <2> QED
    BY <1>1, <2>1
<1>6. \A lo, hi : OffBy(lo, hi) <=> Off(drift, lo, hi)
  BY DEF OffBy
<1>7. \A lo, hi : OffBy(lo, hi)' <=> Off(drift', lo, hi)
  BY <1>2 DEF OffBy
<1> HIDE DEF Off
<1>8. CASE Resting
  <2>1. homed => IF encoder.home THEN OffBy(0, 0)'
                 ELSE IF direction = Anticlockwise THEN OffBy(0, 1)' ELSE OffBy(-1, 0)'
    BY <1>4, <1>5, <1>6, <1>7, <1>8 DEF Resting
  <2> QED
    BY <1>1, <1>2, <1>3, <1>8, <2>1 DEF Place, Resting
<1>9. CASE Between
  <2>1. homed => IF encoder.home THEN OffBy(1, -2)' ELSE OffBy(-1, 0)'
    BY <1>5, <1>6, <1>7, <1>9 DEF Between
  <2>2. TurnedEarly' => drift' = drift + 1
    BY <1>1, <1>2, <1>3, <1>4 DEF TurnedEarly
  <2>3. homed /\ ~encoder.home /\ TurnedEarly' => OffBy(0, -1)'
    BY <1>5, <1>6, <1>7, <1>9, <2>2 DEF Between
  <2> QED
    BY <1>2, <1>9, <2>1, <2>3 DEF Place, Between
<1> QED
  BY <1>2, <1>8, <1>9 DEF TrackInv, Place, FirstEdge, SecondEdge, LateEdge, LateEdges, HomeEdge

LEMMA TrackInvInit == Init => TrackInv
<1> SUFFICES ASSUME Init PROVE TrackInv
  OBVIOUS
<1>1. TypeInv /\ latched = {} /\ homed = FALSE
  BY TypeInvInit DEF Init
<1> QED
  BY <1>1 DEF TrackInv, Place, Resting, Between

LEMMA TrackInvStep == TrackInv /\ [Next]_vars => TrackInv'
<1> SUFFICES ASSUME TrackInv, [Next]_vars PROVE TrackInv'
  OBVIOUS
<1>0. TypeInv'
  BY TypeInvStep DEF TrackInv
<1>1. CASE RegisterHandlers \/ SetHandling
  <2>1. /\ encoder'.position = encoder.position /\ encoder'.home = encoder.home
        /\ encoder'.acwFailed = encoder.acwFailed /\ encoder'.cwFailed = encoder.cwFailed
    BY <1>1 DEF RegisterHandlers, SetHandling, TrackInv, TypeInv, TypeOK, EncoderStates
  <2>2. UNCHANGED <<rotor, direction, latched, lagging, homed, drift>>
    BY <1>1 DEF RegisterHandlers, SetHandling
  <2> QED
    BY <1>0, <2>1, <2>2 DEF TrackInv, Place, Resting, Between, FirstEdge, SecondEdge, LateEdge,
                            LateEdges, HomeEdge, TurnedEarly, OffBy, At
<1>2. ASSUME NEW p \in 0 .. R, SetEncoderPosition(p) PROVE TrackInv'
  <2>1. homed' = FALSE /\ UNCHANGED <<rotor, direction, latched, lagging>>
    BY <1>2 DEF SetEncoderPosition
  <2> QED
    BY <1>0, <2>1 DEF TrackInv, Place, Resting, Between, FirstEdge, SecondEdge, LateEdge,
                      LateEdges, HomeEdge, At
<1>3. CASE Interrupt
  BY <1>0, <1>3, HomePlace, EdgePlace DEF TrackInv
<1>4. CASE Rotate
  BY <1>0, <1>4, RotatePlace, RotateLatePlace DEF TrackInv
<1>5. CASE Reverse
  BY <1>0, <1>5, ReversePlace DEF TrackInv
<1>6. CASE UNCHANGED vars
  BY <1>0, <1>6 DEF vars, TrackInv, Place, Resting, Between, FirstEdge, SecondEdge, LateEdge,
                    LateEdges, HomeEdge, TurnedEarly, OffBy, At
<1> QED
  BY <1>1, <1>2, <1>3, <1>4, <1>5, <1>6 DEF Next

LEMMA PlaceTracks == TrackInv => Tracks
<1> SUFFICES ASSUME TrackInv, homed, latched = {}
             PROVE  Error <= 1 + drift \/ R - Error <= 1 + drift
  BY DEF Tracks
<1>1. /\ encoder.position \in Positions /\ drift \in Nat /\ CountAt(rotor) \in Int
  BY CountAtInt, LagAssumption DEF TrackInv, TypeInv, TypeOK, EncoderStates
<1>2. OffBy(0, 0) \/ OffBy(-1, 0) \/ OffBy(0, 1) \/ OffBy(1, -2)
  BY DEF TrackInv, Place, Resting, Between, FirstEdge, SecondEdge, LateEdge, LateEdges, HomeEdge
<1>3. Near(encoder.position, CountAt(rotor), -1 - drift, 1 + drift)
  <2>1. ASSUME NEW lo \in Int, NEW hi \in Int, -1 <= lo, hi <= 1, OffBy(lo, hi)
        PROVE  Near(encoder.position, CountAt(rotor), -1 - drift, 1 + drift)
    <3>1. drift \in Int /\ Near(encoder.position, CountAt(rotor), lo - drift, hi + drift)
      BY <1>1, <2>1 DEF OffBy
    <3> QED
      BY <1>1, <2>1, <3>1, Windows
  <2> QED
    BY <1>2, <2>1
<1>4. 1 + drift \in Nat /\ -1 - drift = -(1 + drift)
  BY <1>1
<1>5. Near(encoder.position, CountAt(rotor), -(1 + drift), 1 + drift)
  BY <1>3, <1>4
<1> QED
  BY <1>1, <1>4, <1>5, NearOnCircle DEF Error, TrueCount, CountAt

\* From the first home pulse on the position is within one count of the rotor, and the
\* miscounts risked since the last pulse: for every resolution, however late the edges
\* are served and wherever the rotor turns round.
THEOREM TracksRotor == Spec => []Tracks
<1> QED
  BY TrackInvInit, TrackInvStep, PlaceTracks, PTL DEF Spec
=============================================================================
