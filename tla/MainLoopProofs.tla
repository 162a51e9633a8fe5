--------------------------- MODULE MainLoopProofs ---------------------------
(***************************************************************************)
(* Theorems about MainLoop: its types, that its steps are those of         *)
(* Scheduler, and that the watchdog is fed in time, for every size of the  *)
(* ring and all times that satisfy KeepsUpAssumption.                      *)
(***************************************************************************)
EXTENDS MainLoop, SchedulerProofs, Integers

-----------------------------------------------------------------------------
(* The ring is that of Scheduler. *)

\* Whatever else a step of the loop does, it is a step of the scheduler or leaves
\* the ring alone.
LEMMA LoopIsScheduler == [LoopNext]_loopVars => [Next]_vars
<1> SUFFICES ASSUME [LoopNext]_loopVars PROVE [Next]_vars
  OBVIOUS
<1>1. CASE Run
  BY <1>1 DEF Run, Next, MainThread
<1>2. CASE Post
  BY <1>2 DEF Post, Next, MainThread
<1>3. CASE HandlerEnds
  BY <1>3 DEF HandlerEnds, Next, MainThread
<1>4. CASE SendHeader \/ SendData \/ GoRound \/ Tick
  BY <1>4 DEF SendHeader, SendData, GoRound, Tick
<1>5. CASE Interrupt
  BY <1>5 DEF Interrupt, Next
<1>6. CASE UNCHANGED loopVars
  BY <1>6 DEF loopVars, vars
<1> QED
  BY <1>1, <1>2, <1>3, <1>4, <1>5, <1>6 DEF LoopNext

RingInv == TypeInv /\ FreshInv

LEMMA RingInvInit == LoopInit => RingInv
  BY TypeInvInit, FreshInit DEF LoopInit, RingInv

LEMMA RingInvStep == RingInv /\ [LoopNext]_loopVars => RingInv'
  BY LoopIsScheduler, TypeInvStep, FreshStep DEF RingInv

\* With a command, its posts and its response in it, too, the main loop never calls a
\* slot that was not filled since its last call.
THEOREM LoopNeverStale == LoopSpec => []NoStaleExecution
<1>1. RingInv => NoStaleExecution
  BY DEF RingInv, TypeInv, TypeOK, FreshInv, NoStaleExecution, HasWork, InRing, Live,
     InHandler, Slots
<1> QED
  BY <1>1, RingInvInit, RingInvStep, PTL DEF LoopSpec

-----------------------------------------------------------------------------
(* Types, and what a command goes through. *)

\* A handler that sends is no longer in need of posts; a post is under way in the
\* handler of a command, or before the loop begins.
Course ==
    /\ posts > 0 => command = "received"
    /\ sending # "no" => command = "done" /\ pc = "handler"
    /\ pc = "put" /\ caller = "handler" => command = "received"
    /\ sending = "no" => busy <= Brief
    /\ busy > 0 => InHandler /\ pc # "advance"
    /\ pc = "put" /\ ~is_empty => head = tail

\* No time passes before the loop begins.
Boot ==
    ~Started =>
        /\ unfed = 0 /\ round = FALSE
        /\ command # "done"
        /\ command = "received" => quiet = 0

CourseInv == LoopTypeOK /\ RingInv /\ Course /\ Boot

Timing ==
    /\ unfed \in 0 .. WATCHDOG_TIMEOUT /\ round \in BOOLEAN
    /\ busy \in 0 .. Block /\ quiet \in 0 .. Gap
    /\ command \in {"none", "received", "done"} /\ posts \in 0 .. 2
    /\ sending \in {"no", "header", "data"}

LEMMA TypeParts == LoopTypeOK <=> TypeOK /\ Timing
  BY DEF LoopTypeOK, Timing

LEMMA RingTypes == RingInv => TypeOK
  BY DEF RingInv, TypeInv

LEMMA CourseInit == LoopInit => CourseInv
<1> SUFFICES ASSUME LoopInit PROVE CourseInv
  OBVIOUS
<1>1. RingInv /\ TypeOK
  BY RingInvInit, RingTypes
<1>2. Timing
  <2>1. unfed \in 0 .. WATCHDOG_TIMEOUT /\ busy \in 0 .. Block /\ quiet \in 0 .. Gap
    BY TicksAssumption DEF LoopInit
  <2>2. round \in BOOLEAN
    BY DEF LoopInit
  <2>3. posts \in 0 .. 2
    BY DEF LoopInit
  <2>4. command \in {"none", "received", "done"} /\ sending \in {"no", "header", "data"}
    BY DEF LoopInit
  <2> QED
    BY <2>1, <2>2, <2>3, <2>4 DEF Timing
<1>3. Course /\ Boot
  BY TicksAssumption DEF LoopInit, Init, Course, Boot
<1> QED
  BY <1>1, <1>2, <1>3, TypeParts DEF CourseInv

LEMMA CourseStep == CourseInv /\ [LoopNext]_loopVars => CourseInv'
<1> SUFFICES ASSUME CourseInv, [LoopNext]_loopVars PROVE CourseInv'
  OBVIOUS
<1>1. RingInv /\ RingInv' /\ TypeOK /\ TypeOK' /\ Timing
  <2>1. RingInv /\ RingInv' /\ TypeOK /\ Timing
    BY RingInvStep, TypeParts DEF CourseInv
  <2>2. TypeOK'
    BY <2>1 DEF RingInv, TypeInv
  <2> QED
    BY <2>1, <2>2
<1>2. SUFFICES Timing' /\ Course' /\ Boot'
  <2>1. LoopTypeOK' <=> TypeOK' /\ Timing'
    BY DEF LoopTypeOK, Timing, TypeOK
  <2> QED
    BY <1>1, <2>1 DEF CourseInv
<1> USE <1>1, TicksAssumption DEF CourseInv, Course, Boot, Timing, Started, InHandler
<1>3. CASE Run
  <2>1. UNCHANGED <<unfed, round, busy, quiet, command, posts, sending>>
    BY <1>3 DEF Run, timing, answer
  <2>2. CASE ResetIndices
    BY <2>1, <2>2 DEF ResetIndices
  <2>3. CASE ResetRoom
    BY <2>1, <2>3 DEF ResetRoom
  <2>4. CASE EnterLoop
    BY <2>1, <2>4 DEF EnterLoop
  <2>5. CASE Execute
    BY <2>1, <2>5 DEF Execute
  <2>6. CASE AdvanceTail
    BY <2>1, <2>6 DEF AdvanceTail
  <2>7. CASE SetRoom
    BY <2>1, <2>7 DEF SetRoom
  <2> QED
    BY <1>3, <2>2, <2>3, <2>4, <2>5, <2>6, <2>7 DEF Run
<1>4. CASE Post
  <2>1. UNCHANGED <<unfed, round, busy, quiet, command, sending>>
    BY <1>4 DEF Post, timing
  <2>2. ASSUME NEW e \in Events, MainPutCheck(e),
               IF pc = "boot" THEN UNCHANGED posts ELSE posts > 0 /\ posts' = posts - 1
        PROVE  Timing' /\ Course' /\ Boot'
    <3>1. /\ pc' = "put" /\ caller' = pc /\ pc \in {"handler", "boot"} /\ is_empty /\ is_empty'
          /\ posts' \in 0 .. 2 /\ (posts' > 0 => posts > 0) /\ (pc = "handler" => posts > 0)
      BY <2>2 DEF MainPutCheck, MayPut, ring
    <3> QED
      BY <2>1, <3>1
  <2>3. CASE MainPutCommit /\ UNCHANGED posts
    <3>1. pc = "put" /\ pc' = caller /\ caller' = caller /\ caller \in {"boot", "handler"}
      BY <2>3 DEF MainPutCommit, TypeOK
    <3> QED
      BY <2>1, <2>3, <3>1
  <2> QED
    BY <1>4, <2>2, <2>3 DEF Post
<1>5. CASE HandlerEnds
  BY <1>5 DEF HandlerEnds, HandlerReturns, ring
<1>6. CASE SendHeader
  BY <1>6 DEF SendHeader, vars, timing
<1>7. CASE SendData
  BY <1>7 DEF SendData, vars
<1>8. CASE GoRound
  BY <1>8 DEF GoRound, vars
<1>9. CASE Tick
  <2>1. UNCHANGED <<pc, caller, head, tail, is_empty, command, posts, sending>>
    BY <1>9 DEF Tick, vars, answer
  <2>2. unfed' \in 0 .. WATCHDOG_TIMEOUT /\ round' \in BOOLEAN
    <3>1. unfed < WATCHDOG_TIMEOUT /\ unfed' = unfed + 1 /\ round' = FALSE
      BY <1>9 DEF Tick
    <3>2. unfed' \in 0 .. WATCHDOG_TIMEOUT
      BY <3>1
    <3>3. round' \in BOOLEAN
      BY <3>1
    <3> QED
      BY <3>2, <3>3
  <2>3. quiet' \in 0 .. Gap
    BY <1>9 DEF Tick
  <2>4. CASE pc = "handler"
    <3>1. busy < (IF sending = "no" THEN Brief ELSE Block) /\ busy' = busy + 1
      BY <1>9, <2>4 DEF Tick
    <3>2. busy' \in 0 .. Block /\ (sending = "no" => busy' <= Brief)
      BY <3>1
    <3>3. Timing'
      BY <2>1, <2>2, <2>3, <3>2, Zenon
    <3>4. Course' /\ Boot'
      BY <2>1, <2>2, <2>4, <3>2
    <3> QED
      BY <3>3, <3>4
  <2>5. CASE pc = "idle"
    <3>1. busy' = busy
      BY <1>9, <2>5 DEF Tick
    <3>2. Timing'
      BY <2>1, <2>2, <2>3, <3>1, Zenon
    <3>3. Course' /\ Boot'
      BY <2>1, <2>2, <2>5, <3>1
    <3> QED
      BY <3>2, <3>3
  <2> QED
    BY <1>9, <2>4, <2>5 DEF Tick
<1>10. CASE Interrupt
  <2>1. /\ quiet' = 0 /\ UNCHANGED <<round, busy, sending, pc, caller>>
        /\ pc = "put" => tail' = tail /\ (~is_empty => is_empty' = FALSE /\ head' = head)
        /\ pc = "put" /\ is_empty /\ ~is_empty' => head' = tail
    BY <1>10 DEF Interrupt, IrqPut, Refuse, vars, Enqueue, TypeOK
  <2>2. \/ UNCHANGED <<command, posts, unfed>>
        \/ command = "none" /\ command' = "received" /\ posts' = 2 /\ unfed' = 0
    BY <1>10 DEF Interrupt
  <2> QED
    BY <2>1, <2>2
<1>11. CASE UNCHANGED loopVars
  BY <1>11 DEF loopVars, vars
<1> QED
  BY <1>3, <1>4, <1>5, <1>6, <1>7, <1>8, <1>9, <1>10, <1>11 DEF LoopNext

\* The main loop, its handlers and the response keep their types, and a handler
\* its time, for every load.
THEOREM LoopTypeCorrect == LoopSpec => []LoopTypeOK
<1>1. CourseInv => LoopTypeOK
  BY DEF CourseInv
<1> QED
  BY <1>1, CourseInit, CourseStep, PTL DEF LoopSpec

-----------------------------------------------------------------------------
(* What the watchdog's timeout is spent on.                                *)

\* Ticks spent, and ticks for events, weighed against those that come in meanwhile.
Claim(ticks, events, rest, q) ==
    (Gap - Brief) * ticks + Gap * (Brief * events + rest) + Brief * q

Budget(events) == Gap * (Brief * events + 1)

LEMMA Factors ==
    ASSUME NEW a \in Int, NEW b \in Int, NEW c \in Int
    PROVE  /\ a * b \in Int /\ a * (b + c) = a * b + a * c /\ a * (b - c) = a * b - a * c
           /\ a * (b + 1) = a * b + a /\ a * (b - 1) = a * b - a
           /\ a >= 0 /\ b >= 0 => a * b >= 0
           /\ a >= 0 /\ b <= c => a * b <= a * c
           /\ a > 0 /\ a * b < a * c => b < c
           /\ a * b = b * a /\ a * 0 = 0
  BY SMTT(30)

Rate == Gap - Brief

LEMMA Numbers ==
    /\ Gap \in Nat /\ Brief \in Nat /\ Rate \in Nat /\ Rate > 0 /\ Gap = Rate + Brief
    /\ N \in Nat /\ N >= 2 /\ Block \in Nat /\ WATCHDOG_TIMEOUT \in Nat
  BY TicksAssumption, KeepsUpAssumption, SizeAssumption DEF Rate

LEMMA ClaimInt ==
    ASSUME NEW u \in Int, NEW k \in Int, NEW r \in Int, NEW q \in Int
    PROVE  Claim(u, k, r, q) \in Int
<1>1. Brief * k \in Int /\ Brief * q \in Int /\ Rate * u \in Int
  BY Factors, Numbers
<1>2. Gap * (Brief * k + r) \in Int
  BY <1>1, Factors, Numbers
<1> QED
  BY <1>1, <1>2 DEF Claim, Rate

\* Fewer events and less to do for a handler claim less.
LEMMA ClaimLess ==
    ASSUME NEW u \in Int, NEW k \in Int, NEW k2 \in Int, NEW r \in Int, NEW r2 \in Int,
           NEW q \in Int, k2 <= k, r2 <= r
    PROVE  Claim(u, k2, r2, q) <= Claim(u, k, r, q)
<1>1. Brief * k \in Int /\ Brief * k2 \in Int /\ Brief * k2 <= Brief * k /\ Brief * q \in Int
      /\ Rate * u \in Int
  BY Factors, Numbers
<1>2. Brief * k2 + r2 \in Int /\ Brief * k + r \in Int /\ Brief * k2 + r2 <= Brief * k + r
  BY <1>1
<1>3. Gap * (Brief * k2 + r2) <= Gap * (Brief * k + r)
      /\ Gap * (Brief * k2 + r2) \in Int /\ Gap * (Brief * k + r) \in Int
  BY <1>2, Factors, Numbers
<1> QED
  BY <1>1, <1>3 DEF Claim, Rate

\* A tick used for what it was claimed for.
LEMMA ClaimTick ==
    ASSUME NEW u \in Int, NEW k \in Int, NEW r \in Int, NEW q \in Int, NEW q2 \in {q, q + 1}
    PROVE  Claim(u + 1, k, r - 1, q2) <= Claim(u, k, r, q)
<1> DEFINE w == Brief * k + r
<1>1. Brief * k \in Int /\ Brief * q \in Int /\ Rate * u \in Int /\ Brief * q2 \in Int
      /\ Rate * (u + 1) = Rate * u + Rate /\ Brief * q2 <= Brief * q + Brief
  BY Factors, Numbers
<1>2. w \in Int /\ Brief * k + (r - 1) = w - 1
  BY <1>1
<1> HIDE DEF w
<1>3. Gap * (w - 1) = Gap * w - Gap /\ Gap * w \in Int
  BY <1>2, Factors, Numbers
<1>4. Claim(u + 1, k, r - 1, q2) = (Rate * u + Rate) + (Gap * w - Gap) + Brief * q2
  BY <1>1, <1>2, <1>3 DEF Claim, Rate
<1>5. Claim(u, k, r, q) = Rate * u + Gap * w + Brief * q
  BY DEF Claim, Rate, w
<1> QED
  BY <1>1, <1>3, <1>4, <1>5, Numbers

LEMMA ClaimTicks ==
    ASSUME NEW u \in Int, NEW k \in Int, NEW r \in Int, NEW r2 \in Int, r2 <= r - 1,
           NEW q \in Int, NEW q2 \in {q, q + 1}
    PROVE  Claim(u + 1, k, r2, q2) <= Claim(u, k, r, q)
<1>1. u + 1 \in Int /\ r - 1 \in Int /\ q2 \in Int
  OBVIOUS
<1>2. Claim(u + 1, k, r2, q2) <= Claim(u + 1, k, r - 1, q2)
  BY <1>1, ClaimLess
<1>3. Claim(u + 1, k, r - 1, q2) <= Claim(u, k, r, q)
  BY ClaimTick
<1>4. /\ Claim(u + 1, k, r2, q2) \in Int /\ Claim(u + 1, k, r - 1, q2) \in Int
      /\ Claim(u, k, r, q) \in Int
  BY <1>1, ClaimInt, Zenon
<1> QED
  BY <1>2, <1>3, <1>4

LEMMA ClaimFewerTicks ==
    ASSUME NEW u \in Int, NEW u2 \in Int, u2 <= u,
           NEW k \in Int, NEW r \in Int, NEW q \in Int
    PROVE  Claim(u2, k, r, q) <= Claim(u, k, r, q)
<1>1. Rate * u2 \in Int /\ Rate * u \in Int /\ Rate * u2 <= Rate * u
      /\ Brief * k \in Int /\ Brief * q \in Int
  BY Factors, Numbers
<1>2. Gap * (Brief * k + r) \in Int
  BY <1>1, Factors, Numbers
<1> QED
  BY <1>1, <1>2 DEF Claim, Rate

\* An event is taken up.
LEMMA ClaimExecute ==
    ASSUME NEW u \in Int, NEW k \in Int, NEW r \in Int, NEW q \in Int
    PROVE  Claim(u, k - 1, r + Brief, q) = Claim(u, k, r, q)
<1>1. Brief * (k - 1) = Brief * k - Brief /\ Brief * k \in Int
  BY Factors, Numbers
<1>2. Brief * (k - 1) + (r + Brief) = Brief * k + r
  BY <1>1, Numbers
<1> QED
  BY <1>2 DEF Claim

\* An interrupt posts an event.
LEMMA ClaimPost ==
    ASSUME NEW u \in Int, NEW k \in Int, NEW r \in Int
    PROVE  Claim(u, k + 1, r, 0) = Claim(u, k, r, Gap)
<1> DEFINE w == Brief * k + r
<1>1. Brief * (k + 1) = Brief * k + Brief /\ Brief * k \in Int /\ Brief * 0 = 0
      /\ Brief * Gap = Gap * Brief /\ Gap * Brief \in Int /\ Rate * u \in Int
  BY Factors, Numbers
<1>2. w \in Int /\ Brief * (k + 1) + r = w + Brief
  BY <1>1, Numbers
<1> HIDE DEF w
<1>3. Gap * (w + Brief) = Gap * w + Gap * Brief /\ Gap * w \in Int
  BY <1>2, Factors, Numbers
<1>4. Claim(u, k + 1, r, 0) = Rate * u + (Gap * w + Gap * Brief) + 0
  BY <1>1, <1>2, <1>3 DEF Claim, Rate
<1>5. Claim(u, k, r, Gap) = Rate * u + Gap * w + Gap * Brief
  BY <1>1 DEF Claim, Rate, w
<1> QED
  BY <1>1, <1>3, <1>4, <1>5

LEMMA ClaimInterrupt ==
    ASSUME NEW u \in Int, NEW k \in Int, NEW k2 \in Int, k2 <= k + 1, NEW r \in Int
    PROVE  Claim(u, k2, r, 0) <= Claim(u, k, r, Gap)
<1>1. Claim(u, k2, r, 0) <= Claim(u, k + 1, r, 0)
  <2>1. 0 \in Int /\ k + 1 \in Int
    OBVIOUS
  <2> QED
    BY <2>1, ClaimLess
<1>2. Claim(u, k + 1, r, 0) = Claim(u, k, r, Gap)
  BY ClaimPost
<1> QED
  BY <1>1, <1>2, Zenon

\* What a number of events can claim when no tick is spent yet.
LEMMA ClaimFresh ==
    ASSUME NEW k \in Int, NEW r \in Int, r <= 1, NEW q \in Int, q <= Gap,
           NEW n \in Int
    PROVE  /\ k + 1 <= n => Claim(0, k, r, q) <= Budget(n)
           /\ k <= n /\ q = 0 => Claim(0, k, r, q) <= Budget(n)
<1>0. Budget(n) \in Int /\ Budget(n) = Claim(0, n, 1, 0)
  <2>1. Brief * n + 1 \in Int /\ Brief * 0 = 0 /\ Rate * 0 = 0
    BY Factors, Numbers
  <2>2. Gap * (Brief * n + 1) \in Int
    BY <2>1, Factors, Numbers
  <2> QED
    BY <2>1, <2>2 DEF Budget, Claim, Rate
<1>1. ASSUME k <= n, q = 0 PROVE Claim(0, k, r, q) <= Budget(n)
  <2>1. Claim(0, k, r, 0) <= Claim(0, n, 1, 0)
    BY <1>1, ClaimLess
  <2> QED
    BY <1>0, <1>1, <2>1, Zenon
<1>2. ASSUME k + 1 <= n PROVE Claim(0, k, r, q) <= Budget(n)
  <2>1. Claim(0, k, r, q) <= Claim(0, k, r, Gap)
    <3>1. Brief * q <= Brief * Gap /\ Brief * q \in Int /\ Brief * Gap \in Int
          /\ Brief * k \in Int /\ Rate * 0 = 0
      BY Factors, Numbers
    <3>2. Gap * (Brief * k + r) \in Int
      BY <3>1, Factors, Numbers
    <3> QED
      BY <3>1, <3>2 DEF Claim, Rate
  <2>2. Claim(0, k, r, Gap) = Claim(0, k + 1, r, 0)
    BY ClaimPost
  <2>3. Claim(0, k + 1, r, 0) <= Claim(0, n, 1, 0)
    BY <1>2, ClaimLess
  <2>4. /\ Claim(0, k, r, q) \in Int /\ Claim(0, k, r, Gap) \in Int
        /\ Claim(0, k + 1, r, 0) \in Int /\ Claim(0, n, 1, 0) \in Int
    <3>1. 0 \in Int /\ 1 \in Int /\ k + 1 \in Int /\ Gap \in Int
      BY Numbers
    <3> QED
      BY <3>1, ClaimInt, Zenon
  <2> QED
    BY <1>0, <2>1, <2>2, <2>3, <2>4
<1> QED
  BY <1>1, <1>2

LEMMA BudgetInt == ASSUME NEW n \in Int PROVE Budget(n) \in Int
<1>1. Brief * n + 1 \in Int
  BY Factors, Numbers
<1> QED
  BY <1>1, Factors, Numbers DEF Budget

\* What a command claims, whether it comes while a handler runs or not.
LEMMA ClaimCommand ==
    ASSUME NEW k \in Int, NEW r \in Int
    PROVE  /\ k <= N /\ r <= 1 => Claim(0, k + 2, r, 0) <= Budget(N + 2)
           /\ k <= N - 1 /\ r <= Brief + 1 => Claim(0, k + 2, r, 0) <= Budget(N + 2)
<1>1. /\ 0 \in Int /\ 1 \in Int /\ N + 2 \in Int /\ k + 2 \in Int /\ k + 3 \in Int
      /\ Brief + 1 \in Int /\ 0 <= Gap
  BY Numbers
<1>2. ASSUME k <= N, r <= 1 PROVE Claim(0, k + 2, r, 0) <= Budget(N + 2)
  <2>1. k + 2 <= N + 2
    BY <1>2, Numbers
  <2> QED
    BY <1>1, <1>2, <2>1, ClaimFresh
<1>3. ASSUME k <= N - 1, r <= Brief + 1 PROVE Claim(0, k + 2, r, 0) <= Budget(N + 2)
  <2>1. k + 3 <= N + 2 /\ (k + 3) - 1 = k + 2 /\ 1 + Brief = Brief + 1
    BY <1>3, Numbers
  <2>2. Claim(0, k + 2, r, 0) <= Claim(0, k + 2, Brief + 1, 0)
    BY <1>1, <1>3, ClaimLess
  <2>3. Claim(0, k + 2, Brief + 1, 0) = Claim(0, k + 3, 1, 0)
    <3>1. Claim(0, (k + 3) - 1, 1 + Brief, 0) = Claim(0, k + 3, 1, 0)
      BY <1>1, ClaimExecute
    <3> QED
      BY <2>1, <3>1, Zenon
  <2>4. Claim(0, k + 3, 1, 0) <= Budget(N + 2)
    BY <1>1, <2>1, ClaimFresh
  <2>5. /\ Claim(0, k + 2, r, 0) \in Int /\ Claim(0, k + 3, 1, 0) \in Int
        /\ Budget(N + 2) \in Int
    BY <1>1, ClaimInt, BudgetInt, Zenon
  <2>6. \A a, b, c \in Int : a <= b /\ b <= c => a <= c
    OBVIOUS
  <2> QED
    BY <2>2, <2>3, <2>4, <2>5, <2>6, Zenon
<1> QED
  BY <1>2, <1>3

\* The ticks spent are part of the claim, and so is what a handler may still take.
LEMMA ClaimSpent ==
    ASSUME NEW u \in Int, NEW k \in Nat, NEW r \in Nat, NEW q \in Nat, NEW n \in Int
    PROVE  /\ Rate * u <= Claim(u, k, r, q)
           /\ r >= Brief /\ Claim(u, k, r, q) <= Budget(n + 1) => Rate * u <= Budget(n)
<1> DEFINE w == Brief * k + r
           b == Brief * n + 1
<1>1. Brief * k \in Int /\ Brief * k >= 0 /\ Brief * q \in Int /\ Brief * q >= 0
      /\ Rate * u \in Int /\ Brief * n \in Int /\ Brief * (n + 1) = Brief * n + Brief
      /\ Gap * Brief \in Int /\ Gap * Brief >= 0
  BY Factors, Numbers
<1>2. w \in Int /\ w >= 0 /\ (r >= Brief => w >= Brief) /\ b \in Int
      /\ Brief * (n + 1) + 1 = b + Brief
  BY <1>1, Numbers
<1>3. Claim(u, k, r, q) = Rate * u + Gap * w + Brief * q /\ Budget(n) = Gap * b
  BY DEF Claim, Rate, w, b, Budget
<1> HIDE DEF w, b
<1>4. Gap * w \in Int /\ Gap * w >= 0 /\ Gap * b \in Int /\ (r >= Brief => Gap * w >= Gap * Brief)
      /\ Gap * (b + Brief) = Gap * b + Gap * Brief
  BY <1>2, Factors, Numbers
<1>5. Budget(n + 1) = Gap * b + Gap * Brief
  BY <1>2, <1>4 DEF Budget
<1> QED
  BY <1>1, <1>3, <1>4, <1>5

\* What does not exceed the budget is within the timeout.
LEMMA WithinTimeout ==
    ASSUME NEW u \in Int
    PROVE  /\ Rate * u <= Budget(N + 2) => u < WATCHDOG_TIMEOUT
           /\ Rate * u <= Budget(N + 1) => u + Block < WATCHDOG_TIMEOUT
<1>1. /\ Budget(N + 2) < Rate * WATCHDOG_TIMEOUT
      /\ Budget(N + 1) < Rate * (WATCHDOG_TIMEOUT - Block)
  BY KeepsUpAssumption DEF Budget, Rate
<1>2. Budget(N + 1) \in Int /\ Budget(N + 2) \in Int
  BY BudgetInt, Numbers
<1>3. /\ Rate * u \in Int /\ Rate * WATCHDOG_TIMEOUT \in Int
      /\ Rate * (WATCHDOG_TIMEOUT - Block) \in Int
  BY Factors, Numbers
<1>4. ASSUME Rate * u <= Budget(N + 2) PROVE u < WATCHDOG_TIMEOUT
  <2>1. Rate * u < Rate * WATCHDOG_TIMEOUT
    BY <1>1, <1>2, <1>3, <1>4, Numbers
  <2> QED
    BY <2>1, Factors, Numbers
<1>5. ASSUME Rate * u <= Budget(N + 1) PROVE u + Block < WATCHDOG_TIMEOUT
  <2>1. Rate * u < Rate * (WATCHDOG_TIMEOUT - Block)
    BY <1>1, <1>2, <1>3, <1>5, Numbers
  <2>2. u < WATCHDOG_TIMEOUT - Block
    BY <2>1, Factors, Numbers
  <2> QED
    BY <2>2, Numbers
<1> QED
  BY <1>4, <1>5

-----------------------------------------------------------------------------
(* The events that are left to execute.                                    *)

Taken == IF InHandler THEN 1 ELSE 0

\* The events the main loop has still to take up.  Where the post under way overruns
\* the ring, and where a full ring will be taken for an empty one, none is left.
Left ==
    IF pc = "put" THEN (IF is_empty THEN Count + 1 ELSE 1) - Taken
    ELSE IF pc = "room" /\ head = tail THEN 0
    ELSE Count - Taken

LEMMA CountRange ==
    ASSUME RingInv
    PROVE  /\ Count \in 0 .. N
           /\ is_empty => Count < N
           /\ InHandler => Count > 0
           /\ ~HasWork => Count = 0
  BY SizeAssumption
  DEF RingInv, TypeInv, TypeOK, FreshInv, HasWork, Count, CountOf, Slots

LEMMA LeftRange ==
    ASSUME RingInv
    PROVE  Taken \in {0, 1} /\ Left \in 0 .. N - Taken
<1>1. Taken \in {0, 1} /\ (Taken = 1 <=> InHandler)
  BY DEF Taken
<1>2. Count \in Int /\ N \in Int /\ is_empty \in BOOLEAN
  BY CountRange, SizeAssumption DEF RingInv, TypeInv, TypeOK
<1> QED
  BY <1>1, <1>2, CountRange, SizeAssumption DEF Left

\* What the steps of the scheduler do to that: before the loop nothing is known.
LEMMA LeftEnter ==
    ASSUME RingInv, EnterLoop
    PROVE  Left' = Left
  BY DEF EnterLoop, Left, Count, Taken, InHandler, ring

LEMMA LeftExecute ==
    ASSUME RingInv, Execute
    PROVE  Left' = Left - 1
  BY CountRange DEF Execute, Left, Count, Taken, InHandler, ring

LEMMA LeftReturns ==
    ASSUME RingInv, HandlerReturns
    PROVE  Left' = Left
  BY DEF HandlerReturns, Left, Count, Taken, InHandler, ring

LEMMA LeftAdvance ==
    ASSUME RingInv, AdvanceTail
    PROVE  Left' <= Left
<1>1. /\ pc = "advance" /\ pc' = "room" /\ head' = head /\ is_empty' = is_empty
      /\ tail' = After(tail) /\ InHandler /\ ~InHandler'
  BY DEF AdvanceTail, InHandler
<1>2. head \in Slots /\ tail \in Slots /\ is_empty \in BOOLEAN /\ Count > 0
  BY <1>1, CountRange DEF RingInv, TypeInv, TypeOK
<1> QED
  BY <1>1, <1>2, SizeAssumption
  DEF Left, Count, CountOf, Taken, After, Wrap, Slots

LEMMA LeftRoom ==
    ASSUME RingInv, SetRoom
    PROVE  Left' <= Left
<1>1. /\ pc = "room" /\ pc' = "idle" /\ head' = head /\ tail' = tail /\ is_empty' = TRUE
      /\ ~InHandler /\ ~InHandler'
  BY DEF SetRoom, InHandler
<1>2. head \in Slots /\ tail \in Slots /\ is_empty \in BOOLEAN
  BY DEF RingInv, TypeInv, TypeOK
<1> QED
  BY <1>1, <1>2, SizeAssumption DEF Left, Count, CountOf, Taken, Slots

LEMMA LeftCheck ==
    ASSUME RingInv, NEW e \in Events, MainPutCheck(e), pc = "handler"
    PROVE  Left' = Left + 1
<1>1. /\ pc' = "put" /\ caller' = "handler" /\ is_empty /\ UNCHANGED <<head, tail, is_empty>>
      /\ InHandler /\ InHandler'
  BY DEF MainPutCheck, InHandler, ring
<1>2. Count \in Int
  BY CountRange, Numbers
<1>3. Count' = Count
  BY <1>1 DEF Count
<1> QED
  BY <1>1, <1>2, <1>3 DEF Left, Taken

\* A post adds an event to the ring, if there is room for it.
LEMMA CountEnqueue ==
    ASSUME RingInv, NEW e, Enqueue(e)
    PROVE  /\ is_empty => Count' = Count + 1
           /\ ~is_empty /\ head = tail => Count' = 1
           /\ tail' = tail /\ (is_empty' => is_empty)
<1>1. head \in Slots /\ tail \in Slots /\ is_empty \in BOOLEAN
  BY DEF RingInv, TypeInv, TypeOK
<1>2. head' = After(head) /\ tail' = tail /\ is_empty' = (is_empty /\ After(head) # tail)
  BY DEF Enqueue
<1>3. After(head) = IF head = N - 1 THEN 0 ELSE head + 1
  BY <1>1, SizeAssumption DEF After, Wrap, Slots
<1>4. Count' = CountOf(After(head), tail, is_empty /\ After(head) # tail)
  BY <1>2 DEF Count
<1>5. CASE is_empty
  BY <1>1, <1>2, <1>3, <1>4, <1>5, SizeAssumption DEF Count, CountOf, Slots
<1>6. CASE ~is_empty
  BY <1>1, <1>2, <1>3, <1>4, <1>6, SizeAssumption DEF CountOf, Slots
<1> QED
  BY <1>5, <1>6, <1>2

LEMMA LeftCommit ==
    ASSUME RingInv, Course, MainPutCommit
    PROVE  Left' = Left
<1>1. /\ pc = "put" /\ pc' = caller /\ caller' = caller /\ caller \in {"boot", "handler"}
      /\ Enqueue(arg) /\ InHandler' = InHandler
  BY DEF MainPutCommit, RingInv, TypeInv, TypeOK, InHandler
<1>2. IF is_empty THEN Count' = Count + 1 ELSE Count' = 1
  BY <1>1, CountEnqueue DEF Course
<1> QED
  BY <1>1, <1>2 DEF Left, Taken

LEMMA LeftInterrupt ==
    ASSUME RingInv, NEW e \in Events, IrqPut(e) \/ Refuse(e)
    PROVE  Left' <= Left + 1
<1>0. Left \in Int /\ Taken \in Int /\ Count \in Int /\ Count >= 0 /\ Taken \in {0, 1}
  BY LeftRange, CountRange, SizeAssumption
<1>1. CASE Refuse(e)
  <2>1. Left' = Left
    BY <1>1 DEF Refuse, vars, Left, Count, Taken, InHandler
  <2> QED
    BY <1>0, <2>1
<1>2. CASE IrqPut(e)
  <2>1. is_empty /\ Count' = Count + 1 /\ pc' = pc /\ caller' = caller /\ tail' = tail
        /\ Taken' = Taken
    <3>1. Enqueue(e) /\ is_empty /\ pc' = pc /\ caller' = caller
      BY <1>2 DEF IrqPut
    <3>2. Count' = Count + 1 /\ tail' = tail
      BY <3>1, CountEnqueue
    <3> QED
      BY <3>1, <3>2 DEF Taken, InHandler
  <2>2. pc = "room" /\ head = tail => Count = 0 /\ Taken = 0
    BY <2>1 DEF Count, CountOf, Taken, InHandler
  <2>3. CASE pc = "put"
    BY <1>0, <2>1, <2>3 DEF Left
  <2>4. CASE pc # "put" /\ ~(pc = "room" /\ head = tail)
    <3>1. Left = Count - Taken
      BY <2>4 DEF Left
    <3>2. Left' = 0 \/ Left' = Count' - Taken'
      BY <2>1, <2>4 DEF Left
    <3> QED
      BY <1>0, <2>1, <3>1, <3>2, LeftRange
  <2>5. CASE pc = "room" /\ head = tail
    BY <1>0, <2>1, <2>2, <2>5 DEF Left
  <2> QED
    BY <2>3, <2>4, <2>5
<1> QED
  BY <1>1, <1>2

-----------------------------------------------------------------------------
(* The watchdog. *)

\* The ticks the handler may still take, when it does not send.
Rest == IF InHandler /\ pc # "advance" /\ sending = "no" THEN Brief - busy ELSE 0

\* The tick of the idle loop.
Spare == IF round THEN 1 ELSE 0

Claimed(ticks) == Claim(ticks, Left + posts, Rest + Spare, quiet)

\* The property counts ticks only; it is kept because what is left to do fits into
\* what is left of the timeout.  A command adds two posts; while its response is held
\* up the ring fills, and nothing was spent when its first byte of data left.
Phase ==
    Started =>
        /\ command = "none" => Claimed(unfed) <= Budget(N + 1)
        /\ command = "received" => Claimed(unfed) <= Budget(N + 2)
        /\ sending = "header" => Rate * (unfed - busy) <= Budget(N + 1)
        /\ sending = "data" => unfed <= busy
        /\ command = "done" /\ sending = "no" => Claimed(unfed - Block) <= Budget(N + 1)

FedInv == CourseInv /\ Phase

LEMMA FedInit == LoopInit => FedInv
  BY CourseInit DEF LoopInit, Init, FedInv, Phase, Started

Ranges ==
    /\ unfed \in Nat /\ busy \in Nat /\ busy <= Block /\ quiet \in Nat /\ quiet <= Gap
    /\ posts \in 0 .. 2 /\ Left \in 0 .. N /\ (InHandler => Left <= N - 1)
    /\ Rest \in 0 .. Brief /\ Spare \in {0, 1}

LEMMA FedRanges == CourseInv => Ranges
<1> SUFFICES ASSUME CourseInv PROVE Ranges
  OBVIOUS
<1>1. Timing /\ RingInv /\ Course
  BY TypeParts DEF CourseInv
<1>2. Left \in 0 .. N /\ (InHandler => Left <= N - 1)
  BY <1>1, LeftRange, Numbers DEF Taken
<1>3. unfed \in Nat /\ busy \in Nat /\ busy <= Block /\ quiet \in Nat /\ quiet <= Gap
      /\ posts \in 0 .. 2
  BY <1>1, Numbers DEF Timing
<1>4. Rest \in 0 .. Brief
  BY <1>1, <1>3, Numbers DEF Rest, Course
<1> QED
  BY <1>2, <1>3, <1>4 DEF Spare, Ranges

LEMMA FedRangesNext == CourseInv' => Ranges'
  BY FedRanges, PTL

\* A step that spends no tick and claims no more: of the events left, one may have
\* become the one that is executed.
LEMMA NoMoreClaimed ==
    ASSUME CourseInv, CourseInv', quiet' = quiet, NEW u \in Int, NEW d \in {0, 1},
           Left' + posts' <= (Left + posts) - d,
           Rest' + Spare' <= (Rest + Spare) + (IF d = 1 THEN Brief ELSE 0)
    PROVE  Claim(u, Left' + posts', Rest' + Spare', quiet') <= Claimed(u)
<1> DEFINE k == Left + posts   k2 == Left' + posts'   r == Rest + Spare   r2 == Rest' + Spare'
<1>1. k \in Int /\ r \in Int /\ quiet \in Int
  BY FedRanges, Numbers DEF Ranges
<1>2. k2 \in Int /\ r2 \in Int
  <2>1. Left' \in 0 .. N /\ posts' \in 0 .. 2 /\ Rest' \in 0 .. Brief /\ Spare' \in {0, 1}
    BY FedRangesNext DEF Ranges
  <2> QED
    BY <2>1, Numbers
<1> HIDE DEF k, k2, r, r2
<1>3. CASE d = 0
  <2>1. k2 <= k /\ r2 <= r
    BY <1>1, <1>2, <1>3 DEF k, k2, r, r2
  <2> QED
    BY <1>1, <1>2, <2>1, ClaimLess DEF Claimed, k, k2, r, r2
<1>4. CASE d = 1
  <2>1. k2 <= k - 1 /\ r2 <= r + Brief /\ k - 1 \in Int /\ r + Brief \in Int
    BY <1>1, <1>2, <1>4, Numbers DEF k, k2, r, r2
  <2>2. Claim(u, k2, r2, quiet) <= Claim(u, k - 1, r + Brief, quiet)
    BY <1>1, <1>2, <2>1, ClaimLess
  <2>3. Claim(u, k - 1, r + Brief, quiet) = Claim(u, k, r, quiet)
    BY <1>1, ClaimExecute
  <2> QED
    BY <2>2, <2>3 DEF Claimed, k, k2, r, r2
<1> QED
  BY <1>3, <1>4

LEMMA SumLess == \A a, b, c, d \in Int : a <= b /\ c = d => a + c <= (b + d) - 0
  OBVIOUS

\* So it keeps the claims within the budget.
LEMMA PhaseKept ==
    ASSUME FedInv, CourseInv', Started, NEW d \in {0, 1},
           UNCHANGED <<unfed, quiet, command, sending>>, sending = "no" \/ busy' = busy,
           Left' + posts' <= (Left + posts) - d,
           Rest' + Spare' <= (Rest + Spare) + (IF d = 1 THEN Brief ELSE 0)
    PROVE  Phase'
<1>1. unfed \in Int /\ unfed - Block \in Int
  BY FedRanges, Numbers DEF FedInv, Ranges
<1>2. ASSUME NEW u \in Int
      PROVE  /\ Claim(u, Left' + posts', Rest' + Spare', quiet') <= Claimed(u)
             /\ Claim(u, Left' + posts', Rest' + Spare', quiet') \in Int /\ Claimed(u) \in Int
  <2>1. Claim(u, Left' + posts', Rest' + Spare', quiet') <= Claimed(u)
    BY NoMoreClaimed DEF FedInv
  <2>2. /\ Left + posts \in Int /\ Rest + Spare \in Int /\ quiet \in Int
        /\ Left' + posts' \in Int /\ Rest' + Spare' \in Int /\ quiet' \in Int
    BY FedRanges, FedRangesNext, Numbers DEF FedInv, Ranges
  <2> QED
    BY <2>1, <2>2, ClaimInt DEF Claimed
<1>3. Budget(N + 1) \in Int /\ Budget(N + 2) \in Int
  BY BudgetInt, Numbers
<1>4. /\ Claim(unfed', Left' + posts', Rest' + Spare', quiet') <= Claimed(unfed)
      /\ Claim(unfed' - Block, Left' + posts', Rest' + Spare', quiet') <= Claimed(unfed - Block)
      /\ Claim(unfed', Left' + posts', Rest' + Spare', quiet') \in Int /\ Claimed(unfed) \in Int
      /\ Claim(unfed' - Block, Left' + posts', Rest' + Spare', quiet') \in Int
      /\ Claimed(unfed - Block) \in Int
  BY <1>1, <1>2
<1>5. Phase
  BY DEF FedInv
<1> QED
  BY <1>3, <1>4, <1>5 DEF Phase, Claimed

LEMMA PhaseRun ==
    ASSUME FedInv, CourseInv', Run
    PROVE  Phase'
<1>1. CourseInv /\ RingInv /\ Ranges /\ Ranges' /\ Course /\ Boot
  BY FedRanges, FedRangesNext DEF FedInv, CourseInv
<1>2. UNCHANGED <<unfed, round, busy, quiet, command, posts, sending>>
  BY DEF Run, timing, answer
<1>9. posts' = posts /\ Spare' = Spare
  BY <1>2 DEF Spare
<1>0. /\ Left \in Int /\ Left' \in Int /\ posts \in Int /\ posts' \in Int
      /\ Rest \in Int /\ Rest' \in Int /\ Rest' <= Brief /\ Spare \in Int /\ Brief \in Int
  BY <1>1, Numbers DEF Ranges
<1>3. CASE ResetIndices \/ ResetRoom
  BY <1>3 DEF ResetIndices, ResetRoom, Phase, Started
<1>4. CASE EnterLoop
  <2>1. /\ ~Started /\ ~InHandler /\ pc' = "idle" /\ ~InHandler' /\ Left' = Left
    BY <1>1, <1>4, LeftEnter DEF EnterLoop, Started, InHandler
  <2>2. /\ unfed = 0 /\ command # "done" /\ sending = "no" /\ Rest = 0 /\ Spare = 0
        /\ Rest' = 0 /\ Spare' = 0
        /\ command = "none" => posts = 0
        /\ command = "received" => quiet = 0
    BY <1>1, <1>2, <2>1 DEF Boot, Course, Ranges, Rest, Spare
  <2>3. /\ Left + posts \in Int /\ quiet \in Int /\ quiet <= Gap
        /\ command = "none" => Left + posts + 1 <= N + 1
        /\ Left + posts <= N + 2
    BY <1>1, <2>2, Numbers DEF Ranges
  <2>4. /\ command = "none" => Claim(0, Left + posts, 0, quiet) <= Budget(N + 1)
        /\ command = "received" => Claim(0, Left + posts, 0, quiet) <= Budget(N + 2)
    BY <2>2, <2>3, ClaimFresh, Numbers
  <2>5. Claimed(unfed)' = Claim(0, Left + posts, 0, quiet)
    BY <1>2, <2>1, <2>2 DEF Claimed
  <2> QED
    BY <1>2, <2>2, <2>4, <2>5 DEF Phase
<1>5. CASE Execute
  <2>1. Started /\ Left' = Left - 1
    BY <1>1, <1>5, LeftExecute DEF Execute, Started
  <2>2. Rest' + Spare' <= Rest + Spare + Brief
    <3>1. Rest = 0 /\ Rest' = Brief
      <4>1. pc = "idle" /\ pc' = "handler" /\ busy = 0 /\ busy' = busy /\ sending' = "no"
        BY <1>1, <1>2, <1>5 DEF Execute, Course, InHandler, Ranges
      <4> QED
        BY <4>1, Numbers DEF Rest, InHandler
    <3> QED
      BY <1>0, <1>9, <3>1
  <2>3. Left' + posts' <= (Left + posts) - 1
    BY <1>0, <1>9, <2>1
  <2> QED
    BY <1>2, <2>1, <2>2, <2>3, PhaseKept
<1>6. CASE AdvanceTail
  <2>1. Started /\ Left' <= Left
    BY <1>1, <1>6, LeftAdvance DEF AdvanceTail, Started
  <2>2. Rest = 0 /\ Rest' = 0
    BY <1>6 DEF AdvanceTail, Rest, InHandler
  <2>3. /\ Left' + posts' <= (Left + posts) - 0
        /\ Rest' + Spare' <= (Rest + Spare) + (IF 0 = 1 THEN Brief ELSE 0)
    <3>1. Left' + posts' <= (Left + posts) - 0
      BY <1>0, <1>9, <2>1, SumLess, Zenon
    <3>2. Rest' + Spare' = Rest + Spare
      BY <1>9, <2>2, Zenon
    <3>3. Rest + Spare <= (Rest + Spare) + (IF 0 = 1 THEN Brief ELSE 0)
      BY <1>0
    <3> QED
      BY <3>1, <3>2, <3>3, Zenon
  <2> QED
    BY <1>2, <2>1, <2>3, PhaseKept
<1>7. CASE SetRoom
  <2>1. Started /\ Left' <= Left
    BY <1>1, <1>7, LeftRoom DEF SetRoom, Started
  <2>2. Rest = 0 /\ Rest' = 0
    BY <1>7 DEF SetRoom, Rest, InHandler
  <2>3. /\ Left' + posts' <= (Left + posts) - 0
        /\ Rest' + Spare' <= (Rest + Spare) + (IF 0 = 1 THEN Brief ELSE 0)
    <3>1. Left' + posts' <= (Left + posts) - 0
      BY <1>0, <1>9, <2>1, SumLess, Zenon
    <3>2. Rest' + Spare' = Rest + Spare
      BY <1>9, <2>2, Zenon
    <3>3. Rest + Spare <= (Rest + Spare) + (IF 0 = 1 THEN Brief ELSE 0)
      BY <1>0
    <3> QED
      BY <3>1, <3>2, <3>3, Zenon
  <2> QED
    BY <1>2, <2>1, <2>3, PhaseKept
<1> QED
  BY <1>3, <1>4, <1>5, <1>6, <1>7 DEF Run

LEMMA PhasePost ==
    ASSUME FedInv, CourseInv', Post
    PROVE  Phase'
<1>1. CourseInv /\ RingInv /\ Ranges /\ Ranges' /\ Course /\ Boot
  BY FedRanges, FedRangesNext DEF FedInv, CourseInv
<1>2. UNCHANGED <<unfed, round, busy, quiet, command, sending>> /\ Spare' = Spare
  BY DEF Post, timing, Spare
<1>0. /\ Left \in Int /\ Left' \in Int /\ posts \in Int /\ posts' \in Int
      /\ Rest \in Int /\ Rest' \in Int /\ Spare \in Int /\ Brief \in Int
  BY <1>1, Numbers DEF Ranges
<1>3. ASSUME NEW e \in Events, MainPutCheck(e), pc = "handler", posts' = posts - 1
      PROVE  Phase'
  <2>1. Started /\ Left' = Left + 1
    BY <1>1, <1>3, LeftCheck DEF Started
  <2>2. Rest' = Rest
    BY <1>2, <1>3 DEF MainPutCheck, Rest, InHandler
  <2>3. /\ Left' + posts' <= (Left + posts) - 0
        /\ Rest' + Spare' <= (Rest + Spare) + (IF 0 = 1 THEN Brief ELSE 0)
    BY <1>0, <1>2, <1>3, <2>1, <2>2
  <2> QED
    BY <1>2, <2>1, <2>3, PhaseKept
<1>4. CASE MainPutCommit /\ UNCHANGED posts
  <2>1. CASE caller = "handler"
    <3>1. Started /\ Left' = Left
      BY <1>1, <1>4, <2>1, LeftCommit DEF MainPutCommit, Started
    <3>2. Rest' = Rest
      BY <1>2, <1>4, <2>1 DEF MainPutCommit, Rest, InHandler
    <3>3. /\ Left' + posts' <= (Left + posts) - 0
          /\ Rest' + Spare' <= (Rest + Spare) + (IF 0 = 1 THEN Brief ELSE 0)
      BY <1>0, <1>2, <1>4, <3>1, <3>2
    <3> QED
      BY <1>2, <3>1, <3>3, PhaseKept
  <2>2. CASE caller = "boot"
    BY <1>4, <2>2 DEF MainPutCommit, Phase, Started
  <2>3. caller \in {"boot", "handler"}
    BY <1>1 DEF RingInv, TypeInv, TypeOK
  <2> QED
    BY <2>1, <2>2, <2>3
<1>5. ASSUME NEW e \in Events, MainPutCheck(e), pc = "boot" PROVE Phase'
  BY <1>5 DEF MainPutCheck, Phase, Started
<1> QED
  BY <1>3, <1>4, <1>5 DEF Post, MainPutCheck, MayPut

LEMMA PhaseHandlerEnds ==
    ASSUME FedInv, CourseInv', HandlerEnds
    PROVE  Phase'
<1>1. CourseInv /\ RingInv /\ Ranges /\ Ranges' /\ Course
  BY FedRanges, FedRangesNext DEF FedInv, CourseInv
<1>2. /\ UNCHANGED <<unfed, round, quiet, command, posts>> /\ Spare' = Spare
      /\ sending # "header" /\ sending' = "no" /\ busy' = 0
  BY DEF HandlerEnds, Spare
<1>3. Started /\ InHandler /\ Left' = Left /\ Rest' = 0
  <2>1. pc = "handler" /\ pc' = "advance"
    BY DEF HandlerEnds, HandlerReturns
  <2>2. Left' = Left
    BY <1>1, LeftReturns DEF HandlerEnds
  <2> QED
    BY <2>1, <2>2 DEF Started, InHandler, Rest
<1>4. CASE sending = "no"
  <2>1. /\ Left \in Int /\ posts \in Int /\ Rest \in Int /\ Rest >= 0 /\ Spare \in Int
        /\ Rest' \in Int /\ Rest' <= Rest
    BY <1>1, <1>3, Numbers DEF Ranges
  <2>2. Left' + posts' <= (Left + posts) - 0
    BY <1>2, <1>3, <2>1
  <2>3. Rest' + Spare' <= (Rest + Spare) - 0
    BY <1>2, <2>1, SumLess, Zenon
  <2>4. (Rest + Spare) - 0 = (Rest + Spare) + (IF 0 = 1 THEN Brief ELSE 0)
    BY <2>1
  <2>5. Rest' + Spare' <= (Rest + Spare) + (IF 0 = 1 THEN Brief ELSE 0)
    BY <2>3, <2>4, Zenon
  <2> QED
    BY <1>2, <1>3, <1>4, <2>2, <2>5, PhaseKept
<1>5. CASE sending = "data"
  <2>1. command = "done" /\ posts = 0 /\ unfed <= busy
    BY <1>1, <1>3, <1>5 DEF Course, Ranges, FedInv, Phase
  <2>2. /\ unfed - Block \in Int /\ unfed - Block <= 0
        /\ Left \in Int /\ Left + 1 <= N + 1 /\ Spare \in Int /\ Spare <= 1
        /\ quiet \in Int /\ quiet <= Gap
    BY <1>1, <1>3, <2>1, Numbers DEF Ranges
  <2>3. Claim(unfed - Block, Left, Spare, quiet) <= Claim(0, Left, Spare, quiet)
    BY <2>2, ClaimFewerTicks
  <2>4. Claim(0, Left, Spare, quiet) <= Budget(N + 1)
    BY <2>2, ClaimFresh, Numbers
  <2>5. /\ Claim(unfed - Block, Left, Spare, quiet) \in Int
        /\ Claim(0, Left, Spare, quiet) \in Int /\ Budget(N + 1) \in Int
    <3>1. 0 \in Int /\ N + 1 \in Int
      BY Numbers
    <3> QED
      BY <2>2, <3>1, ClaimInt, BudgetInt, Zenon
  <2>6. Claim(unfed - Block, Left, Spare, quiet) <= Budget(N + 1)
    BY <2>3, <2>4, <2>5
  <2>7. Left' + posts' = Left /\ Rest' + Spare' = Spare
    BY <1>2, <1>3, <2>1, <2>2
  <2>8. Claimed(unfed - Block)' = Claim(unfed - Block, Left, Spare, quiet)
    BY <1>2, <2>7 DEF Claimed
  <2> QED
    BY <1>2, <2>1, <2>6, <2>8 DEF Phase
<1>6. sending \in {"no", "header", "data"}
  BY <1>1, TypeParts DEF CourseInv, Timing
<1> QED
  BY <1>2, <1>4, <1>5, <1>6

LEMMA PhaseSend ==
    ASSUME FedInv, CourseInv', SendHeader \/ SendData \/ GoRound
    PROVE  Phase'
<1>1. CourseInv /\ RingInv /\ Ranges /\ Ranges' /\ Course /\ Phase
  BY FedRanges, FedRangesNext DEF FedInv, CourseInv
<1>2. CASE SendHeader
  <2>1. /\ Started /\ command = "received" /\ busy = 0 /\ sending = "no" /\ InHandler
        /\ pc # "advance" /\ sending' = "header" /\ command' = "done"
        /\ unfed' = unfed /\ busy' = busy
    BY <1>1, <1>2 DEF SendHeader, Course, Started, InHandler, timing
  <2>2. Rest = Brief
    BY <2>1, Numbers DEF Rest
  <2>3. Claimed(unfed) <= Budget(N + 2)
    BY <1>1, <2>1 DEF Phase
  <2>4. /\ Left + posts \in Nat /\ Rest + Spare \in Nat /\ Rest + Spare >= Brief
        /\ quiet \in Nat /\ unfed \in Int /\ N + 1 \in Int /\ (N + 1) + 1 = N + 2
    BY <1>1, <2>2, Numbers DEF Ranges
  <2>5. Rate * unfed <= Budget(N + 1)
    <3>1. Claim(unfed, Left + posts, Rest + Spare, quiet) <= Budget((N + 1) + 1)
      BY <2>3, <2>4 DEF Claimed
    <3> QED
      BY <2>4, <3>1, ClaimSpent
  <2>6. unfed' - busy' = unfed
    BY <2>1, <2>4
  <2> QED
    BY <2>1, <2>5, <2>6 DEF Phase
<1>3. CASE SendData
  <2>1. /\ command' = "done" /\ sending' = "data" /\ unfed' = 0 /\ busy' \in Nat
    BY <1>1, <1>3 DEF SendData, Course, Ranges
  <2> QED
    BY <2>1 DEF Phase
<1>4. CASE GoRound
  <2>1. /\ pc = "idle" /\ pc' = "idle" /\ ~HasWork /\ unfed' = 0 /\ round' = TRUE
        /\ UNCHANGED <<head, tail, is_empty, caller, busy, quiet, posts, sending>>
        /\ command' = (IF command = "done" THEN "none" ELSE command)
    BY <1>4 DEF GoRound, vars
  <2>2. Left' = 0
    BY <1>1, <2>1, CountRange DEF Left, Count, Taken, InHandler
  <2>3. Rest' = 0 /\ Spare' = 1 /\ sending' = "no"
    BY <1>1, <2>1 DEF Rest, Spare, InHandler, Course
  <2>4. /\ posts \in Int /\ quiet \in Int /\ quiet <= Gap
        /\ command' # "received" => posts + 1 <= N + 1
        /\ posts + 1 <= N + 2
    BY <1>1, <2>1, Numbers DEF Ranges, Course
  <2>5. /\ command' # "received" => Claim(0, posts, 1, quiet) <= Budget(N + 1)
        /\ Claim(0, posts, 1, quiet) <= Budget(N + 2)
    BY <2>4, ClaimFresh, Numbers
  <2>6. Left' + posts' = posts /\ Rest' + Spare' = 1
    BY <2>1, <2>2, <2>3, <2>4
  <2>7. Claimed(unfed)' = Claim(0, posts, 1, quiet)
    BY <2>1, <2>6 DEF Claimed
  <2>8. command' # "done"
    BY <2>1
  <2> QED
    BY <2>3, <2>5, <2>7, <2>8 DEF Phase
<1> QED
  BY <1>2, <1>3, <1>4

LEMMA PhaseTick ==
    ASSUME FedInv, CourseInv', Tick
    PROVE  Phase'
<1>1. CourseInv /\ RingInv /\ Ranges /\ Ranges' /\ Course /\ Phase
  BY FedRanges, FedRangesNext DEF FedInv, CourseInv
<1>2. /\ UNCHANGED <<head, tail, is_empty, pc, caller, command, posts, sending>>
      /\ unfed' = unfed + 1 /\ round' = FALSE /\ quiet' \in {quiet, quiet + 1}
      /\ pc \in {"handler", "idle"} /\ Started
  BY DEF Tick, vars, answer, Started
<1>3. Left' = Left /\ Spare' = 0
  BY <1>2 DEF Left, Count, Taken, InHandler, Spare
<1>4. /\ Left + posts \in Int /\ Rest + Spare \in Int /\ quiet \in Int /\ quiet' \in Int
      /\ unfed \in Int /\ unfed - Block \in Int /\ Rest \in Int /\ Rest' \in Int
      /\ N + 1 \in Int /\ N + 2 \in Int
  BY <1>1, Numbers DEF Ranges
<1>5. CASE sending = "no"
  <2>1. Rest' <= (Rest + Spare) - 1
    <3>1. CASE pc = "handler"
      <4>1. Rest = Brief - busy /\ busy' = busy + 1 /\ Rest' = Brief - (busy + 1)
        BY <1>2, <1>5, <3>1 DEF Tick, Rest, InHandler
      <4>2. busy \in Int /\ Brief \in Int /\ Spare \in {0, 1}
        BY <1>1, Numbers DEF Ranges
      <4>3. Brief - (busy + 1) <= ((Brief - busy) + Spare) - 1
        BY <4>2
      <4> QED
        BY <4>1, <4>3, Zenon
    <3>2. CASE pc = "idle"
      <4>1. Rest' = 0 /\ Rest = 0 /\ Spare = 1
        BY <1>2, <3>2 DEF Tick, Rest, Spare, InHandler
      <4>2. 0 <= (0 + 1) - 1
        OBVIOUS
      <4> QED
        BY <4>1, <4>2, Zenon
    <3> QED
      BY <1>2, <3>1, <3>2
  <2>2. ASSUME NEW u \in Int, NEW n \in Int, Claimed(u) <= Budget(n)
        PROVE  Claim(u + 1, Left + posts, Rest', quiet') <= Budget(n)
    <3>1. Claim(u + 1, Left + posts, Rest', quiet') <= Claim(u, Left + posts, Rest + Spare, quiet)
      BY <1>2, <1>4, <2>1, ClaimTicks
    <3>2. u + 1 \in Int
      OBVIOUS
    <3>3. /\ Claim(u + 1, Left + posts, Rest', quiet') \in Int
          /\ Claim(u, Left + posts, Rest + Spare, quiet) \in Int
          /\ Budget(n) \in Int
      BY <1>4, <3>2, ClaimInt, BudgetInt, Zenon
    <3>4. \A a, b, c \in Int : a <= b /\ b <= c => a <= c
      OBVIOUS
    <3> QED
      BY <2>2, <3>1, <3>3, <3>4, Zenon DEF Claimed
  <2>3. Left' + posts' = Left + posts /\ Rest' + Spare' = Rest'
    <3>1. \A a \in Int : a + 0 = a
      OBVIOUS
    <3> QED
      BY <1>2, <1>3, <1>4, <3>1, Zenon
  <2>4. unfed' - Block = (unfed - Block) + 1
    BY <1>1, <1>2, Numbers DEF Ranges
  <2>5. /\ Claimed(unfed)' = Claim(unfed + 1, Left + posts, Rest', quiet')
        /\ Claimed(unfed - Block)' = Claim((unfed - Block) + 1, Left + posts, Rest', quiet')
    BY <1>2, <2>3, <2>4 DEF Claimed
  <2> QED
    BY <1>1, <1>2, <1>4, <1>5, <2>2, <2>5 DEF Phase
<1>6. CASE sending # "no"
  <2>1. command = "done" /\ pc = "handler" /\ busy' = busy + 1
    BY <1>1, <1>6 DEF Course, Tick
  <2>2. busy \in Int
    BY <1>1 DEF Ranges
  <2>3. unfed' - busy' = unfed - busy /\ (unfed <= busy => unfed' <= busy')
    <3>1. (unfed + 1) - (busy + 1) = unfed - busy /\ (unfed <= busy => unfed + 1 <= busy + 1)
      BY <1>4, <2>2
    <3> QED
      BY <1>2, <2>1, <3>1, Zenon
  <2> QED
    BY <1>1, <1>2, <1>6, <2>1, <2>3 DEF Phase
<1> QED
  BY <1>5, <1>6

LEMMA PhaseInterrupt ==
    ASSUME FedInv, CourseInv', Interrupt
    PROVE  Phase'
<1>1. CourseInv /\ RingInv /\ Ranges /\ Ranges' /\ Course /\ Phase
  BY FedRanges, FedRangesNext DEF FedInv, CourseInv
<1>2. /\ quiet = Gap /\ quiet' = 0 /\ UNCHANGED <<pc, caller, round, busy, sending>>
      /\ Rest' = Rest /\ Spare' = Spare /\ (Started' <=> Started) /\ (InHandler' <=> InHandler)
  <2>1. quiet = Gap /\ quiet' = 0 /\ UNCHANGED <<pc, caller, round, busy, sending>>
    BY DEF Interrupt, IrqPut, Refuse, vars
  <2> QED
    BY <2>1 DEF Rest, Spare, Started, InHandler
<1>3. Left' <= Left + 1
  BY <1>1, LeftInterrupt DEF Interrupt
<1>4. /\ Left \in Int /\ Left' \in Int /\ posts \in Int /\ Left + posts \in Int
      /\ Left' + posts \in Int
      /\ Rest + Spare \in Int /\ unfed \in Int /\ unfed - Block \in Int
      /\ N + 1 \in Int /\ N + 2 \in Int /\ 0 \in Int /\ Gap \in Int
  BY <1>1, Numbers DEF Ranges
<1>5. CASE UNCHANGED <<command, posts, unfed>>
  <2>1. ASSUME NEW u \in Int
        PROVE  /\ Claim(u, Left' + posts, Rest + Spare, 0) <= Claimed(u)
               /\ Claim(u, Left' + posts, Rest + Spare, 0) \in Int /\ Claimed(u) \in Int
    <3>1. Left' + posts <= (Left + posts) + 1
      <4>1. \A a, b, c \in Int : a <= b + 1 => a + c <= (b + c) + 1
        OBVIOUS
      <4> QED
        BY <1>3, <1>4, <4>1, Zenon
    <3>2. Claim(u, Left' + posts, Rest + Spare, 0) <= Claim(u, Left + posts, Rest + Spare, Gap)
      BY <1>4, <3>1, ClaimInterrupt, Zenon
    <3>3. /\ Claim(u, Left' + posts, Rest + Spare, 0) \in Int
          /\ Claim(u, Left + posts, Rest + Spare, Gap) \in Int
      BY <1>4, ClaimInt, Zenon
    <3> QED
      BY <1>2, <3>2, <3>3, Zenon DEF Claimed
  <2>2. /\ Claimed(unfed)' = Claim(unfed, Left' + posts, Rest + Spare, 0)
        /\ Claimed(unfed - Block)' = Claim(unfed - Block, Left' + posts, Rest + Spare, 0)
    BY <1>2, <1>5 DEF Claimed
  <2>3. /\ Claimed(unfed)' <= Claimed(unfed) /\ Claimed(unfed)' \in Int
        /\ Claimed(unfed) \in Int
        /\ Claimed(unfed - Block)' <= Claimed(unfed - Block)
        /\ Claimed(unfed - Block)' \in Int /\ Claimed(unfed - Block) \in Int
    BY <1>4, <2>1, <2>2
  <2>4. Budget(N + 1) \in Int /\ Budget(N + 2) \in Int
    BY <1>4, BudgetInt
  <2>5. \A a, b, c \in Int : a <= b /\ b <= c => a <= c
    OBVIOUS
  <2>6. CASE Started
    <3>1. command' = "none" => Claimed(unfed)' <= Budget(N + 1)
      BY <1>1, <1>5, <2>3, <2>4, <2>5, <2>6, Zenon DEF Phase
    <3>2. command' = "received" => Claimed(unfed)' <= Budget(N + 2)
      BY <1>1, <1>5, <2>3, <2>4, <2>5, <2>6, Zenon DEF Phase
    <3>3. command' = "done" /\ sending' = "no" => Claimed(unfed - Block)' <= Budget(N + 1)
      BY <1>1, <1>2, <1>5, <2>3, <2>4, <2>5, <2>6, Zenon DEF Phase
    <3>4. /\ sending' = "header" => Rate * (unfed' - busy') <= Budget(N + 1)
          /\ sending' = "data" => unfed' <= busy'
      BY <1>1, <1>2, <1>5, <2>6, Zenon DEF Phase
    <3> QED
      BY <3>1, <3>2, <3>3, <3>4 DEF Phase
  <2> QED
    BY <1>2, <2>6 DEF Phase
<1>6. CASE command = "none" /\ command' = "received" /\ posts' = 2 /\ unfed' = 0
  <2>1. sending' = "no"
    BY <1>1, <1>2, <1>6 DEF Course
  <2>2. Claim(0, Left' + 2, Rest + Spare, 0) <= Budget(N + 2)
    <3>1. CASE InHandler
      <4>1. Left' <= N - 1
        BY <1>1, <1>2, <3>1 DEF Ranges
      <4>2. Rest + Spare <= Brief + 1
        BY <1>1, Numbers DEF Ranges
      <4> QED
        BY <1>4, <4>1, <4>2, ClaimCommand, Zenon
    <3>2. CASE ~InHandler
      <4>1. Left' <= N
        BY <1>1 DEF Ranges
      <4>2. Rest + Spare <= 1
        BY <1>1, <3>2 DEF Rest, Ranges
      <4> QED
        BY <1>4, <4>1, <4>2, ClaimCommand, Zenon
    <3> QED
      BY <3>1, <3>2
  <2>3. Claimed(unfed)' = Claim(0, Left' + 2, Rest + Spare, 0)
    BY <1>2, <1>6 DEF Claimed
  <2> QED
    BY <1>6, <2>1, <2>2, <2>3 DEF Phase
<1> QED
  BY <1>5, <1>6 DEF Interrupt

LEMMA FedStep == FedInv /\ [LoopNext]_loopVars => FedInv'
<1> SUFFICES ASSUME FedInv, [LoopNext]_loopVars PROVE FedInv'
  OBVIOUS
<1>1. CourseInv'
  BY CourseStep DEF FedInv
<1>2. CASE UNCHANGED loopVars
  BY <1>1, <1>2 DEF FedInv, Phase, Claimed, Left, Rest, Spare, Count, Taken, InHandler,
     Started, loopVars, vars
<1>3. CASE LoopNext
  <2>1. Phase'
    BY <1>1, <1>3, PhaseRun, PhasePost, PhaseHandlerEnds, PhaseSend, PhaseTick,
       PhaseInterrupt DEF LoopNext
  <2> QED
    BY <1>1, <2>1 DEF FedInv
<1> QED
  BY <1>2, <1>3

\* A main loop that is alive is never taken for dead: while events are executed faster
\* than they come in, the loop or the response feeds the watchdog before its timeout,
\* whatever the size of the ring and the times of the environment.
THEOREM AlwaysFed == LoopSpec => []WatchdogFed
<1>1. FedInv => WatchdogFed
  <2> SUFFICES ASSUME FedInv PROVE unfed < WATCHDOG_TIMEOUT
    BY DEF WatchdogFed
  <2>1. CourseInv /\ Ranges /\ Boot /\ Phase /\ Timing /\ unfed \in Int
    BY FedRanges, TypeParts DEF FedInv, CourseInv, Ranges
  <2>2. ASSUME NEW u \in Int, NEW n \in Int, Claimed(u) <= Budget(n)
        PROVE  Rate * u <= Budget(n)
    <3>1. Left + posts \in Nat /\ Rest + Spare \in Nat /\ quiet \in Nat
      BY <2>1, Numbers DEF Ranges
    <3>2. Rate * u <= Claimed(u)
      BY <3>1, ClaimSpent DEF Claimed
    <3>3. Claimed(u) \in Int /\ Rate * u \in Int /\ Budget(n) \in Int
      <4>1. Left + posts \in Int /\ Rest + Spare \in Int /\ quiet \in Int
        BY <3>1
      <4>2. Claimed(u) \in Int
        BY <4>1, ClaimInt DEF Claimed
      <4>3. Rate * u \in Int
        BY Factors, Numbers
      <4> QED
        BY <4>2, <4>3, BudgetInt
    <3> QED
      BY <2>2, <3>2, <3>3
  <2>3. N + 1 \in Int /\ N + 2 \in Int /\ unfed - Block \in Int /\ unfed - busy \in Int
        /\ busy <= Block /\ busy \in Int /\ Block \in Int /\ WATCHDOG_TIMEOUT \in Int
    BY <2>1, Numbers DEF Ranges
  <2>4. Block < WATCHDOG_TIMEOUT
    <3>1. Brief * (N + 1) >= 0 /\ Brief * (N + 1) \in Int
      BY Factors, Numbers
    <3>2. Gap * (Brief * (N + 1) + 1) >= 0
      BY <3>1, Factors, Numbers
    <3>3. Rate * 0 <= Budget(N + 1)
      BY <3>2, Factors, Numbers DEF Budget
    <3>4. 0 + Block < WATCHDOG_TIMEOUT
      BY <3>3, WithinTimeout
    <3> QED
      BY <2>3, <3>4
  <2>5. CASE ~Started
    BY <2>1, <2>3, <2>4, <2>5, Numbers DEF Boot
  <2>6. CASE Started /\ command = "none"
    BY <2>1, <2>2, <2>3, <2>6, WithinTimeout, Numbers DEF Phase
  <2>7. CASE Started /\ command = "received"
    BY <2>1, <2>2, <2>3, <2>7, WithinTimeout DEF Phase
  <2>8. CASE Started /\ sending = "header"
    <3>1. Rate * (unfed - busy) <= Budget(N + 1)
      BY <2>1, <2>8 DEF Phase
    <3>2. (unfed - busy) + Block < WATCHDOG_TIMEOUT
      BY <2>3, <3>1, WithinTimeout
    <3> QED
      BY <2>1, <2>3, <3>2
  <2>9. CASE Started /\ sending = "data"
    BY <2>1, <2>3, <2>4, <2>9 DEF Phase
  <2>10. CASE Started /\ command = "done" /\ sending = "no"
    <3>1. Rate * (unfed - Block) <= Budget(N + 1)
      BY <2>1, <2>2, <2>3, <2>10 DEF Phase
    <3>2. (unfed - Block) + Block < WATCHDOG_TIMEOUT
      BY <2>3, <3>1, WithinTimeout
    <3> QED
      BY <2>1, <2>3, <3>2
  <2> QED
    BY <2>1, <2>5, <2>6, <2>7, <2>8, <2>9, <2>10 DEF Timing
<1> QED
  BY <1>1, FedInit, FedStep, PTL DEF LoopSpec
=============================================================================
