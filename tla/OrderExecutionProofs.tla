------------------------- MODULE OrderExecutionProofs -------------------------
(***************************************************************************)
(* Theorems of OrderExecution, for every value of its constants.           *)
(*                                                                         *)
(* IInv is the inductive invariant behind all of them: the types, that a    *)
(* submission waiting for an order has the order's step at the head of its  *)
(* plan, and that whoever has acquired carries the id it drew, which is not *)
(* the 0 of an idle lock.  JournalInv relates the rows of the journal to the *)
(* orders in both directions; RoomInv and BreakerInv say that a failing run  *)
(* of appends is the one the breaker counted.                               *)
(***************************************************************************)
EXTENDS OrderExecution, SequenceTheorems, FiniteSetTheorems, TLAPS

StepPending == orch.pc \in {"confirm", "settle", "reflect"} => orch.plan # <<>>

ExecsDrawn ==
  /\ Submitted => orch.exec # 0
  /\ \A c \in Closers : closer[c].pc = "stabilise" => closer[c].exec # 0

IInv == TypeOK /\ StepPending /\ ExecsDrawn

-----------------------------------------------------------------------------
(* The operators the actions are built from.                               *)

(* The size of a position is a natural number.                             *)
LEMMA SizeType == \A p \in Int : Size(p) \in Nat
  BY SMT DEF Size

(* Whatever the policy decides, its target is a target.                    *)
LEMMA DecisionType ==
  ASSUME NEW i \in PolicyIntents, NEW n
  PROVE  EvaluateIntent(i, n).target \in Targets
<1>1. CASE i.type = "EMERGENCY"
  BY <1>1 DEF EvaluateIntent, Decision, Targets
<1>2. CASE i.type # "EMERGENCY" /\ ~ ValidIntent(i)
  BY <1>2 DEF EvaluateIntent, Decision, Targets
<1>3. CASE i.type # "EMERGENCY" /\ ValidIntent(i)
  <2>1. MapIntentToTarget(i) \in Targets
    BY <1>3, PolicyAssumption DEF MapIntentToTarget, Targets, PolicyIntents, HoldingSides, FloorToStep
  <2>2. EvaluateIntent(i, n).target \in {NoTarget, MapIntentToTarget(i)}
    BY <1>3 DEF EvaluateIntent, Decision
  <2> QED BY <2>1, <2>2 DEF Targets
<1> QED BY <1>1, <1>2, <1>3

(* The list the planner reads is a list of entries.                        *)
LEMMA PositionsType ==
  ASSUME NEW p \in Int
  PROVE  Positions(p) \in Seq([symbol : Symbols, side : HoldingSides, size : Nat])
<1>1. CASE p = 0
  BY <1>1 DEF Positions
<1>2. CASE p # 0
  <2>1. NetOf(p).side \in HoldingSides
    BY <1>2 DEF NetOf, HoldingSides
  <2> QED BY <1>2, <2>1, SizeType, OrderAssumption DEF Positions
<1> QED BY <1>1, <1>2

(* A plan the planner does not fail on is a sequence of steps.             *)
LEMMA PlanType ==
  ASSUME NEW positions \in Seq([symbol : Symbols, side : HoldingSides, size : Nat]),
         NEW t \in Targets, ~ PlanFails(positions, t)
  PROVE  BuildPlan(positions, t) \in Seq(PlanSteps)
<1> DEFINE side  == ParseTargetSide(t)
           close == IF positions = <<>> THEN <<>> ELSE <<StepClose(Head(positions))>>
           open  == IF side = "FLAT" THEN <<>>
                    ELSE <<StepOpen(side, t.qty, PlanSymbol(positions, t))>>
<1>1. t \in [symbol : Symbols, side : HoldingSides \cup {"FLAT"}, qty : Nat]
  BY DEF PlanFails, Targets
<1>2. positions # <<>> => Head(positions) \in [symbol : Symbols, side : HoldingSides, size : Nat]
  BY HeadTailProperties
<1>3. close \in Seq(PlanSteps)
  <2>1. CASE positions = <<>>
    BY <2>1
  <2>2. CASE positions # <<>>
    <3>1. StepClose(Head(positions)) \in PlanSteps
      BY <1>2, <2>2 DEF StepClose, PlanSteps, Actions
    <3> QED BY <2>2, <3>1
  <2> QED BY <2>1, <2>2
<1>4. PlanSymbol(positions, t) \in Symbols
  BY <1>1, <1>2 DEF PlanSymbol
<1>5. open \in Seq(PlanSteps)
  <2>1. CASE side = "FLAT"
    BY <2>1
  <2>2. CASE side # "FLAT"
    <3>1. side \in HoldingSides
      BY <1>1, <2>2 DEF ParseTargetSide
    <3>2. StepOpen(side, t.qty, PlanSymbol(positions, t)) \in PlanSteps
      BY <1>1, <1>4, <3>1 DEF StepOpen, PlanSteps, Actions
    <3> QED BY <2>2, <3>2
  <2> QED BY <2>1, <2>2
<1>6. BuildPlan(positions, t) = close \o open
  BY DEF BuildPlan
<1> HIDE DEF close, open
<1> QED BY <1>3, <1>5, <1>6, ConcatProperties

(* Removing an element keeps a sequence one of its set.                    *)
LEMMA WithoutType ==
  ASSUME NEW S, NEW s \in Seq(S), NEW i \in DOMAIN s
  PROVE  Without(s, i) \in Seq(S)
<1>1. i \in 1 .. Len(s) /\ Len(s) \in Nat
  OBVIOUS
<1>2. SubSeq(s, 1, i - 1) \in Seq(S)
  BY <1>1, SubSeqProperties
<1>3. SubSeq(s, i + 1, Len(s)) \in Seq(S)
  BY <1>1, SubSeqProperties
<1> QED BY <1>2, <1>3, ConcatProperties DEF Without

-----------------------------------------------------------------------------
(* Every action preserves IInv.                                            *)

(* The initial states satisfy IInv.                                        *)
LEMMA InitIInv == Init => IInv
<1> SUFFICES ASSUME Init PROVE IInv
  OBVIOUS
<1> USE OrderAssumption DEF Init
<1>1. SupTypeOK /\ LockTypeOK
  BY DEF SupTypeOK, LockTypeOK, LockType, WindowType, Statuses
<1>2. OrchTypeOK
  BY DEF OrchTypeOK, IdleOrch, Targets, Awaiting
<1>3. HandTypeOK
  BY DEF HandTypeOK, NoCloser
<1>4. BookTypeOK
  BY DEF BookTypeOK
<1>5. LogTypeOK
  BY DEF LogTypeOK
<1>6. StepPending /\ ExecsDrawn
  BY DEF StepPending, ExecsDrawn, Submitted, IdleOrch, NoCloser
<1> QED BY <1>1, <1>2, <1>3, <1>4, <1>5, <1>6 DEF IInv, TypeOK

(* A step that only moves the submission on.                               *)
LEMMA PcOnly ==
  ASSUME IInv, NEW pc \in Awaiting \cup Held, Goto(pc),
         pc \in {"confirm", "settle", "reflect"} => orch.plan # <<>>,
         pc \in {"idle", "wait"} \/ Submitted,
         UNCHANGED <<lockVars, supVars, bookVars, logVars, handVars, failures, local>>
  PROVE  IInv'
<1> USE DEF IInv, lockVars, supVars, bookVars, logVars, handVars
<1>1. OrchTypeOK'
  BY DEF TypeOK, OrchTypeOK, Goto
<1>2. TypeOK'
  BY <1>1 DEF TypeOK, SupTypeOK, LockTypeOK, HandTypeOK, BookTypeOK, LogTypeOK
<1>3. StepPending' /\ ExecsDrawn'
  BY DEF Goto, StepPending, ExecsDrawn, Submitted, TypeOK, OrchTypeOK
<1> QED BY <1>2, <1>3

(* A step that ends the submission.                                        *)
LEMMA ToIdle ==
  ASSUME IInv, orch' = IdleOrch, failures' \in Nat,
         SupTypeOK', LockTypeOK', LogTypeOK',
         UNCHANGED <<bookVars, handVars, local>>
  PROVE  IInv'
<1> USE DEF IInv, bookVars, handVars
<1>1. OrchTypeOK'
  BY DEF OrchTypeOK, IdleOrch, Targets, Awaiting
<1>2. HandTypeOK' /\ BookTypeOK'
  BY DEF TypeOK, HandTypeOK, BookTypeOK
<1>3. StepPending' /\ ExecsDrawn'
  BY DEF IdleOrch, StepPending, ExecsDrawn, Submitted
<1> QED BY <1>1, <1>2, <1>3 DEF TypeOK

(* The polls and checks between the effects of a submission.               *)
LEMMA PollsPreserve ==
  ASSUME IInv,
         \/ Submit \/ StepsOver \/ StepRefused \/ ConfirmPoll \/ ConfirmRaises
         \/ NotYetReflected \/ VerifyRaises
  PROVE  IInv'
<1> USE DEF Awaiting, Held, Submitted
<1>1. CASE Submit
  BY <1>1, PcOnly DEF Submit
<1>2. CASE StepsOver
  BY <1>2, PcOnly DEF StepsOver
<1>3. CASE StepRefused
  BY <1>3, PcOnly DEF StepRefused
<1>4. CASE ConfirmPoll
  BY <1>4, PcOnly DEF ConfirmPoll, IInv, StepPending
<1>5. CASE ConfirmRaises
  BY <1>5, PcOnly DEF ConfirmRaises
<1>6. CASE NotYetReflected
  BY <1>6, PcOnly DEF NotYetReflected, IInv, StepPending
<1>7. CASE VerifyRaises
  BY <1>7, PcOnly DEF VerifyRaises
<1> QED BY <1>1, <1>2, <1>3, <1>4, <1>5, <1>6, <1>7

(* TurnAway preserves IInv.                                                *)
LEMMA TurnAwayPreserves ==
  ASSUME IInv, NEW i \in PolicyIntents, TurnAway(i)
  PROVE  IInv'
<1>1. SupTypeOK'
  BY DEF TurnAway, IInv, TypeOK, SupTypeOK, Statuses
<1>2. LockTypeOK' /\ LogTypeOK' /\ failures' \in Nat
  BY DEF TurnAway, IInv, TypeOK, LockTypeOK, LogTypeOK, OrchTypeOK, lockVars, logVars
<1> QED BY <1>1, <1>2, ToIdle DEF TurnAway

(* Busy preserves IInv.                                                    *)
LEMMA BusyPreserves ==
  ASSUME IInv, Busy
  PROVE  IInv'
<1>1. SupTypeOK' /\ LockTypeOK' /\ LogTypeOK' /\ failures' \in Nat
  BY DEF Busy, IInv, TypeOK, SupTypeOK, LockTypeOK, LogTypeOK, OrchTypeOK,
         supVars, lockVars, logVars
<1> QED BY <1>1, ToIdle DEF Busy

(* Taking the lock, with or without opening the window.                    *)
LEMMA AcquiredType ==
  ASSUME LockTypeOK, lastExec' = lastExec + 1, lock' = Acquired(lastExec + 1),
         window' \in {window, OpenedFor(lastExec + 1)}
  PROVE  LockTypeOK'
  BY DEF LockTypeOK, LockType, WindowType, Acquired, OpenedFor, ActivePhases

(* Rows added to an execution leave a journal.                             *)
LEMMA JournalType ==
  ASSUME NEW j \in [Execs -> Seq(Events)], NEW e, NEW rows \in Seq(Events)
  PROVE  [j EXCEPT ![e] = @ \o rows] \in [Execs -> Seq(Events)]
<1> SUFFICES ASSUME e \in Execs
             PROVE  j[e] \o rows \in Seq(Events)
  OBVIOUS
<1> QED BY ConcatProperties

(* So does one row.                                                        *)
LEMMA AppendedType ==
  ASSUME NEW j \in [Execs -> Seq(Events)], NEW e, NEW row \in Events
  PROVE  [j EXCEPT ![e] = Append(@, row)] \in [Execs -> Seq(Events)]
<1> SUFFICES ASSUME e \in Execs
             PROVE  Append(j[e], row) \in Seq(Events)
  OBVIOUS
<1> QED BY AppendProperties

(* An append that raises.                                                  *)
LEMMA FaultType ==
  ASSUME LogTypeOK, AppendRaises
  PROVE  LogTypeOK'
  BY OrderAssumption DEF LogTypeOK, AppendRaises

(* An append that writes its row.                                          *)
LEMMA RowType ==
  ASSUME LogTypeOK, NEW row \in Events, Append1(row)
  PROVE  LogTypeOK'
<1>1. journal' = [journal EXCEPT ![orch.exec] = Append(@, row)] /\ faults' = faults
  BY DEF Append1
<1>2. [journal EXCEPT ![orch.exec] = Append(@, row)] \in [Execs -> Seq(Events)]
  BY AppendedType DEF LogTypeOK
<1> QED BY <1>1, <1>2 DEF LogTypeOK

(* Begin preserves IInv.                                                   *)
LEMMA BeginPreserves ==
  ASSUME IInv, NEW i \in PolicyIntents, Begin(i)
  PROVE  IInv'
<1> DEFINE d == EvaluateIntent(i, NetOf(local))
<1>1. SupTypeOK' /\ failures' \in Nat
  BY DEF Begin, IInv, TypeOK, SupTypeOK, OrchTypeOK, supVars
<1>2. LockTypeOK'
  <2>1. LockTypeOK /\ lastExec' = lastExec + 1 /\ lock' = Acquired(lastExec + 1)
        /\ window' \in {window, OpenedFor(lastExec + 1)}
    BY DEF Begin, IInv, TypeOK
  <2> QED BY <2>1, AcquiredType
<1>3. CASE orch' = IdleOrch
  <2>1. LogTypeOK'
    BY <1>3, FaultType, OrderAssumption DEF Begin, IInv, TypeOK, LogTypeOK, logVars, IdleOrch, Execs, Events
  <2> QED BY <1>1, <1>2, <1>3, <2>1, ToIdle DEF Begin
<1>4. CASE orch' # IdleOrch
  <2>1. orch' = [pc |-> "plan", exec |-> lastExec + 1, target |-> d.target, plan |-> <<>>]
        /\ journal' = [journal EXCEPT ![lastExec + 1] = <<"STARTED">>]
        /\ UNCHANGED faults
    BY <1>4 DEF Begin
  <2>2. d.target \in Targets
    BY DecisionType
  <2>3. OrchTypeOK'
    BY <1>1, <2>1, <2>2 DEF OrchTypeOK, Held, IInv, TypeOK, LockTypeOK
  <2>4. <<"STARTED">> \in Seq(Events)
    BY DEF Events
  <2>5. LogTypeOK'
    BY <2>1, <2>4 DEF IInv, TypeOK, LogTypeOK
  <2>6. HandTypeOK' /\ BookTypeOK'
    BY DEF Begin, IInv, TypeOK, HandTypeOK, BookTypeOK, handVars, bookVars
  <2>7. StepPending' /\ ExecsDrawn'
    BY <2>1 DEF Begin, IInv, TypeOK, LockTypeOK, StepPending, ExecsDrawn, Submitted, handVars
  <2> QED BY <1>1, <1>2, <2>3, <2>5, <2>6, <2>7 DEF IInv, TypeOK
<1> QED BY <1>3, <1>4

(* Plan preserves IInv.                                                    *)
LEMMA PlanPreserves ==
  ASSUME IInv, Plan
  PROVE  IInv'
<1> USE DEF IInv, TypeOK
<1>1. SupTypeOK' /\ HandTypeOK' /\ BookTypeOK' /\ LogTypeOK'
  BY DEF Plan, SupTypeOK, HandTypeOK, BookTypeOK, LogTypeOK,
         supVars, handVars, bookVars, logVars
<1>2. LockTypeOK'
  BY DEF Plan, ExecsDrawn, Submitted, LockTypeOK, LockType, InPhase, Guard, IdleLock,
         ActivePhases
<1>3. CASE orch' = [orch EXCEPT !.pc = "fail"]
  BY <1>1, <1>2, <1>3 DEF Plan, OrchTypeOK, Held, StepPending, ExecsDrawn, Submitted,
     handVars
<1>4. CASE orch' # [orch EXCEPT !.pc = "fail"]
  <2>1. /\ ~ PlanFails(Positions(local), orch.target)
        /\ orch' = [orch EXCEPT !.pc = "step",
                      !.plan = BuildPlan(Positions(local), orch.target)]
        /\ failures' = failures
    BY <1>4 DEF Plan, Goto
  <2>2. BuildPlan(Positions(local), orch.target) \in Seq(PlanSteps)
    BY <2>1, PositionsType, PlanType DEF OrchTypeOK, BookTypeOK
  <2>3. OrchTypeOK'
    BY <2>1, <2>2 DEF OrchTypeOK, Held
  <2>4. StepPending' /\ ExecsDrawn'
    BY <2>1 DEF Plan, OrchTypeOK, StepPending, ExecsDrawn, Submitted, handVars
  <2> QED BY <1>1, <1>2, <2>3, <2>4
<1> QED BY <1>3, <1>4

(* Moving the phase of a lock one holds.                                   *)
LEMMA PhaseType ==
  ASSUME IInv, Submitted, Guard(lock, orch.exec), NEW p \in ActivePhases,
         lock' = InPhase(lock, p), UNCHANGED <<window, lastExec>>
  PROVE  LockTypeOK'
  BY DEF IInv, TypeOK, ExecsDrawn, LockTypeOK, LockType, InPhase, Guard, IdleLock

(* An order answered, lost or refused.                                     *)
LEMMA AcceptType ==
  ASSUME BookTypeOK, NEW e \in Nat, NEW a \in Actions, NEW n \in Int, UNCHANGED local,
         OrderAnswered(e, a, n) \/ OrderRaises(e, a, n)
  PROVE  BookTypeOK'
<1> USE DEF BookTypeOK
<1>1. CASE UNCHANGED bookVars
  BY <1>1 DEF bookVars
<1>2. CASE Accept(e, a, n) /\ (lost' = lost \/ (lost < MaxLost /\ lost' = lost + 1))
  <2>1. working' \in Seq([amount : Int, reduceOnly : BOOLEAN])
    BY <1>2, AppendProperties DEF Accept
  <2>2. orders' \in Seq([exec : Nat, action : OrderKinds])
    BY <1>2, AppendProperties DEF Accept, OrderKinds
  <2>3. exch' \in Int /\ lost' \in 0 .. MaxLost
    BY <1>2, OrderAssumption DEF Accept
  <2> QED BY <2>1, <2>2, <2>3
<1> QED BY <1>1, <1>2 DEF OrderAnswered, OrderRaises

(* The amount a step orders is an integer.                                 *)
LEMMA StepAmountType ==
  ASSUME NEW step \in PlanSteps, local \in Int
  PROVE  StepAmount(step) \in Int
<1>1. StepQty(step) \in Nat
  BY SizeType DEF StepQty, PlanSteps
<1> QED BY <1>1 DEF StepAmount

(* ExecuteStep preserves IInv.                                             *)
LEMMA ExecuteStepPreserves ==
  ASSUME IInv, ExecuteStep
  PROVE  IInv'
<1> DEFINE step == Head(orch.plan)
<1> USE DEF IInv, TypeOK
<1>1. step \in PlanSteps
  BY HeadTailProperties DEF ExecuteStep, OrchTypeOK
<1>2. SupTypeOK' /\ HandTypeOK'
  BY DEF ExecuteStep, SupTypeOK, HandTypeOK, supVars, handVars
<1>3. LockTypeOK'
  <2>1. StepPhase(step) \in ActivePhases
    BY DEF StepPhase, ActivePhases
  <2> QED BY <2>1, PhaseType DEF ExecuteStep, MayExecute, Submitted
<1>4. BookTypeOK'
  <2>1. StepAmount(step) \in Int /\ step.action \in Actions /\ orch.exec \in Nat
    BY <1>1, StepAmountType DEF BookTypeOK, PlanSteps, OrchTypeOK
  <2>2. UNCHANGED local
    BY DEF ExecuteStep
  <2>3. \/ OrderAnswered(orch.exec, step.action, StepAmount(step))
        \/ OrderRaises(orch.exec, step.action, StepAmount(step))
    BY DEF ExecuteStep
  <2> QED BY <2>1, <2>2, <2>3, AcceptType
<1>5. LogTypeOK'
  <2>1. SentEvent(step) \in Events
    BY DEF SentEvent, Events
  <2>2. Append1(SentEvent(step)) \/ AppendRaises \/ UNCHANGED logVars
    BY DEF ExecuteStep
  <2>3. CASE UNCHANGED logVars
    BY <2>3 DEF LogTypeOK, logVars
  <2> QED BY <2>1, <2>2, <2>3, RowType, FaultType
<1>6. orch' \in {[orch EXCEPT !.pc = "confirm"], [orch EXCEPT !.pc = "fail"]}
      /\ failures' = failures /\ orch.plan # <<>> /\ orch.pc = "step" /\ closer' = closer
  BY DEF ExecuteStep, Goto, handVars
<1>7. OrchTypeOK'
  BY <1>6 DEF OrchTypeOK, Awaiting, Held
<1>8. StepPending' /\ ExecsDrawn'
  BY <1>6 DEF OrchTypeOK, StepPending, ExecsDrawn, Submitted
<1> QED BY <1>2, <1>3, <1>4, <1>5, <1>7, <1>8

(* StepConfirmed preserves IInv.                                           *)
LEMMA StepConfirmedPreserves ==
  ASSUME IInv, StepConfirmed
  PROVE  IInv'
<1> USE DEF IInv, TypeOK
<1>1. SupTypeOK' /\ LockTypeOK' /\ HandTypeOK' /\ BookTypeOK'
  BY DEF StepConfirmed, SupTypeOK, LockTypeOK, HandTypeOK, BookTypeOK,
         supVars, lockVars, handVars, bookVars
<1>2. LogTypeOK'
  <2>1. ConfirmedEvent(Head(orch.plan)) \in Events
    BY DEF ConfirmedEvent, Events
  <2> QED BY <2>1, RowType, FaultType DEF StepConfirmed
<1>3. orch.plan # <<>> /\ orch.pc \in {"settle", "reflect"}
      /\ orch' \in {StepDone, [orch EXCEPT !.pc = "fail"]}
      /\ failures' = failures /\ closer' = closer
  BY DEF StepConfirmed, StepPending, Goto, handVars
<1>4. Tail(orch.plan) \in Seq(PlanSteps)
  BY <1>3, HeadTailProperties DEF OrchTypeOK
<1>5. OrchTypeOK'
  BY <1>3, <1>4 DEF OrchTypeOK, StepDone, Held
<1>6. StepPending' /\ ExecsDrawn'
  BY <1>3, <1>4 DEF OrchTypeOK, StepDone, StepPending, ExecsDrawn, Submitted
<1> QED BY <1>1, <1>2, <1>5, <1>6

(* LiveExecutionSystem.restart.                                            *)
LEMMA RestartType ==
  ASSUME SupTypeOK, local \in Int, exch \in Int, NEW looping \in BOOLEAN,
         Restart(looping), sup' \in {"loop", "restarting", "gone"}
  PROVE  SupTypeOK' /\ local' \in Int
<1>1. CASE RestartFails
  BY <1>1 DEF RestartFails, SupTypeOK, Statuses
<1>2. CASE RestartRuns(looping)
  <2>1. PICK r, l \in BOOLEAN :
          LET severity == Severity(Detect(exch, exch, r, l, FALSE), TRUE)
          IN  /\ local' = exch
              /\ status' = CASE severity = "SAFE"        -> "SYNCING"
                             [] severity = "RECOVERABLE" -> "DEGRADED"
                             [] severity = "FATAL"       -> "FROZEN"
              /\ looping = (severity # "FATAL")
              /\ streamFrozen' = (streamFrozen \/ severity = "FATAL")
    BY <1>2 DEF RestartRuns
  <2> DEFINE severity == Severity(Detect(exch, exch, r, l, FALSE), TRUE)
  <2>2. severity \in {"SAFE", "RECOVERABLE", "FATAL"}
    BY DEF Severity
  <2>3. streamFrozen' \in BOOLEAN /\ local' \in Int
    BY <2>1 DEF SupTypeOK
  <2>4. status' \in Statuses
    <3> HIDE DEF severity
    <3>1. CASE severity = "SAFE"
      BY <2>1, <3>1 DEF Statuses, severity
    <3>2. CASE severity = "RECOVERABLE"
      BY <2>1, <3>2 DEF Statuses, severity
    <3>3. CASE severity = "FATAL"
      BY <2>1, <3>3 DEF Statuses, severity
    <3> QED BY <2>2, <3>1, <3>2, <3>3
  <2> QED BY <2>3, <2>4 DEF SupTypeOK
<1> QED BY <1>1, <1>2 DEF Restart

(* mark_closing on any window.                                             *)
LEMMA MarkClosingType ==
  ASSUME LockTypeOK, NEW e \in Nat \ {0}, window' = MarkClosing(window, e),
         UNCHANGED <<lock, lastExec>>
  PROVE  LockTypeOK'
  BY DEF LockTypeOK, MarkClosing, WindowType, ClosedWindow

(* ReconcileRaises preserves IInv.                                         *)
LEMMA ReconcileRaisesPreserves ==
  ASSUME IInv, ReconcileRaises
  PROVE  IInv'
<1> USE DEF IInv, TypeOK
<1>1. LockTypeOK'
  BY MarkClosingType DEF ReconcileRaises, ExecsDrawn, Submitted, OrchTypeOK
<1>2. SupTypeOK' /\ HandTypeOK' /\ BookTypeOK' /\ LogTypeOK'
  BY DEF ReconcileRaises, SupTypeOK, HandTypeOK, BookTypeOK, LogTypeOK,
         supVars, handVars, bookVars, logVars
<1>3. OrchTypeOK' /\ StepPending' /\ ExecsDrawn'
  BY DEF ReconcileRaises, Goto, OrchTypeOK, Held, StepPending, ExecsDrawn, Submitted,
         handVars
<1> QED BY <1>1, <1>2, <1>3

(* Reconcile preserves IInv.                                               *)
LEMMA ReconcilePreserves ==
  ASSUME IInv, Reconcile
  PROVE  IInv'
<1> USE DEF IInv, TypeOK
<1>1. LockTypeOK'
  BY MarkClosingType DEF Reconcile, ExecsDrawn, Submitted, OrchTypeOK
<1>2. HandTypeOK' /\ BookTypeOK' /\ LogTypeOK'
  BY DEF Reconcile, HandTypeOK, BookTypeOK, LogTypeOK, handVars, bookVars, logVars
<1>3. /\ orch' \in {[orch EXCEPT !.pc = "verify"], [orch EXCEPT !.pc = "restarting"]}
      /\ status' \in {status, "READY", "FROZEN"}
      /\ orch.pc = "finalize" /\ UNCHANGED <<streamFrozen, sup, closer, failures>>
  BY DEF Reconcile, Goto, handVars
<1>4. SupTypeOK'
  BY <1>3 DEF SupTypeOK, Statuses
<1>5. OrchTypeOK' /\ StepPending' /\ ExecsDrawn'
  BY <1>3 DEF OrchTypeOK, Held, Awaiting, StepPending, ExecsDrawn, Submitted
<1> QED BY <1>1, <1>2, <1>4, <1>5

(* VerifyRestart preserves IInv.                                           *)
LEMMA VerifyRestartPreserves ==
  ASSUME IInv, VerifyRestart
  PROVE  IInv'
<1> USE DEF IInv, TypeOK
<1>1. PICK looping \in BOOLEAN :
        /\ Restart(looping)
        /\ sup' = IF sup = "restarting" THEN sup ELSE IF looping THEN "loop" ELSE "gone"
  BY DEF VerifyRestart
<1>2. SupTypeOK' /\ local' \in Int
  BY <1>1, RestartType DEF SupTypeOK, BookTypeOK
<1>3. LockTypeOK' /\ HandTypeOK' /\ BookTypeOK' /\ LogTypeOK'
  BY <1>2 DEF VerifyRestart, LockTypeOK, HandTypeOK, BookTypeOK, LogTypeOK,
         lockVars, handVars, bookVars, logVars
<1>4. OrchTypeOK' /\ StepPending' /\ ExecsDrawn'
  BY DEF VerifyRestart, Goto, OrchTypeOK, Held, StepPending, ExecsDrawn, Submitted,
         handVars
<1> QED BY <1>2, <1>3, <1>4

(* Complete preserves IInv.                                                *)
LEMMA CompletePreserves ==
  ASSUME IInv, Complete
  PROVE  IInv'
<1>1. SupTypeOK'
  BY DEF Complete, IInv, TypeOK, SupTypeOK, supVars
<1>2. LockTypeOK'
  BY DEF Complete, Returned, Release, Close, IInv, TypeOK, LockTypeOK, LockType, WindowType
<1>3. LogTypeOK'
  BY RowType, FaultType DEF Complete, Events, IInv, TypeOK
<1> QED BY <1>1, <1>2, <1>3, ToIdle DEF Complete, Returned

(* Mismatch preserves IInv.                                                *)
LEMMA MismatchPreserves ==
  ASSUME IInv, Mismatch
  PROVE  IInv'
<1>1. SupTypeOK'
  BY DEF Mismatch, IInv, TypeOK, SupTypeOK, supVars
<1>2. LockTypeOK'
  BY DEF Mismatch, Returned, Abort, Close, IInv, TypeOK, LockTypeOK, LockType, WindowType
<1>3. LogTypeOK'
  BY RowType, FaultType DEF Mismatch, Events, ExecutionFailed, IInv, TypeOK
<1>4. CASE Returned
  BY <1>1, <1>2, <1>3, <1>4, ToIdle DEF Mismatch, Returned
<1>5. CASE Goto("fail") /\ UNCHANGED failures
  <2>1. OrchTypeOK' /\ StepPending' /\ ExecsDrawn'
    BY <1>5 DEF Mismatch, Goto, IInv, TypeOK, OrchTypeOK, Held, StepPending, ExecsDrawn,
           Submitted, handVars
  <2>2. HandTypeOK' /\ BookTypeOK'
    BY DEF Mismatch, IInv, TypeOK, HandTypeOK, BookTypeOK, handVars, bookVars
  <2> QED BY <1>1, <1>2, <1>3, <2>1, <2>2 DEF IInv, TypeOK
<1> QED BY <1>4, <1>5 DEF Mismatch

(* Fail preserves IInv.                                                    *)
LEMMA FailPreserves ==
  ASSUME IInv, Fail
  PROVE  IInv'
<1> DEFINE rows == FailureRows(failures + 1)
<1>1. rows \in Seq(Events)
  <2>1. /\ <<"FAILED_RUNTIME", "BREAK_INCREMENT">> \in Seq(Events)
        /\ <<"FAILED_RUNTIME", "BREAK_INCREMENT", "SYSTEM_FROZEN">> \in Seq(Events)
    BY DEF Events, ExecutionFailed
  <2> QED BY <2>1 DEF FailureRows
<1>2. PICK n \in 0 .. Len(rows) :
        /\ journal' = [journal EXCEPT ![orch.exec] = @ \o SubSeq(rows, 1, n)]
        /\ failures' = IF n = 0 THEN failures ELSE failures + 1
        /\ status' = IF n >= 2 /\ Trips(failures + 1) THEN "FROZEN" ELSE status
        /\ IF n = Len(rows)
             THEN /\ lock' = Abort(lock) /\ window' = ForceClose(window)
                  /\ UNCHANGED faults
             ELSE /\ faults < MaxFaults /\ faults' = faults + 1
                  /\ UNCHANGED <<lock, window>>
  BY DEF Fail
<1> HIDE DEF rows
<1>3. SupTypeOK'
  BY <1>2 DEF Fail, IInv, TypeOK, SupTypeOK, Statuses
<1>4. LockTypeOK'
  BY <1>2 DEF Fail, Abort, ForceClose, IInv, TypeOK, LockTypeOK, LockType, WindowType
<1>5. LogTypeOK'
  <2>1. SubSeq(rows, 1, n) \in Seq(Events)
    BY <1>1, SubSeqProperties
  <2>2. journal' \in [Execs -> Seq(Events)]
    BY <1>2, <2>1, JournalType DEF IInv, TypeOK, LogTypeOK
  <2>3. faults' \in 0 .. MaxFaults
    BY <1>2, OrderAssumption DEF IInv, TypeOK, LogTypeOK
  <2> QED BY <2>2, <2>3 DEF LogTypeOK
<1>6. failures' \in Nat
  BY <1>2 DEF IInv, TypeOK, OrchTypeOK
<1> QED BY <1>3, <1>4, <1>5, <1>6, ToIdle DEF Fail

(* Supervise preserves IInv.                                               *)
LEMMA SupervisePreserves ==
  ASSUME IInv, Supervise
  PROVE  IInv'
<1> USE DEF IInv, TypeOK
<1>1. UNCHANGED <<lockVars, bookVars, logVars, handVars, orch, failures>>
  BY DEF Supervise, SupervisorTick, SupervisorRestart
<1>2. SupTypeOK' /\ local' \in Int
  <2>1. CASE SupervisorRestart
    <3>1. PICK looping \in BOOLEAN :
            Restart(looping) /\ sup' = IF looping THEN "loop" ELSE "gone"
      BY <2>1 DEF SupervisorRestart
    <3> QED BY <3>1, RestartType DEF BookTypeOK
  <2>2. ASSUME NEW drifts, SupervisorTick(drifts)
        PROVE  SupTypeOK' /\ local' \in Int
    <3>1. /\ status' \in {"READY", "DEGRADED", "FROZEN"}
          /\ sup' \in {sup, "restarting"} /\ local' \in {local, exch}
      BY <2>2 DEF SupervisorTick
    <3>2. streamFrozen' \in BOOLEAN
      BY <2>2 DEF SupervisorTick, SupTypeOK
    <3> QED BY <3>1, <3>2 DEF SupTypeOK, BookTypeOK, Statuses
  <2> QED BY <2>1, <2>2 DEF Supervise
<1>3. LockTypeOK' /\ OrchTypeOK' /\ HandTypeOK' /\ LogTypeOK'
  BY <1>1 DEF LockTypeOK, OrchTypeOK, HandTypeOK, LogTypeOK, lockVars, handVars, logVars
<1>4. BookTypeOK'
  BY <1>1, <1>2 DEF BookTypeOK, bookVars
<1>5. StepPending' /\ ExecsDrawn'
  BY <1>1 DEF StepPending, ExecsDrawn, Submitted, handVars
<1> QED BY <1>2, <1>3, <1>4, <1>5

(* Stream preserves IInv.                                                  *)
LEMMA StreamPreserves ==
  ASSUME IInv, Stream
  PROVE  IInv'
<1> USE DEF IInv, TypeOK
<1>1. UNCHANGED <<lockVars, supVars, bookVars, logVars, userTrades, orch, failures>>
      /\ local' \in {local, exch} /\ manualOpen' \in {manualOpen, "no", "pending", "flagged"}
  BY DEF Stream, StreamPosition, StreamManualOpen, StreamFilled
<1>2. \/ closer' = closer
      \/ \E c \in Closers : closer' = [closer EXCEPT ![c].pc = "new"]
  BY DEF Stream, StreamPosition, StreamManualOpen, StreamFilled
<1>3. SupTypeOK' /\ LockTypeOK' /\ OrchTypeOK' /\ BookTypeOK' /\ LogTypeOK'
  BY <1>1 DEF SupTypeOK, LockTypeOK, OrchTypeOK, BookTypeOK, LogTypeOK,
     supVars, lockVars, bookVars, logVars
<1>4. HandTypeOK'
  BY <1>1, <1>2 DEF HandTypeOK
<1>5. StepPending' /\ ExecsDrawn'
  BY <1>1, <1>2 DEF StepPending, ExecsDrawn, Submitted, HandTypeOK
<1> QED BY <1>3, <1>4, <1>5

(* The amount a closer orders is an integer.                               *)
LEMMA CloseAmountType ==
  ASSUME NEW qty \in CloseQty, local \in Int
  PROVE  CloseAmount(qty) \in Int
<1>1. qty \in Nat
  BY SizeType, PolicyAssumption DEF CloseQty
<1> QED BY <1>1 DEF CloseAmount

(* Closer preserves IInv.                                                  *)
LEMMA CloserPreserves ==
  ASSUME IInv, NEW c \in Closers, CloserStep(c)
  PROVE  IInv'
<1> USE DEF IInv, TypeOK
<1>1. UNCHANGED <<window, supVars, logVars, manualOpen, userTrades, orch, failures, local>>
  BY DEF CloserStep, CloserBusy, CloserBegin, CloserAct
<1>2. SupTypeOK' /\ OrchTypeOK' /\ LogTypeOK'
  BY <1>1 DEF SupTypeOK, OrchTypeOK, LogTypeOK, supVars, logVars
<1>3. LockTypeOK'
  <2>1. CASE lock' = Abort(lock) /\ lastExec' = lastExec
    BY <1>1, <2>1 DEF LockTypeOK, LockType, Abort
  <2>2. CASE CloserBegin(c)
    BY <1>1, <2>2, AcquiredType DEF CloserBegin
  <2> QED BY <2>1, <2>2 DEF CloserStep, CloserBusy, CloserAct
<1>4. \/ closer' = [closer EXCEPT ![c] = NoCloser]
      \/ closer' = [closer EXCEPT ![c] = [pc |-> "stabilise", exec |-> lastExec + 1]]
  BY DEF CloserStep, CloserBusy, CloserBegin, CloserAct, CloserDone
<1>5. HandTypeOK'
  BY <1>1, <1>4 DEF HandTypeOK, NoCloser, LockTypeOK
<1>6. BookTypeOK'
  <2>1. CASE UNCHANGED bookVars
    BY <1>1, <2>1 DEF BookTypeOK, bookVars
  <2>2. CASE CloserAct(c) /\ ~ UNCHANGED bookVars
    <3>1. PICK qty \in CloseQty :
            \/ OrderAnswered(closer[c].exec, "CLOSE", CloseAmount(qty))
            \/ OrderRaises(closer[c].exec, "CLOSE", CloseAmount(qty))
      BY <2>2 DEF CloserAct, ExecutePlan, ClosePosition
    <3>2. CloseAmount(qty) \in Int
      BY CloseAmountType DEF BookTypeOK
    <3>3. closer[c].exec \in Nat
      BY DEF HandTypeOK
    <3> QED BY <1>1, <3>1, <3>2, <3>3, AcceptType DEF Actions
  <2> QED BY <2>1, <2>2 DEF CloserStep, CloserBusy, CloserBegin
<1>7. StepPending' /\ ExecsDrawn'
  BY <1>1, <1>4 DEF StepPending, ExecsDrawn, Submitted, HandTypeOK, NoCloser, LockTypeOK
<1> QED BY <1>2, <1>3, <1>5, <1>6, <1>7

(* A fill, partial or whole, and an expiry.                                *)
LEMMA FilledType ==
  ASSUME BookTypeOK, NEW i \in DOMAIN working, Fill(i) \/ Expire(i)
  PROVE  BookTypeOK'
<1> DEFINE Order == [amount : Int, reduceOnly : BOOLEAN]
           rest  == Without(working, i)
<1>1. working \in Seq(Order)
  BY DEF BookTypeOK
<1>2. i \in 1 .. Len(working) /\ working[i] \in Order
  <2> HIDE DEF Order
  <2> QED BY <1>1
<1>3. rest \in Seq(Order)
  BY <1>1, WithoutType
<1>4. UNCHANGED <<local, orders, lost>>
  BY DEF Fill, Expire
<1>5. CASE Expire(i)
  <2>1. working' = rest /\ exch' = exch
    BY <1>5 DEF Expire
  <2> HIDE DEF rest
  <2> QED BY <1>3, <1>4, <2>1 DEF BookTypeOK
<1>6. CASE Fill(i)
  <2> HIDE DEF rest
  <2>1. Size(working[i].amount) \in Nat /\ Size(exch) \in Nat /\ exch \in Int
    BY <1>2, SizeType DEF BookTypeOK
  <2>2. Fillable(working[i]) \in Nat
    BY <2>1 DEF Fillable
  <2>3. PICK k \in 1 .. Fillable(working[i]) :
          LET signed == IF working[i].amount > 0 THEN k ELSE - k
          IN  /\ exch' = exch + signed
              /\ working' = IF signed = working[i].amount THEN rest
                            ELSE [working EXCEPT ![i].amount = @ - signed]
    BY <1>6 DEF Fill, rest
  <2> DEFINE signed == IF working[i].amount > 0 THEN k ELSE - k
             part   == [working[i] EXCEPT !.amount = working[i].amount - signed]
  <2>4. signed \in Int /\ part \in Order
    BY <1>2, <2>2
  <2>5. [working EXCEPT ![i] = part] \in Seq(Order)
    <3> HIDE DEF Order, part
    <3> QED BY <1>1, <1>2, <2>4, ExceptSeq
  <2>6. working' \in Seq(Order) /\ exch' \in Int
    <3>1. exch' = exch + signed /\ working' \in {rest, [working EXCEPT ![i] = part]}
      BY <2>3
    <3>2. exch' \in Int
      BY <2>1, <2>4, <3>1
    <3>3. working' \in Seq(Order)
      <4> HIDE DEF part, Order
      <4> QED BY <1>3, <2>5, <3>1
    <3> QED BY <3>2, <3>3
  <2> QED BY <1>4, <2>6 DEF BookTypeOK
<1> QED BY <1>5, <1>6

(* Exchange preserves IInv.                                                *)
LEMMA ExchangePreserves ==
  ASSUME IInv, Exchange
  PROVE  IInv'
<1> USE DEF IInv, TypeOK
<1>1. UNCHANGED <<lockVars, supVars, orders, lost, logVars, closer, manualOpen, orch,
                  failures, local>>
  BY DEF Exchange, Fill, Expire, UserTrade, handVars
<1>2. SupTypeOK' /\ LockTypeOK' /\ OrchTypeOK' /\ LogTypeOK' /\ StepPending' /\ ExecsDrawn'
  BY <1>1 DEF SupTypeOK, LockTypeOK, OrchTypeOK, LogTypeOK, StepPending, ExecsDrawn,
     Submitted, supVars, lockVars, logVars
<1>3. CASE \E amount \in {-1, 1} : UserTrade(amount)
  BY <1>1, <1>2, <1>3, OrderAssumption DEF UserTrade, HandTypeOK, BookTypeOK
<1>4. ASSUME NEW i \in DOMAIN working, Fill(i) \/ Expire(i)
      PROVE  HandTypeOK' /\ BookTypeOK'
  <2>1. HandTypeOK'
    BY <1>1, <1>4 DEF Fill, Expire, HandTypeOK, handVars
  <2> QED BY <1>1, <1>4, <2>1, FilledType
<1> QED BY <1>2, <1>3, <1>4 DEF Exchange

(* PlaceBrackets adds an entry to the history and changes nothing else.    *)
LEMMA BracketsAppend ==
  ASSUME NEW exec \in Execs, NEW byReport \in BOOLEAN, PlaceBrackets(exec, byReport)
  PROVE  /\ UNCHANGED <<lockVars, supVars, exch, working, lost, logVars, handVars, orch,
                        failures, local>>
         /\ orders' = Append(orders, [exec |-> exec, action |-> "BRACKET"])
         /\ [exec |-> exec, action |-> "BRACKET"] \in [exec : Nat, action : OrderKinds]
  BY OrderAssumption DEF PlaceBrackets, Execs, OrderKinds

(* PlaceBrackets preserves IInv.                                           *)
LEMMA BracketsPreserve ==
  ASSUME IInv, NEW exec \in Execs, NEW byReport \in BOOLEAN, PlaceBrackets(exec, byReport)
  PROVE  IInv'
<1> USE DEF IInv, TypeOK
<1>1. /\ UNCHANGED <<lockVars, supVars, exch, working, lost, logVars, handVars, orch,
                     failures, local>>
      /\ orders' = Append(orders, [exec |-> exec, action |-> "BRACKET"])
      /\ [exec |-> exec, action |-> "BRACKET"] \in [exec : Nat, action : OrderKinds]
  BY BracketsAppend
<1>2. orders' \in Seq([exec : Nat, action : OrderKinds])
  BY <1>1, AppendProperties DEF BookTypeOK
<1>3. SupTypeOK' /\ LockTypeOK' /\ OrchTypeOK' /\ HandTypeOK' /\ LogTypeOK'
  BY <1>1 DEF SupTypeOK, LockTypeOK, OrchTypeOK, HandTypeOK, LogTypeOK, supVars, lockVars,
     handVars, logVars
<1>4. BookTypeOK'
  BY <1>1, <1>2 DEF BookTypeOK
<1>5. StepPending' /\ ExecsDrawn'
  BY <1>1 DEF StepPending, ExecsDrawn, Submitted, handVars
<1> QED BY <1>3, <1>4, <1>5

(* IInv is inductive.                                                      *)
LEMMA NextIInv == IInv /\ [Next]_vars => IInv'
<1> SUFFICES ASSUME IInv, [Next]_vars PROVE IInv'
  OBVIOUS
<1>1. CASE UNCHANGED vars
  BY <1>1 DEF IInv, TypeOK, SupTypeOK, LockTypeOK, OrchTypeOK, HandTypeOK, BookTypeOK,
     LogTypeOK, StepPending, ExecsDrawn, Submitted, vars, lockVars, supVars, bookVars,
     logVars, handVars
<1>2. CASE Submit
  BY <1>2, PollsPreserve
<1>3. CASE Orchestrate
  BY <1>3, PollsPreserve, TurnAwayPreserves, BusyPreserves, BeginPreserves, PlanPreserves,
     ExecuteStepPreserves, StepConfirmedPreserves, ReconcileRaisesPreserves,
     ReconcilePreserves, VerifyRestartPreserves, CompletePreserves, MismatchPreserves,
     FailPreserves DEF Orchestrate
<1>4. CASE Supervise
  BY <1>4, SupervisePreserves
<1>5. CASE Stream
  BY <1>5, StreamPreserves
<1>6. CASE Exchange
  BY <1>6, ExchangePreserves
<1>7. CASE \E c \in Closers : CloserStep(c)
  BY <1>7, CloserPreserves
<1>8. CASE \E exec \in Execs, byReport \in BOOLEAN : PlaceBrackets(exec, byReport)
  BY <1>8, BracketsPreserve
<1> QED BY <1>1, <1>2, <1>3, <1>4, <1>5, <1>6, <1>7, <1>8 DEF Next

(***************************************************************************)
(* In every run, whatever the sizes, bounds and numbers of tasks, every     *)
(* variable holds a value of its type, a submission waiting for an order    *)
(* has the step, and whoever has acquired carries an id.                   *)
(***************************************************************************)
THEOREM IInvHolds == Spec => []IInv
  BY InitIInv, NextIInv, PTL DEF Spec

(* In particular the types the code keeps to.                              *)
THEOREM TypeCorrect == Spec => []TypeOK
<1>1. IInv => TypeOK
  BY DEF IInv
<1> QED BY <1>1, IInvHolds, PTL

-----------------------------------------------------------------------------
(* Who acts on the exchange.                                               *)

(***************************************************************************)
(* What a step can do to the lock's owner, the ids drawn and the exchange's *)
(* orders.                                                                 *)
(***************************************************************************)
GivenUp == lock'.owner \in {lock.owner, 0} /\ lastExec' = lastExec

Quiet == GivenUp /\ orders' = orders

Granted == /\ lock.owner = 0 /\ lastExec' = lastExec + 1
           /\ lock'.owner = lastExec + 1 /\ orders' = orders

ActsAsHolder ==
  /\ lock.owner # 0 /\ GivenUp
  /\ \E a \in Actions : orders' = Append(orders, [exec |-> lock.owner, action |-> a])

(* A bracket follows an execution that had its turn, if no other has one.  *)
FollowsUp ==
  /\ UNCHANGED <<lock, lastExec>>
  /\ \E e \in Execs : /\ lock.owner \in {0, e} /\ Opened(e)
                       /\ orders' = Append(orders, [exec |-> e, action |-> "BRACKET"])

(* The execution of an accepted order is a number.                         *)
LEMMA OrderFields ==
  ASSUME NEW s \in Seq([exec : Nat, action : OrderKinds]), NEW i \in DOMAIN s
  PROVE  s[i].exec \in Nat
<1>1. ASSUME NEW S, NEW t \in Seq(S), NEW j \in DOMAIN t
      PROVE  t[j] \in S
  OBVIOUS
<1>2. s[i] \in [exec : Nat, action : OrderKinds]
  BY <1>1
<1> QED BY <1>2

(* No lock operation but acquire() makes a new owner.                      *)
LEMMA OwnerKept ==
  ASSUME LockTypeOK,
         \/ lock' = lock
         \/ lock' = Abort(lock)
         \/ \E p \in ActivePhases : lock' = InPhase(lock, p)
         \/ \E e : lock' = Release(lock, e)
  PROVE  lock'.owner \in {lock.owner, 0}
  BY DEF LockTypeOK, LockType, Abort, InPhase, Release, IdleLock

(* place_order adds its own order to the history, or nothing.              *)
LEMMA OrderOrNot ==
  ASSUME NEW e, NEW a, NEW n, OrderAnswered(e, a, n) \/ OrderRaises(e, a, n)
  PROVE  orders' \in {orders, Append(orders, [exec |-> e, action |-> a])}
  BY DEF OrderAnswered, OrderRaises, Accept, bookVars

(* The submission acts as the holder, is granted the lock, or is quiet.    *)
LEMMA OrchestrateSteps ==
  ASSUME IInv, Orchestrate
  PROVE  Quiet \/ Granted \/ ActsAsHolder
<1>1. LockTypeOK
  BY DEF IInv, TypeOK
<1>2. CASE Busy \/ StepsOver \/ StepRefused \/ ConfirmPoll \/ ConfirmRaises
           \/ NotYetReflected \/ StepConfirmed \/ VerifyRestart \/ VerifyRaises
           \/ \E i \in PolicyIntents : TurnAway(i)
  BY <1>2 DEF Busy, StepsOver, StepRefused, ConfirmPoll, ConfirmRaises, NotYetReflected,
     StepConfirmed, VerifyRestart, VerifyRaises, TurnAway, Quiet, GivenUp, lockVars, bookVars
<1>3. CASE ReconcileRaises \/ Reconcile
  BY <1>3 DEF ReconcileRaises, Reconcile, Quiet, GivenUp, bookVars
<1>4. CASE \E i \in PolicyIntents : Begin(i)
  BY <1>4 DEF Begin, Granted, IsIdle, Acquired, bookVars
<1>5. CASE Plan
  <2>1. lock' = lock \/ \E p \in ActivePhases : lock' = InPhase(lock, p)
    BY <1>5 DEF Plan, ActivePhases
  <2> QED BY <1>1, <1>5, <2>1, OwnerKept DEF Plan, Quiet, GivenUp, bookVars
<1>6. CASE ExecuteStep
  <2> DEFINE step == Head(orch.plan)
  <2>1. orch.exec = lock.owner /\ lock.owner # 0
    BY <1>6 DEF ExecuteStep, MayExecute, Guard, IInv, ExecsDrawn, Submitted
  <2>2. lock' = InPhase(lock, StepPhase(step)) /\ lastExec' = lastExec
    BY <1>6 DEF ExecuteStep
  <2>3. GivenUp
    <3>1. StepPhase(step) \in ActivePhases
      BY DEF StepPhase, ActivePhases
    <3> QED BY <1>1, <2>2, <3>1, OwnerKept DEF GivenUp
  <2>4. orders' \in {orders, Append(orders, [exec |-> lock.owner, action |-> step.action])}
    BY <1>6, <2>1, OrderOrNot DEF ExecuteStep
  <2>5. step.action \in Actions
    <3>1. orch.plan \in Seq(PlanSteps) /\ orch.plan # <<>>
      BY <1>6 DEF ExecuteStep, IInv, TypeOK, OrchTypeOK
    <3>2. step \in PlanSteps
      BY <3>1, HeadTailProperties
    <3> QED BY <3>2 DEF PlanSteps
  <2> QED BY <2>1, <2>3, <2>4, <2>5 DEF Quiet, ActsAsHolder
<1>7. CASE Complete \/ Mismatch \/ Fail
  <2>1. \/ lock' = lock \/ lock' = Abort(lock) \/ \E e : lock' = Release(lock, e)
    BY <1>7 DEF Complete, Mismatch, Fail
  <2> QED BY <1>1, <1>7, <2>1, OwnerKept
          DEF Complete, Mismatch, Fail, Quiet, GivenUp, bookVars
<1> QED BY <1>2, <1>3, <1>4, <1>5, <1>6, <1>7 DEF Orchestrate

(* So does a manual close.                                                 *)
LEMMA CloserSteps ==
  ASSUME IInv, NEW c \in Closers, CloserStep(c)
  PROVE  Quiet \/ Granted \/ ActsAsHolder
<1>1. LockTypeOK
  BY DEF IInv, TypeOK
<1>2. CASE CloserBusy(c)
  BY <1>1, <1>2, OwnerKept DEF CloserBusy, Quiet, GivenUp, bookVars
<1>3. CASE CloserBegin(c)
  BY <1>3 DEF CloserBegin, Granted, IsIdle, Acquired, bookVars
<1>4. CASE CloserAct(c)
  <2>1. GivenUp
    BY <1>1, <1>4, OwnerKept DEF CloserAct, GivenUp
  <2>2. CASE UNCHANGED bookVars
    BY <2>1, <2>2 DEF Quiet, bookVars
  <2>3. CASE ~ UNCHANGED bookVars
    <3>1. closer[c].exec = lock.owner /\ lock.owner # 0
      BY <1>4, <2>3 DEF CloserAct, Guard, IInv, ExecsDrawn
    <3>2. orders' \in {orders, Append(orders, [exec |-> lock.owner, action |-> "CLOSE"])}
      BY <1>4, <2>3, <3>1, OrderOrNot DEF CloserAct, ExecutePlan, ClosePosition
    <3> QED BY <2>1, <3>1, <3>2 DEF Quiet, ActsAsHolder, Actions
  <2> QED BY <2>2, <2>3
<1> QED BY <1>2, <1>3, <1>4 DEF CloserStep

(* A bracket task follows up.                                              *)
LEMMA BracketSteps ==
  ASSUME NEW exec \in Execs, NEW byReport \in BOOLEAN, PlaceBrackets(exec, byReport)
  PROVE  FollowsUp
<1>1. UNCHANGED <<lock, lastExec>>
  BY BracketsAppend DEF lockVars
<1>2. lock.owner \in {0, exec} /\ Opened(exec)
  BY DEF PlaceBrackets, TradeGuard, IsIdle, Guard
<1> QED BY <1>1, <1>2, BracketsAppend DEF FollowsUp

(* So does every step of the system: all else is quiet.                    *)
LEMMA EveryStep ==
  ASSUME IInv, [Next]_vars
  PROVE  Quiet \/ Granted \/ ActsAsHolder \/ FollowsUp
<1>1. CASE Submit \/ Supervise \/ Stream \/ Exchange \/ UNCHANGED vars
  BY <1>1 DEF Submit, Supervise, SupervisorTick, SupervisorRestart, Stream, StreamPosition,
     StreamManualOpen, StreamFilled, Exchange, Fill, Expire, UserTrade, vars, lockVars,
     bookVars, Quiet, GivenUp
<1> QED BY <1>1, OrchestrateSteps, CloserSteps, BracketSteps DEF Next

(***************************************************************************)
(* OrdersNeverInterleave is inductive once the lock's owner is the newest   *)
(* execution, no accepted order is newer than that, and nothing else came   *)
(* since the first market order of the execution that holds the lock.      *)
(***************************************************************************)
HolderLast ==
  \A i, k \in DOMAIN orders :
    /\ i <= k /\ Market(i)
    /\ lock.owner # 0 /\ orders[i].exec = lock.owner
    => orders[k].exec = lock.owner

OrderInv ==
  /\ lock.owner \in {0, lastExec}
  /\ \A i \in DOMAIN orders : orders[i].exec <= lastExec
  /\ HolderLast
  /\ OrdersNeverInterleave

(* What appending an order does to the history.                            *)
Grows(x, a) ==
  /\ orders' = Append(orders, [exec |-> x, action |-> a])
  /\ Len(orders) \in Nat
  /\ DOMAIN orders = 1 .. Len(orders) /\ DOMAIN orders' = 1 .. (Len(orders) + 1)
  /\ \A i \in 1 .. Len(orders) : orders[i].exec \in Nat /\ orders'[i] = orders[i]
  /\ orders'[Len(orders) + 1].exec = x /\ orders'[Len(orders) + 1].action = a

(* It adds one entry at the end.                                           *)
LEMMA OrdersGrow ==
  ASSUME orders \in Seq([exec : Nat, action : OrderKinds]),
         NEW x \in Nat, NEW a \in OrderKinds,
         orders' = Append(orders, [exec |-> x, action |-> a])
  PROVE  Grows(x, a) /\ orders' \in Seq([exec : Nat, action : OrderKinds])
<1> DEFINE new == [exec |-> x, action |-> a]
<1>1. new \in [exec : Nat, action : OrderKinds] /\ new.exec = x /\ new.action = a
  OBVIOUS
<1> HIDE DEF new
<1>2. /\ orders' \in Seq([exec : Nat, action : OrderKinds])
      /\ Len(orders') = Len(orders) + 1
      /\ \A i \in 1 .. Len(orders) : orders'[i] = orders[i]
      /\ orders'[Len(orders) + 1] = new
  BY <1>1, AppendProperties DEF new
<1>3. Len(orders) \in Nat /\ DOMAIN orders = 1 .. Len(orders)
      /\ DOMAIN orders' = 1 .. (Len(orders) + 1)
  BY <1>2
<1>4. \A i \in 1 .. Len(orders) : orders[i].exec \in Nat
  BY <1>3, OrderFields
<1> QED BY <1>1, <1>2, <1>3, <1>4 DEF Grows, new

(* OrderInv is inductive.                                                  *)
LEMMA OrderInvStep ==
  ASSUME IInv, OrderInv, [Next]_vars
  PROVE  OrderInv'
<1>1. /\ orders \in Seq([exec : Nat, action : OrderKinds])
      /\ lastExec \in Nat /\ lock.owner \in Nat
  BY DEF IInv, TypeOK, BookTypeOK, LockTypeOK, LockType, IdleLock
<1>2. \A i \in DOMAIN orders : orders[i].exec \in Nat
  BY <1>1, OrderFields
<1>3. CASE Quiet \/ Granted
  <2>1. orders' = orders /\ lastExec' \in {lastExec, lastExec + 1}
        /\ lock'.owner \in {0, lastExec'}
    BY <1>1, <1>3 DEF Quiet, Granted, GivenUp, OrderInv
  <2>2. OrdersNeverInterleave' /\ \A i \in DOMAIN orders' : orders'[i].exec <= lastExec'
    BY <1>1, <1>2, <2>1 DEF OrderInv, OrdersNeverInterleave, Market
  <2>3. HolderLast'
    BY <1>1, <1>2, <1>3, <2>1 DEF Quiet, Granted, GivenUp, OrderInv, HolderLast, Market
  <2> QED BY <2>1, <2>2, <2>3 DEF OrderInv
<1>4. ASSUME NEW x \in Nat, NEW a \in OrderKinds, x <= lastExec,
             orders' = Append(orders, [exec |-> x, action |-> a]),
             GivenUp, lock.owner \in {0, x}, a # "BRACKET" => x = lock.owner /\ x # 0
      PROVE  OrderInv'
  <2>1. Grows(x, a)
    BY <1>1, <1>4, OrdersGrow
  <2>2. lastExec' = lastExec /\ lock'.owner \in {lock.owner, 0}
    BY <1>4 DEF GivenUp
  <2>3. \A i \in DOMAIN orders' : orders'[i].exec <= lastExec
    BY <1>1, <1>4, <2>1 DEF Grows, OrderInv
  <2>4. HolderLast'
    <3> SUFFICES ASSUME NEW i \in DOMAIN orders', NEW k \in DOMAIN orders', i <= k,
                        Market(i)', lock'.owner # 0, orders'[i].exec = lock'.owner
                 PROVE  orders'[k].exec = lock'.owner
      BY DEF HolderLast
    <3>1. lock'.owner = lock.owner /\ lock.owner = x
      BY <1>4, <2>2
    <3>2. CASE k = Len(orders) + 1
      BY <2>1, <3>1, <3>2 DEF Grows
    <3>3. CASE k \in DOMAIN orders
      <4>1. i \in DOMAIN orders /\ orders'[i] = orders[i] /\ orders'[k] = orders[k]
        BY <2>1, <3>3 DEF Grows
      <4> QED BY <3>1, <3>3, <4>1 DEF OrderInv, HolderLast, Market
    <3> QED BY <2>1, <3>2, <3>3 DEF Grows
  <2>5. OrdersNeverInterleave'
    <3> SUFFICES ASSUME NEW i \in DOMAIN orders', NEW j \in DOMAIN orders', i <= j,
                        Market(i)', Market(j)'
                 PROVE  /\ orders'[i].exec <= orders'[j].exec
                        /\ orders'[i].exec = orders'[j].exec =>
                             \A k \in i .. j : orders'[k].exec = orders'[i].exec
      BY DEF OrdersNeverInterleave
    <3>1. CASE j \in DOMAIN orders
      <4>1. i \in DOMAIN orders /\ orders'[i] = orders[i] /\ orders'[j] = orders[j]
            /\ \A k \in i .. j : k \in DOMAIN orders /\ orders'[k] = orders[k]
        BY <2>1, <3>1 DEF Grows
      <4> QED BY <3>1, <4>1 DEF OrderInv, OrdersNeverInterleave, Market
    <3>2. CASE j = Len(orders) + 1
      <4>1. orders'[j].exec = x /\ a \in Actions
        BY <2>1, <3>2 DEF Grows, Market
      <4>2. x = lock.owner /\ x # 0 /\ x = lastExec
        BY <1>4, <4>1 DEF Actions, OrderInv
      <4>3. orders'[i].exec <= orders'[j].exec
        BY <2>3, <4>1, <4>2
      <4>4. ASSUME orders'[i].exec = orders'[j].exec, NEW k \in i .. j
            PROVE  orders'[k].exec = orders'[i].exec
        <5>1. CASE k = Len(orders) + 1
          BY <3>2, <4>4, <5>1
        <5>2. CASE k # Len(orders) + 1
          <6>1. /\ i \in DOMAIN orders /\ orders'[i] = orders[i]
                /\ k \in DOMAIN orders /\ orders'[k] = orders[k] /\ i <= k
            BY <2>1, <3>2, <4>4, <5>2 DEF Grows
          <6> QED BY <4>1, <4>2, <4>4, <6>1 DEF OrderInv, HolderLast, Market
        <5> QED BY <5>1, <5>2
      <4> QED BY <4>3, <4>4
    <3> QED BY <2>1, <3>1, <3>2 DEF Grows
  <2>6. lock'.owner \in {0, lastExec'}
    BY <2>2 DEF OrderInv
  <2> QED BY <2>2, <2>3, <2>4, <2>5, <2>6 DEF OrderInv
<1>5. CASE ActsAsHolder
  <2>1. PICK a \in Actions : orders' = Append(orders, [exec |-> lock.owner, action |-> a])
    BY <1>5 DEF ActsAsHolder
  <2>2. lock.owner # 0 /\ GivenUp /\ a \in OrderKinds /\ lock.owner <= lastExec
    BY <1>1, <1>5 DEF ActsAsHolder, OrderKinds, OrderInv
  <2> QED BY <1>1, <1>4, <2>1, <2>2
<1>6. CASE FollowsUp
  <2>1. PICK e \in Execs : /\ lock.owner \in {0, e} /\ Opened(e)
                          /\ orders' = Append(orders, [exec |-> e, action |-> "BRACKET"])
    BY <1>6 DEF FollowsUp
  <2>2. e \in Nat /\ e <= lastExec /\ "BRACKET" \in OrderKinds /\ GivenUp
    BY <1>6, <2>1, OrderAssumption DEF FollowsUp, GivenUp, Opened, OrderInv, OrderKinds, Execs
  <2> QED BY <1>4, <2>1, <2>2
<1> QED BY <1>3, <1>5, <1>6, EveryStep

(* OrderInv is an invariant.                                               *)
LEMMA OrderInvHolds == Spec => []OrderInv
<1>1. Init => OrderInv
  BY DEF Init, IdleLock, OrderInv, HolderLast, OrdersNeverInterleave
<1>2. IInv /\ OrderInv /\ [Next]_vars => OrderInv'
  BY OrderInvStep
<1> QED BY <1>1, <1>2, IInvHolds, PTL DEF Spec

(***************************************************************************)
(* On the exchange executions never interleave, whichever of the            *)
(* orchestrator, the closers and the supervisor takes the lock away from    *)
(* whom, and although place_order lets a bracket pass when nothing runs.   *)
(***************************************************************************)
THEOREM NeverInterleave == Spec => []OrdersNeverInterleave
<1>1. OrderInv => OrdersNeverInterleave
  BY DEF OrderInv
<1> QED BY <1>1, OrderInvHolds, PTL

(* The refinement mapping of acted, as in OrderExecution.                  *)
acted == [i \in DOMAIN orders |-> [exec |-> orders[i].exec, follows |-> ~ Market(i)]]

(* The entries of acted.                                                   *)
Deeds == [exec : Nat, follows : BOOLEAN]

(* A function that goes one further than a sequence is an Append.          *)
LEMMA AppendIs ==
  ASSUME NEW S, NEW n \in Nat, NEW d \in S, NEW s \in [1 .. n -> S],
         NEW u \in [1 .. (n + 1) -> S], \A i \in 1 .. n : u[i] = s[i], u[n + 1] = d
  PROVE  u = Append(s, d)
<1> DEFINE ax == Append(s, d)
<1>1. s \in Seq(S) /\ Len(s) = n
  <2>1. s \in Seq(S)
    BY SeqDef
  <2> QED BY <2>1, LenProperties
<1>3. u \in Seq(S) /\ Len(u) = n + 1
  <2>1. u \in Seq(S)
    BY SeqDef
  <2> QED BY <2>1, LenProperties
<1>4. /\ ax \in Seq(S) /\ Len(ax) = n + 1
      /\ \A i \in 1 .. n : ax[i] = s[i]
      /\ ax[n + 1] = d
  BY <1>1, AppendProperties
<1> HIDE DEF ax
<1>5. \A i \in 1 .. Len(u) : u[i] = ax[i]
  BY <1>3, <1>4
<1>6. u = ax
  BY <1>3, <1>4, <1>5, SeqEqual
<1> QED BY <1>6 DEF ax

(* Appending an order appends what it says of its execution.               *)
LEMMA ActedAppends ==
  ASSUME orders \in Seq([exec : Nat, action : OrderKinds]),
         NEW x \in Nat, NEW a \in OrderKinds,
         orders' = Append(orders, [exec |-> x, action |-> a]),
         NEW b \in BOOLEAN, b = (a \notin Actions)
  PROVE  acted' = Append(acted, [exec |-> x, follows |-> b])
<1> DEFINE n  == Len(orders)
           d  == [exec |-> x, follows |-> b]
<1>1. Grows(x, a)
  BY OrdersGrow
<1>2. n \in Nat /\ DOMAIN orders = 1 .. n /\ DOMAIN orders' = 1 .. (n + 1)
  BY <1>1 DEF Grows
<1>3. ASSUME NEW i \in 1 .. n
      PROVE  /\ acted[i] = [exec |-> orders[i].exec, follows |-> ~ Market(i)]
             /\ acted[i] \in Deeds /\ acted'[i] = acted[i]
  <2>1. orders[i].exec \in Nat /\ orders'[i] = orders[i] /\ i \in DOMAIN orders'
    BY <1>1, <1>2, <1>3 DEF Grows
  <2>2. Market(i)' = Market(i) /\ Market(i) \in BOOLEAN
    BY <2>1 DEF Market
  <2> QED BY <1>2, <2>1, <2>2 DEF acted, Deeds
<1>4. acted'[n + 1] = d /\ d \in Deeds
  <2>1. PICK m : m = n + 1
    OBVIOUS
  <2>2. m \in DOMAIN orders' /\ orders'[m].exec = x /\ orders'[m].action = a
    BY <1>1, <1>2, <2>1 DEF Grows
  <2>3. Market(m)' <=> a \in Actions
    BY <2>2 DEF Market
  <2>4. acted'[m] = [exec |-> orders'[m].exec, follows |-> ~ Market(m)']
    BY <2>2 DEF acted
  <2>5. (~ Market(m)') = b
    BY <2>3
  <2>6. acted'[m] = d
    BY Zenon, <2>2, <2>4, <2>5
  <2>7. d \in Deeds
    BY DEF Deeds
  <2> HIDE DEF n, d
  <2> QED BY <2>1, <2>6, <2>7
<1> HIDE DEF n, d
<1>5. \A i \in 1 .. n : acted[i] \in Deeds /\ acted'[i] = acted[i]
  BY <1>3
<1>6. acted \in [1 .. n -> Deeds]
  <2>1. acted = [i \in 1 .. n |-> acted[i]]
    BY <1>2 DEF acted
  <2> QED BY <1>5, <2>1
<1>7. acted' \in [1 .. (n + 1) -> Deeds]
  <2>1. acted' = [i \in 1 .. (n + 1) |-> acted'[i]]
    BY <1>2 DEF acted
  <2>2. ASSUME NEW i \in 1 .. (n + 1)
        PROVE  acted'[i] \in Deeds
    <3>1. i \in 1 .. n \/ i = n + 1
      BY <1>2
    <3>2. CASE i \in 1 .. n
      BY <1>5, <3>2
    <3>3. CASE i = n + 1
      BY <1>4, <3>3
    <3> QED BY <3>1, <3>2, <3>3
  <2> QED BY <2>1, <2>2
<1>8. PICK s \in [1 .. n -> Deeds], u \in [1 .. (n + 1) -> Deeds] : s = acted /\ u = acted'
  BY <1>6, <1>7
<1>9. (\A i \in 1 .. n : u[i] = s[i]) /\ u[n + 1] = d
  BY Zenon, <1>4, <1>5, <1>8
<1>10. u = Append(s, d)
  BY <1>2, <1>4, <1>9, AppendIs
<1> QED BY <1>8, <1>10 DEF d

(* Every step maps to a step of the abstract specification or a stutter.   *)
LEMMA StepImplementsExclusive ==
  ASSUME IInv, OrderInv, [Next]_vars
  PROVE  [Exclusive!Next]_<<lock.owner, lastExec, acted>>
<1>1. CASE Quiet
  BY <1>1 DEF Quiet, GivenUp, acted, Market, Exclusive!Next, Exclusive!Revoke
<1>2. CASE Granted
  BY <1>2 DEF Granted, acted, Market, Exclusive!Next, Exclusive!Grant
<1>3. orders \in Seq([exec : Nat, action : OrderKinds]) /\ lock.owner \in Nat
  BY DEF IInv, TypeOK, BookTypeOK, LockTypeOK, LockType, IdleLock
<1>4. CASE ActsAsHolder
  <2>1. PICK a \in Actions : orders' = Append(orders, [exec |-> lock.owner, action |-> a])
    BY <1>4 DEF ActsAsHolder
  <2>2. a \in OrderKinds /\ (a \notin Actions) = FALSE
    BY DEF OrderKinds
  <2>3. acted' = Append(acted, [exec |-> lock.owner, follows |-> FALSE])
    BY <1>3, <2>1, <2>2, ActedAppends
  <2> QED BY <1>4, <2>3 DEF ActsAsHolder, GivenUp, acted, Exclusive!Next, Exclusive!Act
<1>5. CASE FollowsUp
  <2>1. PICK e \in Execs : /\ lock.owner \in {0, e} /\ Opened(e)
                          /\ orders' = Append(orders, [exec |-> e, action |-> "BRACKET"])
    BY <1>5 DEF FollowsUp
  <2>2. e \in Nat /\ lastExec \in Nat /\ e \in 1 .. lastExec
        /\ "BRACKET" \in OrderKinds /\ ("BRACKET" \notin Actions) = TRUE
    BY <2>1, OrderAssumption DEF Opened, OrderInv, OrderKinds, Execs, Actions, IInv, TypeOK,
       LockTypeOK
  <2>3. acted' = Append(acted, [exec |-> e, follows |-> TRUE])
    BY <1>3, <2>1, <2>2, ActedAppends
  <2>4. UNCHANGED <<lock.owner, lastExec>>
    BY <1>5 DEF FollowsUp
  <2> QED BY <2>1, <2>2, <2>3, <2>4 DEF acted, Exclusive!Next, Exclusive!Follow
<1> QED BY <1>1, <1>2, <1>4, <1>5, EveryStep

(***************************************************************************)
(* The lock implements the abstract specification: only the holder of the   *)
(* one right sends market orders, a lost right never comes back, and the    *)
(* brackets, which pass without the lock, follow an execution that had the  *)
(* right and never come while another has it.                              *)
(***************************************************************************)
THEOREM ImplementsExclusive == Spec => ExclusiveSpec
<1>1. Init => Exclusive!Init
  BY DEF Init, IdleLock, Exclusive!Init
<1>2. IInv /\ OrderInv /\ [Next]_vars
      => [Exclusive!Next]_<<lock.owner, lastExec, acted>>
  BY StepImplementsExclusive
<1> QED BY <1>1, <1>2, IInvHolds, OrderInvHolds, PTL
        DEF Spec, ExclusiveSpec, Exclusive!Spec, acted

-----------------------------------------------------------------------------
(* Nobody is left holding anything.                                        *)

(***************************************************************************)
(* The two invariants need each other: a window left open would make        *)
(* window.open raise with the lock just taken.                             *)
(***************************************************************************)
Owned == LockHasLiveHolder /\ WindowMatchesSubmission

(* What an action that ends at most the orchestrator's own hold must show. *)
LEMMA Unowned ==
  ASSUME IsIdle(lock)', WindowMatchesSubmission'
  PROVE  Owned'
  BY DEF Owned, LockHasLiveHolder

(* A step that changes neither hands nor window.                           *)
LEMMA SameHands ==
  ASSUME IInv, Owned, lock'.owner \in {lock.owner, 0}, UNCHANGED <<window, closer>>,
         faults' = 0 => faults = 0,
         orch'.exec = orch.exec, Submitted' <=> Submitted
  PROVE  Owned'
  BY DEF Owned, LockHasLiveHolder, WindowMatchesSubmission, IsIdle, IsClosed

(* The submission preserves Owned.                                         *)
LEMMA OrchestrateOwned ==
  ASSUME IInv, Owned, Orchestrate
  PROVE  Owned'
<1> USE DEF Goto, lockVars, handVars, logVars, Append1, AppendRaises
<1>0. /\ faults \in Nat /\ LockTypeOK
      /\ orch = [pc |-> orch.pc, exec |-> orch.exec, target |-> orch.target, plan |-> orch.plan]
  BY OrderAssumption DEF IInv, TypeOK, LogTypeOK, OrchTypeOK
<1>1. CASE Busy \/ \E i \in PolicyIntents : TurnAway(i)
  BY <1>1, SameHands DEF Busy, TurnAway, Submitted, IdleOrch, Owned, WindowMatchesSubmission,
     LockHasLiveHolder, IsIdle, IsClosed
<1>2. CASE StepsOver \/ StepRefused \/ ConfirmPoll \/ ConfirmRaises \/ NotYetReflected
           \/ VerifyRestart \/ VerifyRaises
  BY <1>0, <1>2, SameHands DEF StepsOver, StepRefused, ConfirmPoll, ConfirmRaises,
     NotYetReflected, VerifyRestart, VerifyRaises, Submitted
<1>3. CASE StepConfirmed
  <2>1. /\ lock' = lock /\ UNCHANGED <<window, closer>>
        /\ Submitted /\ orch' \in {StepDone, [orch EXCEPT !.pc = "fail"]}
    BY <1>3 DEF StepConfirmed, Submitted
  <2>2. faults' = 0 => faults = 0
    BY <1>0, <1>3 DEF StepConfirmed
  <2>3. Submitted' /\ orch'.exec = orch.exec
    BY <1>0, <2>1 DEF StepDone, Submitted
  <2> QED BY <2>1, <2>2, <2>3, SameHands
<1>4. CASE \E i \in PolicyIntents : Begin(i)
  <2>1. orch.pc = "wait" /\ IsIdle(lock) /\ ~ Submitted
    BY <1>4 DEF Begin, Submitted
  <2>2. CASE faults' # 0
    BY <2>2 DEF Owned, LockHasLiveHolder, WindowMatchesSubmission
  <2>3. CASE faults' = 0
    <3>1. faults = 0
      BY <1>0, <1>4, <2>3 DEF Begin
    <3>2. IsClosed(window)
      BY <2>1, <3>1 DEF Owned, WindowMatchesSubmission
    <3>3. /\ window' = OpenedFor(lastExec + 1) /\ lock' = Acquired(lastExec + 1)
          /\ orch'.pc = "plan" /\ orch'.exec = lastExec + 1
      BY <1>0, <1>4, <2>3, <3>1, <3>2 DEF Begin
    <3> QED BY <3>3 DEF Owned, LockHasLiveHolder, WindowMatchesSubmission, OpenedFor,
               Acquired, Submitted, IsClosed
  <2> QED BY <2>2, <2>3
<1>5. CASE Plan
  <2>1. lock'.owner = lock.owner
    BY <1>0, <1>5 DEF Plan, InPhase, LockTypeOK, LockType, IdleLock
  <2>2. orch'.exec = orch.exec /\ Submitted' /\ Submitted
    BY <1>0, <1>5 DEF Plan, Submitted
  <2> QED BY <1>5, <2>1, <2>2, SameHands DEF Plan
<1>6. CASE ExecuteStep
  <2>1. lock'.owner = lock.owner
    BY <1>0, <1>6 DEF ExecuteStep, InPhase, LockTypeOK, LockType, IdleLock
  <2>2. orch'.exec = orch.exec /\ Submitted' /\ Submitted /\ (faults' = 0 => faults = 0)
    BY <1>0, <1>6 DEF ExecuteStep, Submitted
  <2> QED BY <1>6, <2>1, <2>2, SameHands DEF ExecuteStep
<1>7. CASE ReconcileRaises \/ Reconcile
  <2>1. /\ window' = MarkClosing(window, orch.exec) /\ UNCHANGED <<lock, closer, faults>>
        /\ orch'.exec = orch.exec /\ Submitted' /\ Submitted
    BY <1>0, <1>7 DEF ReconcileRaises, Reconcile, Submitted
  <2>2. ~ IsClosed(window) => ~ IsClosed(window)' /\ window'.exec = window.exec
    BY <1>0, <2>1 DEF MarkClosing, IsClosed, LockTypeOK, WindowType
  <2> QED BY <2>1, <2>2 DEF Owned, LockHasLiveHolder, WindowMatchesSubmission, IsIdle
<1>8. ASSUME faults = 0 => window.exec = orch.exec, orch' = IdleOrch,
             window' \in {Close(window, orch.exec), ForceClose(window)},
             faults' = 0 => faults = 0
      PROVE  WindowMatchesSubmission'
  BY <1>8 DEF WindowMatchesSubmission, Close, ForceClose, ClosedWindow, IsClosed, IdleOrch,
     Submitted
<1>9. Complete \/ Mismatch \/ Fail => Submitted /\ (faults = 0 => window.exec = orch.exec)
  BY DEF Complete, Mismatch, Fail, Submitted, Owned, WindowMatchesSubmission
<1>10. CASE Complete
  <2>1. CASE faults' # 0
    BY <2>1 DEF Owned, LockHasLiveHolder, WindowMatchesSubmission
  <2>2. CASE faults' = 0
    <3>1. lock' = Release(lock, orch.exec) /\ faults = 0 /\ closer' = closer
      BY <1>0, <1>10, <2>2 DEF Complete
    <3>2. WindowMatchesSubmission'
      BY <1>8, <1>9, <1>10, <3>1 DEF Complete, Returned
    <3>3. LockHasLiveHolder'
      BY <3>1 DEF Owned, LockHasLiveHolder, Release, Guard, IsIdle, IdleLock
    <3> QED BY <3>2, <3>3 DEF Owned
  <2> QED BY <2>1, <2>2
<1>11. CASE Mismatch
  <2>1. CASE faults' # 0
    BY <2>1 DEF Owned, LockHasLiveHolder, WindowMatchesSubmission
  <2>2. CASE faults' = 0
    <3>1. lock' = Abort(lock) /\ faults = 0 /\ Returned
      BY <1>0, <1>11, <2>2 DEF Mismatch
    <3>2. WindowMatchesSubmission'
      BY <1>8, <1>9, <1>11, <3>1 DEF Returned
    <3> QED BY <3>1, <3>2, Unowned DEF Abort, IsIdle, IdleLock
  <2> QED BY <2>1, <2>2
<1>12. CASE Fail
  <2>1. CASE faults' # 0
    BY <2>1 DEF Owned, LockHasLiveHolder, WindowMatchesSubmission
  <2>2. CASE faults' = 0
    <3>1. lock' = Abort(lock) /\ window' = ForceClose(window) /\ orch' = IdleOrch
          /\ faults = 0
      BY <1>0, <1>12, <2>2 DEF Fail
    <3>2. WindowMatchesSubmission'
      BY <1>8, <1>9, <1>12, <3>1
    <3> QED BY <3>1, <3>2, Unowned DEF Abort, IsIdle, IdleLock
  <2> QED BY <2>1, <2>2
<1> QED BY <1>1, <1>2, <1>3, <1>4, <1>5, <1>6, <1>7, <1>10, <1>11, <1>12 DEF Orchestrate

(* So do all others.                                                       *)
LEMMA OthersOwned ==
  ASSUME IInv, Owned,
         \/ Submit \/ Supervise \/ Stream \/ Exchange \/ UNCHANGED vars
         \/ \E c \in Closers : CloserStep(c)
         \/ \E exec \in Execs, byReport \in BOOLEAN : PlaceBrackets(exec, byReport)
  PROVE  Owned'
<1> USE DEF lockVars, handVars, logVars, IInv, TypeOK
<1>1. CASE Submit \/ Supervise \/ Exchange \/ UNCHANGED vars
  <2>1. /\ UNCHANGED <<lock, window, closer, faults>> /\ orch'.exec = orch.exec
        /\ Submitted' <=> Submitted
    BY <1>1 DEF Submit, Supervise, SupervisorTick, SupervisorRestart, Exchange, Fill, Expire,
       UserTrade, vars, Goto, OrchTypeOK, Submitted
  <2> QED BY <2>1, SameHands
<1>2. CASE Stream
  <2>1. UNCHANGED <<lock, window, faults, orch>>
    BY <1>2 DEF Stream, StreamPosition, StreamManualOpen, StreamFilled
  <2>2. \A c \in Closers : closer[c].pc = "stabilise" => closer'[c] = closer[c]
    BY <1>2 DEF Stream, StreamPosition, StreamManualOpen, StreamFilled, HandTypeOK
  <2> QED BY <2>1, <2>2 DEF Owned, LockHasLiveHolder, WindowMatchesSubmission, IsIdle,
             IsClosed, Submitted
<1>3. ASSUME NEW c \in Closers, CloserStep(c)
      PROVE  Owned'
  <2>1. UNCHANGED <<window, faults, orch>>
    BY <1>3 DEF CloserStep, CloserBusy, CloserBegin, CloserAct
  <2>2. WindowMatchesSubmission'
    BY <2>1 DEF Owned, WindowMatchesSubmission, IsClosed, Submitted
  <2>3. CASE lock' = Abort(lock)
    BY <2>2, <2>3, Unowned DEF Abort, IsIdle, IdleLock
  <2>4. CASE CloserBegin(c)
    <3>1. closer'[c] = [pc |-> "stabilise", exec |-> lastExec + 1] /\ lock'.owner = lastExec + 1
      BY <2>4 DEF CloserBegin, HandTypeOK, Acquired
    <3> QED BY <2>2, <3>1 DEF Owned, LockHasLiveHolder
  <2> QED BY <1>3, <2>3, <2>4 DEF CloserStep, CloserBusy, CloserAct
<1>4. CASE \E exec \in Execs, byReport \in BOOLEAN : PlaceBrackets(exec, byReport)
  BY <1>4, BracketsAppend, SameHands DEF Submitted
<1> QED BY <1>1, <1>2, <1>3, <1>4

(* Owned is an invariant.                                                  *)
LEMMA OwnedHolds == Spec => []Owned
<1>1. Init => Owned
  BY DEF Init, Owned, LockHasLiveHolder, WindowMatchesSubmission, IsIdle, IdleLock, IsClosed,
     ClosedWindow, Submitted, IdleOrch
<1>2. IInv /\ Owned /\ [Next]_vars => Owned'
  BY OrchestrateOwned, OthersOwned DEF Next
<1> QED BY <1>1, <1>2, IInvHolds, PTL DEF Spec

(***************************************************************************)
(* As long as no journal append raises, a taken lock belongs to a coroutine *)
(* that will give it up, however often it is taken away and by whom.       *)
(***************************************************************************)
THEOREM LockNeverOrphaned == Spec => []LockHasLiveHolder
<1>1. Owned => LockHasLiveHolder
  BY DEF Owned
<1> QED BY <1>1, OwnedHolds, PTL

(***************************************************************************)
(* As long as no journal append raises, the execution window is open        *)
(* exactly while a submission executes, and for that submission.           *)
(***************************************************************************)
THEOREM WindowNeverLeaks == Spec => []WindowMatchesSubmission
<1>1. Owned => WindowMatchesSubmission
  BY DEF Owned
<1> QED BY <1>1, OwnedHolds, PTL

(***************************************************************************)
(* No market order is placed by anyone in a state other than READY,         *)
(* although the checks behind it are made before sleeps, polls and REST     *)
(* calls; and the brackets, which check nothing else, at least never go out *)
(* in FROZEN.                                                              *)
(***************************************************************************)
THEOREM MarketOrdersAlwaysNeedReady == Spec => MarketOrdersNeedReady
<1> DEFINE Bracket == orders'[Len(orders')].action = "BRACKET" /\ status # "FROZEN"
<1>1. ASSUME IInv, [Next]_vars, orders' # orders
      PROVE  status = "READY" \/ Bracket
  <2>1. ~ (Submit \/ Supervise \/ Stream \/ Exchange \/ UNCHANGED vars)
    BY <1>1 DEF Submit, Supervise, SupervisorTick, SupervisorRestart, Stream, StreamPosition,
       StreamManualOpen, StreamFilled, Exchange, Fill, Expire, UserTrade, vars, bookVars
  <2>2. CASE Orchestrate
    <3>1. ExecuteStep
      BY <1>1, <2>2 DEF Orchestrate, TurnAway, Begin, Busy, Plan, StepsOver, StepRefused,
         ConfirmPoll, ConfirmRaises, NotYetReflected, StepConfirmed, ReconcileRaises,
         Reconcile, VerifyRestart, Complete, VerifyRaises, Mismatch, Fail, bookVars
    <3> QED BY <3>1 DEF ExecuteStep, MayExecute
  <2>3. CASE \E c \in Closers : CloserStep(c)
    BY <1>1, <2>3 DEF CloserStep, CloserBusy, CloserBegin, CloserAct, ExecutePlan, bookVars
  <2>4. ASSUME NEW exec \in Execs, NEW byReport \in BOOLEAN, PlaceBrackets(exec, byReport)
        PROVE  Bracket
    <3>1. status # "FROZEN"
      BY <2>4 DEF PlaceBrackets, TradeGuard
    <3>2. orders \in Seq([exec : Nat, action : OrderKinds]) /\ exec \in Nat
          /\ "BRACKET" \in OrderKinds
      BY <1>1, OrderAssumption DEF IInv, TypeOK, BookTypeOK, Execs, OrderKinds
    <3>3. Grows(exec, "BRACKET") /\ orders' \in Seq([exec : Nat, action : OrderKinds])
      BY <2>4, <3>2, BracketsAppend, OrdersGrow
    <3>4. Len(orders') = Len(orders) + 1
      BY <3>3 DEF Grows
    <3> QED BY <3>1, <3>3, <3>4 DEF Grows
  <2> QED BY <1>1, <2>1, <2>2, <2>3, <2>4 DEF Next
<1> QED BY <1>1, IInvHolds, PTL DEF Spec, MarketOrdersNeedReady
-----------------------------------------------------------------------------
(* What the journal tells: rows and orders are counted.                    *)

(* How many elements of a sequence are in a set.                           *)
Count(s, R) == Cardinality({i \in DOMAIN s : s[i] \in R})

(* Positions picked from a sequence are finitely many.                     *)
LEMMA PickedFinite ==
  ASSUME NEW S, NEW s \in Seq(S), NEW T \in SUBSET DOMAIN s
  PROVE  IsFiniteSet(T) /\ Cardinality(T) \in Nat
<1>1. IsFiniteSet(1 .. Len(s)) /\ DOMAIN s = 1 .. Len(s)
  BY FS_Interval
<1> QED BY <1>1, FS_Subset, FS_CardinalityType

(* A count grows by one with an element of the set, and else stays.        *)
LEMMA CountAppend ==
  ASSUME NEW S, NEW s \in Seq(S), NEW x \in S, NEW R
  PROVE  /\ Count(s, R) \in Nat
         /\ Count(Append(s, x), R) = IF x \in R THEN Count(s, R) + 1 ELSE Count(s, R)
<1> DEFINE n == Len(s)
           t == Append(s, x)
           P == {i \in DOMAIN s : s[i] \in R}
           Q == {i \in DOMAIN t : t[i] \in R}
<1>1. n \in Nat /\ DOMAIN s = 1 .. n /\ DOMAIN t = 1 .. n + 1
      /\ (\A i \in 1 .. n : t[i] = s[i]) /\ t[n + 1] = x
  BY AppendProperties
<1>2. IsFiniteSet(P) /\ Cardinality(P) \in Nat
  BY PickedFinite
<1>3. n + 1 \notin P
  BY <1>1
<1>4. CASE x \in R
  <2>1. Q = P \cup {n + 1}
    <3> HIDE DEF t, n
    <3> QED BY <1>1, <1>4
  <2>2. Cardinality(Q) = Cardinality(P) + 1
    <3> HIDE DEF P, Q
    <3> QED BY <1>2, <1>3, <2>1, FS_AddElement
  <2> QED BY <1>2, <1>4, <2>2 DEF Count
<1>5. CASE x \notin R
  <2>1. Q = P
    <3> HIDE DEF t, n
    <3> QED BY <1>1, <1>5
  <2> QED BY <1>2, <1>5, <2>1 DEF Count
<1> QED BY <1>4, <1>5

(* It stays when nothing of the set is added.                              *)
LEMMA CountConcat ==
  ASSUME NEW S, NEW s \in Seq(S), NEW u \in Seq(S), NEW R, \A i \in DOMAIN u : u[i] \notin R
  PROVE  Count(s \o u, R) = Count(s, R)
<1> DEFINE t == s \o u
<1>1. /\ Len(s) \in Nat /\ Len(u) \in Nat /\ DOMAIN s = 1 .. Len(s) /\ DOMAIN u = 1 .. Len(u)
      /\ DOMAIN t = 1 .. Len(s) + Len(u)
      /\ \A i \in 1 .. Len(s) : t[i] = s[i]
      /\ \A i \in 1 .. Len(u) : t[Len(s) + i] = u[i]
  BY ConcatProperties
<1>2. ASSUME NEW i \in DOMAIN t, t[i] \in R
      PROVE  i \in DOMAIN s /\ s[i] \in R
  <2>1. CASE i <= Len(s)
    BY <1>1, <1>2, <2>1
  <2>2. CASE i > Len(s)
    <3>1. i - Len(s) \in 1 .. Len(u) /\ i = Len(s) + (i - Len(s))
      BY <1>1, <2>2
    <3> HIDE DEF t
    <3> QED BY <1>1, <1>2, <3>1
  <2> QED BY <1>1, <2>1, <2>2
<1>3. ASSUME NEW i \in DOMAIN s, s[i] \in R
      PROVE  i \in DOMAIN t /\ t[i] \in R
  BY <1>1, <1>3
<1>4. {i \in DOMAIN t : t[i] \in R} = {i \in DOMAIN s : s[i] \in R}
  <2> HIDE DEF t
  <2> QED BY <1>2, <1>3
<1> QED BY <1>4 DEF Count

(* An empty sequence counts nothing, and a count is positive with a witness. *)
LEMMA CountZero ==
  ASSUME NEW S, NEW s \in Seq(S), NEW R
  PROVE  Count(s, R) > 0 <=> \E i \in DOMAIN s : s[i] \in R
<1> DEFINE P == {i \in DOMAIN s : s[i] \in R}
<1>1. IsFiniteSet(P) /\ Cardinality(P) \in Nat
  BY PickedFinite
<1>2. Cardinality(P) = 0 <=> P = {}
  BY <1>1, FS_EmptySet
<1> QED BY <1>1, <1>2 DEF Count

(* An order counts for its execution and no other.                         *)
LEMMA OrdersAppend ==
  ASSUME orders \in Seq([exec : Nat, action : OrderKinds]),
         NEW x \in Nat, NEW a \in Actions, orders' = Append(orders, [exec |-> x, action |-> a]),
         NEW e
  PROVE  /\ OrdersOf(e) \in Nat
         /\ OrdersOf(e)' = IF e = x THEN OrdersOf(e) + 1 ELSE OrdersOf(e)
<1> DEFINE n == Len(orders)
           o == [exec |-> x, action |-> a]
           P == {i \in DOMAIN orders : orders[i].action \in Actions /\ orders[i].exec = e}
           Q == {i \in DOMAIN orders' : orders'[i].action \in Actions /\ orders'[i].exec = e}
<1>0. o \in [exec : Nat, action : OrderKinds] /\ o.exec = x /\ o.action \in Actions
  BY DEF OrderKinds
<1> HIDE DEF o
<1>1. n \in Nat /\ DOMAIN orders = 1 .. n /\ DOMAIN orders' = 1 .. n + 1
      /\ (\A i \in 1 .. n : orders'[i] = orders[i]) /\ orders'[n + 1] = o
  BY <1>0, AppendProperties DEF o
<1>2. IsFiniteSet(P) /\ Cardinality(P) \in Nat
  BY PickedFinite
<1>3. n + 1 \notin P
  BY <1>1
<1>4. CASE e = x
  <2>1. Q = P \cup {n + 1}
    <3> HIDE DEF n
    <3> QED BY <1>0, <1>1, <1>4
  <2>2. Cardinality(Q) = Cardinality(P) + 1
    <3> HIDE DEF P, Q
    <3> QED BY <1>2, <1>3, <2>1, FS_AddElement
  <2> QED BY <1>2, <1>4, <2>2 DEF OrdersOf, Market
<1>5. CASE e # x
  <2>1. Q = P
    <3> HIDE DEF n
    <3> QED BY <1>0, <1>1, <1>5
  <2> QED BY <1>2, <1>5, <2>1 DEF OrdersOf, Market
<1> QED BY <1>4, <1>5

(* A bracket counts for none.                                              *)
LEMMA BracketsUncounted ==
  ASSUME orders \in Seq([exec : Nat, action : OrderKinds]), NEW x \in Nat,
         orders' = Append(orders, [exec |-> x, action |-> "BRACKET"]), NEW e
  PROVE  OrdersOf(e)' = OrdersOf(e)
<1> DEFINE P == {i \in DOMAIN orders : orders[i].action \in Actions /\ orders[i].exec = e}
           Q == {i \in DOMAIN orders' : orders'[i].action \in Actions /\ orders'[i].exec = e}
<1>1. Grows(x, "BRACKET")
  BY OrdersGrow DEF OrderKinds
<1>2. orders'[Len(orders) + 1].action \notin Actions
  BY <1>1 DEF Grows, Actions
<1>3. Q = P
  BY <1>1, <1>2 DEF Grows
<1> QED BY <1>3 DEF OrdersOf, Market

-----------------------------------------------------------------------------
(***************************************************************************)
(* What a step can do to the journal, the accepted orders, the breaker's    *)
(* count and the executions under way.                                     *)
(***************************************************************************)
SentRows == {"CLOSE_SENT", "OPEN_SENT"}

Writes(row) == journal' = [journal EXCEPT ![orch.exec] = Append(@, row)]
Places(x)   == \E a \in Actions : orders' = Append(orders, [exec |-> x, action |-> a])

GoesOn   == Submitted /\ Submitted' /\ orch'.exec = orch.exec
SameHand == (Submitted' <=> Submitted) /\ (Submitted => orch'.exec = orch.exec)

(* A stabilising closer was one before, or has drawn the newest id.        *)
HandsDraw ==
  \A c \in Closers : closer'[c].pc = "stabilise" =>
    \/ closer'[c] = closer[c]
    \/ closer'[c].exec = lastExec' /\ lastExec' = lastExec + 1

(* No order is accepted, or a bracket, which has no rows.                  *)
Uncounted ==
  \/ UNCHANGED orders
  \/ \E x \in Execs : orders' = Append(orders, [exec |-> x, action |-> "BRACKET"])

Unwritten ==
  /\ SameHand /\ HandsDraw /\ lastExec' \in {lastExec, lastExec + 1}
  /\ Uncounted /\ UNCHANGED <<journal, failures>>

Began ==
  /\ ~ Submitted /\ Submitted' /\ orch'.exec = lastExec + 1 /\ lastExec' = lastExec + 1
  /\ journal' = [journal EXCEPT ![lastExec + 1] = <<"STARTED">>]
  /\ UNCHANGED <<orders, closer, failures>>

Confirmed ==
  /\ GoesOn /\ \E row \in {"CLOSE_CONFIRMED", "OPEN_CONFIRMED"} : Writes(row)
  /\ UNCHANGED <<orders, lastExec, closer, failures>>

SentAndNoted ==
  /\ GoesOn /\ Places(orch.exec) /\ \E row \in SentRows : Writes(row)
  /\ UNCHANGED <<lastExec, closer, failures>>

(* An order whose row or reply is lost, or that of a closer, which has none. *)
SentUnnoted ==
  /\ SameHand /\ HandsDraw /\ UNCHANGED <<journal, lastExec, failures>>
  /\ \/ GoesOn /\ Places(orch.exec) /\ (faults' # 0 \/ lost' # 0)
     \/ \E c \in Closers : closer[c].pc = "stabilise" /\ Places(closer[c].exec)

Ended ==
  /\ Submitted /\ orch' = IdleOrch /\ failures' = 0
  /\ \/ \E row \in {"COMPLETED", "FAILED_MISMATCH"} : Writes(row)
     \/ UNCHANGED journal /\ faults' # 0
  /\ UNCHANGED <<orders, lastExec, closer>>

Failed ==
  /\ Submitted /\ orch' = IdleOrch
  /\ \E n \in 0 .. Len(FailureRows(failures + 1)) :
       /\ journal' = [journal EXCEPT ![orch.exec] =
                        @ \o SubSeq(FailureRows(failures + 1), 1, n)]
       /\ \/ n = Len(FailureRows(failures + 1)) /\ failures' = failures + 1
          \/ faults' # 0
  /\ UNCHANGED <<orders, lastExec, closer>>

JournalStep == Unwritten \/ Began \/ Confirmed \/ SentAndNoted \/ SentUnnoted \/ Ended \/ Failed

(* Faults and lost replies are not taken back.                             *)
LEMMA FaultsRemain ==
  ASSUME IInv, [Next]_vars
  PROVE  (faults' = 0 => faults = 0) /\ (lost' = 0 => lost = 0)
<1>0. faults \in Nat /\ lost \in Nat
  BY OrderAssumption DEF IInv, TypeOK, LogTypeOK, BookTypeOK
<1>1. CASE Orchestrate
  <2>1. CASE Fail
    BY <1>0, <2>1 DEF Fail, bookVars
  <2>2. CASE ExecuteStep
    BY <1>0, <2>2 DEF ExecuteStep, OrderAnswered, OrderRaises, Append1, AppendRaises, bookVars,
       logVars
  <2>3. CASE StepConfirmed \/ Complete \/ Mismatch \/ \E i \in PolicyIntents : Begin(i)
    BY <1>0, <2>3 DEF StepConfirmed, Complete, Mismatch, Begin, Append1, AppendRaises, bookVars,
       logVars
  <2> QED BY <1>1, <2>1, <2>2, <2>3 DEF Orchestrate, TurnAway, Busy, Plan, StepsOver,
     StepRefused, ConfirmPoll, ConfirmRaises, NotYetReflected, ReconcileRaises, Reconcile,
     VerifyRestart, VerifyRaises, bookVars, logVars
<1>2. CASE \E c \in Closers : CloserStep(c)
  BY <1>0, <1>2 DEF CloserStep, CloserBusy, CloserBegin, CloserAct, ExecutePlan, ClosePosition,
     OrderAnswered, OrderRaises, bookVars, logVars
<1>3. CASE Submit \/ Supervise \/ Stream \/ Exchange \/ UNCHANGED vars
  BY <1>3 DEF Submit, Supervise, SupervisorTick, SupervisorRestart, Stream, StreamPosition,
     StreamManualOpen, StreamFilled, Exchange, Fill, Expire, UserTrade, vars, bookVars, logVars
<1>4. CASE \E exec \in Execs, byReport \in BOOLEAN : PlaceBrackets(exec, byReport)
  BY <1>4, BracketsAppend DEF logVars
<1> QED BY <1>1, <1>2, <1>3, <1>4 DEF Next

(* A submission's step is one of these.                                    *)
LEMMA OrchestrateJournals ==
  ASSUME IInv, Orchestrate
  PROVE  JournalStep
<1> USE DEF Goto, lockVars, handVars, logVars, bookVars
<1>0. /\ faults \in Nat /\ lost \in Nat
      /\ orch = [pc |-> orch.pc, exec |-> orch.exec, target |-> orch.target, plan |-> orch.plan]
  BY OrderAssumption DEF IInv, TypeOK, LogTypeOK, OrchTypeOK, BookTypeOK
<1>1. CASE Busy \/ \E i \in PolicyIntents : TurnAway(i)
  BY <1>1 DEF Busy, TurnAway, Submitted, IdleOrch, JournalStep, Unwritten, Uncounted, SameHand, HandsDraw
<1>2. CASE Plan \/ StepsOver \/ StepRefused \/ ConfirmPoll \/ ConfirmRaises \/ NotYetReflected
           \/ ReconcileRaises \/ Reconcile \/ VerifyRestart \/ VerifyRaises
  <2>1. Submitted /\ Submitted' /\ orch'.exec = orch.exec
    BY <1>0, <1>2 DEF Plan, StepsOver, StepRefused, ConfirmPoll, ConfirmRaises, NotYetReflected,
       ReconcileRaises, Reconcile, VerifyRestart, VerifyRaises, Submitted
  <2>2. UNCHANGED <<journal, orders, failures, lastExec, closer>>
    BY <1>2 DEF Plan, StepsOver, StepRefused, ConfirmPoll, ConfirmRaises, NotYetReflected,
       ReconcileRaises, Reconcile, VerifyRestart, VerifyRaises
  <2> QED BY <2>1, <2>2 DEF JournalStep, Unwritten, Uncounted, SameHand, HandsDraw
<1>3. CASE \E i \in PolicyIntents : Begin(i)
  <2>1. ~ Submitted /\ lastExec' = lastExec + 1 /\ UNCHANGED <<orders, closer, failures>>
    BY <1>3 DEF Begin, Submitted
  <2>2. CASE orch' = IdleOrch /\ UNCHANGED journal
    BY <2>1, <2>2 DEF Submitted, IdleOrch, JournalStep, Unwritten, Uncounted, SameHand, HandsDraw
  <2>3. CASE journal' = [journal EXCEPT ![lastExec + 1] = <<"STARTED">>]
             /\ orch'.pc = "plan" /\ orch'.exec = lastExec + 1
    BY <2>1, <2>3 DEF Submitted, JournalStep, Began
  <2>4. \/ orch' = IdleOrch /\ UNCHANGED journal
        \/ /\ journal' = [journal EXCEPT ![lastExec + 1] = <<"STARTED">>]
           /\ orch'.pc = "plan" /\ orch'.exec = lastExec + 1
    BY <1>3 DEF Begin, AppendRaises
  <2> QED BY <2>2, <2>3, <2>4
<1>4. CASE StepConfirmed
  <2>1. GoesOn
    BY <1>0, <1>4 DEF StepConfirmed, StepDone, GoesOn, Submitted
  <2>2. UNCHANGED <<orders, failures, lastExec, closer>>
    BY <1>4 DEF StepConfirmed
  <2>3. UNCHANGED journal \/ \E row \in {"CLOSE_CONFIRMED", "OPEN_CONFIRMED"} : Writes(row)
    BY <1>4 DEF StepConfirmed, ConfirmedEvent, Append1, AppendRaises, Writes
  <2> QED BY <2>1, <2>2, <2>3
          DEF GoesOn, JournalStep, Unwritten, Uncounted, Confirmed, SameHand, HandsDraw
<1>5. CASE ExecuteStep
  <2> DEFINE step == Head(orch.plan)
  <2>1. GoesOn
    BY <1>0, <1>5 DEF ExecuteStep, GoesOn, Submitted
  <2>2. UNCHANGED <<lastExec, closer, failures>>
    BY <1>5 DEF ExecuteStep
  <2>3. step.action \in Actions
    <3>1. orch.plan \in Seq(PlanSteps) /\ orch.plan # <<>>
      BY <1>5 DEF ExecuteStep, IInv, TypeOK, OrchTypeOK
    <3>2. step \in PlanSteps
      BY <3>1, HeadTailProperties
    <3> QED BY <3>2 DEF PlanSteps
  <2>4. CASE orders' = orders /\ UNCHANGED journal
    BY <2>1, <2>2, <2>4 DEF GoesOn, JournalStep, Unwritten, Uncounted, SameHand, HandsDraw
  <2>5. CASE Places(orch.exec) /\ UNCHANGED journal /\ (faults' # 0 \/ lost' # 0)
    BY <2>1, <2>2, <2>5 DEF GoesOn, JournalStep, SentUnnoted, SameHand, HandsDraw
  <2>6. CASE Places(orch.exec) /\ Writes(SentEvent(step))
    <3>1. SentEvent(step) \in SentRows
      BY DEF SentEvent, SentRows
    <3> QED BY <2>1, <2>2, <2>6, <3>1 DEF JournalStep, SentAndNoted
  <2>7. \/ /\ OrderAnswered(orch.exec, step.action, StepAmount(step))
           /\ Append1(SentEvent(step)) \/ AppendRaises
        \/ /\ OrderRaises(orch.exec, step.action, StepAmount(step))
           /\ UNCHANGED logVars
    BY <1>5 DEF ExecuteStep
  <2> QED BY <1>0, <2>3, <2>4, <2>5, <2>6, <2>7 DEF OrderAnswered, OrderRaises, Accept, Places,
     Append1, AppendRaises, Writes
<1>6. CASE Complete
  <2>1. Submitted /\ UNCHANGED <<orders, lastExec, closer>>
    BY <1>6 DEF Complete, Submitted
  <2>2. orch' = IdleOrch /\ failures' = 0
    BY <1>6 DEF Complete, Returned
  <2>3. Writes("COMPLETED") \/ (UNCHANGED journal /\ faults' # 0)
    BY <1>0, <1>6 DEF Complete, Append1, AppendRaises, Writes
  <2> QED BY <2>1, <2>2, <2>3 DEF JournalStep, Ended
<1>7. CASE Mismatch
  <2>1. Submitted /\ UNCHANGED <<orders, lastExec, closer>>
    BY <1>7 DEF Mismatch, Submitted
  <2>2. CASE Writes("FAILED_MISMATCH") /\ orch' = IdleOrch /\ failures' = 0
    BY <2>1, <2>2 DEF JournalStep, Ended
  <2>3. CASE UNCHANGED <<journal, failures>> /\ Goto("fail")
    <3>1. Submitted' /\ orch'.exec = orch.exec
      BY <1>0, <2>3 DEF Submitted
    <3> QED BY <2>1, <2>3, <3>1 DEF JournalStep, Unwritten, Uncounted, SameHand, HandsDraw
  <2> QED BY <1>7, <2>2, <2>3 DEF Mismatch, Append1, AppendRaises, Writes, Returned
<1>8. CASE Fail
  <2> DEFINE rows == FailureRows(failures + 1)
  <2>1. Submitted /\ UNCHANGED <<orders, lastExec, closer>> /\ orch' = IdleOrch
    BY <1>8 DEF Fail, Submitted
  <2>2. PICK n \in 0 .. Len(rows) :
          /\ journal' = [journal EXCEPT ![orch.exec] = @ \o SubSeq(rows, 1, n)]
          /\ failures' = IF n = 0 THEN failures ELSE failures + 1
          /\ IF n = Len(rows) THEN UNCHANGED faults ELSE faults' = faults + 1
    BY <1>8 DEF Fail
  <2>3. Len(rows) # 0
    BY DEF FailureRows
  <2>4. \/ n = Len(rows) /\ failures' = failures + 1
        \/ faults' # 0
    <3> HIDE DEF rows
    <3> QED BY <1>0, <2>2, <2>3
  <2> QED BY <2>1, <2>2, <2>4 DEF JournalStep, Failed
<1> QED BY <1>1, <1>2, <1>3, <1>4, <1>5, <1>6, <1>7, <1>8 DEF Orchestrate

(* So is every step.                                                       *)
LEMMA EveryJournalStep ==
  ASSUME IInv, [Next]_vars
  PROVE  JournalStep
<1> USE DEF Goto, lockVars, handVars, logVars, bookVars
<1>1. CASE Submit \/ Supervise \/ Exchange \/ UNCHANGED vars
  <2>1. UNCHANGED <<journal, orders, failures, lastExec, closer>>
    BY <1>1 DEF Submit, Supervise, SupervisorTick, SupervisorRestart, Exchange, Fill, Expire,
       UserTrade, vars
  <2>2. SameHand
    BY <1>1 DEF Submit, Supervise, SupervisorTick, SupervisorRestart, Exchange, Fill, Expire,
       UserTrade, vars, SameHand, Submitted, IInv, TypeOK, OrchTypeOK
  <2> QED BY <2>1, <2>2 DEF JournalStep, Unwritten, Uncounted, HandsDraw
<1>2. CASE Stream
  <2>1. UNCHANGED <<journal, orders, failures, lastExec, orch>>
    BY <1>2 DEF Stream, StreamPosition, StreamManualOpen, StreamFilled
  <2>2. \A c \in Closers : closer'[c].pc = "stabilise" => closer'[c] = closer[c]
    BY <1>2 DEF Stream, StreamPosition, StreamManualOpen, StreamFilled, IInv, TypeOK, HandTypeOK
  <2> QED BY <2>1, <2>2 DEF JournalStep, Unwritten, Uncounted, SameHand, HandsDraw, Submitted
<1>3. ASSUME NEW c \in Closers, CloserStep(c)
      PROVE  JournalStep
  <2>1. UNCHANGED <<journal, failures, orch>> /\ SameHand
    BY <1>3 DEF CloserStep, CloserBusy, CloserBegin, CloserAct, SameHand, Submitted
  <2>2. CASE CloserBegin(c)
    BY <2>1, <2>2 DEF CloserBegin, JournalStep, Unwritten, Uncounted, HandsDraw, IInv, TypeOK, HandTypeOK
  <2>3. CASE CloserDone(c) /\ lastExec' = lastExec
    <3>1. HandsDraw
      BY <2>3 DEF CloserDone, HandsDraw, NoCloser, IInv, TypeOK, HandTypeOK
    <3>2. CASE orders' = orders
      BY <2>1, <2>3, <3>1, <3>2 DEF JournalStep, Unwritten, Uncounted
    <3>3. CASE closer[c].pc = "stabilise" /\ Places(closer[c].exec)
      BY <2>1, <2>3, <3>1, <3>3 DEF JournalStep, SentUnnoted
    <3>4. orders' = orders \/ (closer[c].pc = "stabilise" /\ Places(closer[c].exec))
      BY <1>3, <2>3 DEF CloserStep, CloserBusy, CloserBegin, CloserAct, ExecutePlan,
         ClosePosition, OrderAnswered, OrderRaises, Accept, Places, Actions
    <3> QED BY <3>2, <3>3, <3>4
  <2> QED BY <1>3, <2>2, <2>3 DEF CloserStep, CloserBusy, CloserAct
<1>4. ASSUME NEW exec \in Execs, NEW byReport \in BOOLEAN, PlaceBrackets(exec, byReport)
      PROVE  JournalStep
  <2>1. UNCHANGED <<journal, failures, lastExec, orch, closer>> /\ Uncounted
    BY <1>4, BracketsAppend DEF Uncounted
  <2> QED BY <2>1 DEF JournalStep, Unwritten, SameHand, HandsDraw, Submitted
<1> QED BY <1>1, <1>2, <1>3, <1>4, OrchestrateJournals DEF Next

-----------------------------------------------------------------------------
(***************************************************************************)
(* JournalCoversOrders is inductive once an execution that has rows is one  *)
(* of a submission, and has been drawn.                                    *)
(***************************************************************************)
RowsDrawn ==
  /\ \A e \in Execs : journal[e] # <<>> => e <= lastExec
  /\ Submitted => orch.exec <= lastExec
  /\ orch.exec \in Execs /\ Submitted => journal[orch.exec] # <<>>
  /\ \A c \in Closers : closer[c].pc = "stabilise" => closer[c].exec <= lastExec
  /\ \A c \in Closers : closer[c].pc = "stabilise" /\ closer[c].exec \in Execs =>
       journal[closer[c].exec] = <<>>

SentOf(e) == RowsOf(e, SentRows)

RowsHaveOrders == \A e \in Execs : SentOf(e) <= OrdersOf(e)
OrdersHaveRows ==
  faults = 0 /\ lost = 0 => \A e \in Execs : journal[e] # <<>> => SentOf(e) = OrdersOf(e)

JournalInv == RowsDrawn /\ RowsHaveOrders /\ OrdersHaveRows

(* The counts are numbers.                                                 *)
LEMMA CountTypes ==
  ASSUME IInv
  PROVE  /\ \A e \in Execs : SentOf(e) \in Nat
         /\ \A e : OrdersOf(e) \in Nat
<1>1. ASSUME NEW e \in Execs PROVE SentOf(e) \in Nat
  <2>1. journal[e] \in Seq(Events)
    BY DEF IInv, TypeOK, LogTypeOK
  <2>2. {i \in DOMAIN journal[e] : journal[e][i] \in SentRows} \in SUBSET DOMAIN journal[e]
    OBVIOUS
  <2> QED BY <2>1, <2>2, PickedFinite DEF SentOf, RowsOf
<1>2. ASSUME NEW e PROVE OrdersOf(e) \in Nat
  <2>1. orders \in Seq([exec : Nat, action : OrderKinds])
    BY DEF IInv, TypeOK, BookTypeOK
  <2>2. {i \in DOMAIN orders : Market(i) /\ orders[i].exec = e} \in SUBSET DOMAIN orders
    OBVIOUS
  <2> QED BY <2>1, <2>2, PickedFinite DEF OrdersOf
<1> QED BY <1>1, <1>2

(* A row written to the submission's execution, and to no other.           *)
LEMMA RowWritten ==
  ASSUME IInv, NEW row \in Events, Writes(row), NEW e \in Execs
  PROVE  /\ journal'[e] # <<>> <=> journal[e] # <<>> \/ e = orch.exec
         /\ SentOf(e)' = IF e = orch.exec /\ row \in SentRows THEN SentOf(e) + 1 ELSE SentOf(e)
<1>1. journal[e] \in Seq(Events)
  BY DEF IInv, TypeOK, LogTypeOK
<1>2. CASE e = orch.exec
  <2>1. journal'[e] = Append(journal[e], row)
    BY <1>2 DEF Writes, IInv, TypeOK, LogTypeOK
  <2>2. journal'[e] # <<>>
    BY <1>1, <2>1, AppendProperties
  <2>3. Count(journal'[e], SentRows)
          = IF row \in SentRows THEN Count(journal[e], SentRows) + 1 ELSE Count(journal[e], SentRows)
    BY <1>1, <2>1, CountAppend
  <2> QED BY <1>2, <2>2, <2>3 DEF SentOf, RowsOf, Count
<1>3. CASE e # orch.exec
  <2>1. journal'[e] = journal[e]
    BY <1>3 DEF Writes, IInv, TypeOK, LogTypeOK
  <2> QED BY <1>3, <2>1 DEF SentOf, RowsOf
<1> QED BY <1>2, <1>3

(* The rows of a failure are no SENT rows.                                 *)
LEMMA FailureRowsType ==
  ASSUME NEW k, NEW n \in 0 .. Len(FailureRows(k))
  PROVE  /\ SubSeq(FailureRows(k), 1, n) \in Seq(Events)
         /\ \A i \in DOMAIN SubSeq(FailureRows(k), 1, n) :
              SubSeq(FailureRows(k), 1, n)[i] \notin SentRows
<1> DEFINE R == {"FAILED_RUNTIME", "BREAK_INCREMENT", "SYSTEM_FROZEN"}
           rows == FailureRows(k)
           u == SubSeq(rows, 1, n)
<1>1. rows \in Seq(R) /\ Len(rows) \in Nat
  <2>1. /\ <<"FAILED_RUNTIME", "BREAK_INCREMENT">> \in Seq(R)
        /\ <<"FAILED_RUNTIME", "BREAK_INCREMENT", "SYSTEM_FROZEN">> \in Seq(R)
    OBVIOUS
  <2>2. rows \in Seq(R)
    BY <2>1 DEF FailureRows
  <2> HIDE DEF rows
  <2> QED BY <2>2
<1>2. R \cap SentRows = {} /\ R \subseteq Events
  BY DEF SentRows, Events, ExecutionFailed
<1> HIDE DEF R, rows
<1>3. u \in Seq(R)
  BY <1>1, SubSeqProperties DEF rows
<1> HIDE DEF u
<1>4. \A i \in DOMAIN u : u[i] \in R
  BY <1>3
<1>5. u \in Seq(Events)
  BY <1>2, <1>3
<1> QED BY <1>2, <1>4, <1>5 DEF u, rows

(* JournalInv is inductive.                                                *)
LEMMA JournalInvStep ==
  ASSUME IInv, OrderInv, JournalInv, [Next]_vars
  PROVE  JournalInv'
<1> USE DEF JournalInv
<1>0. /\ lastExec \in Nat /\ orch.exec \in Nat /\ \A c \in Closers : closer[c].exec \in Nat
      /\ orders \in Seq([exec : Nat, action : OrderKinds])
      /\ journal \in [Execs -> Seq(Events)]
  BY DEF IInv, TypeOK, LockTypeOK, OrchTypeOK, HandTypeOK, BookTypeOK, LogTypeOK
<1>a. /\ \A e \in Execs : SentOf(e) \in Nat
      /\ \A e : OrdersOf(e) \in Nat
  BY CountTypes
<1>b. (faults' = 0 => faults = 0) /\ (lost' = 0 => lost = 0)
  BY FaultsRemain
<1>c. ASSUME Uncounted PROVE \A e : OrdersOf(e)' = OrdersOf(e)
  <2>1. CASE UNCHANGED orders
    BY <2>1 DEF OrdersOf, Market
  <2>2. ASSUME NEW x \in Execs,
               orders' = Append(orders, [exec |-> x, action |-> "BRACKET"])
        PROVE  \A e : OrdersOf(e)' = OrdersOf(e)
    <3>1. x \in Nat /\ orders \in Seq([exec : Nat, action : OrderKinds])
      BY <1>0, OrderAssumption DEF Execs
    <3> QED BY Zenon, <2>2, <3>1, BracketsUncounted
  <2> QED BY <1>c, <2>1, <2>2 DEF Uncounted
<1>d. ASSUME UNCHANGED journal PROVE \A e : SentOf(e)' = SentOf(e)
  BY <1>d DEF SentOf, RowsOf
<1>e. ASSUME NEW x \in Nat, Places(x)
      PROVE  \A e : OrdersOf(e)' = IF e = x THEN OrdersOf(e) + 1 ELSE OrdersOf(e)
  BY <1>0, <1>e, OrdersAppend DEF Places
<1>1. CASE Unwritten
  <2>1. RowsDrawn'
    <3>1. Submitted' => Submitted /\ orch'.exec = orch.exec
      BY <1>1 DEF Unwritten, SameHand
    <3>2. \A e \in Execs : journal[e] # <<>> => e <= lastExec'
      BY <1>0, <1>1 DEF Unwritten, RowsDrawn, Execs
    <3>3. ASSUME NEW c \in Closers, closer'[c].pc = "stabilise"
          PROVE  /\ closer'[c].exec <= lastExec'
                 /\ closer'[c].exec \in Execs => journal[closer'[c].exec] = <<>>
      <4>1. CASE closer'[c] = closer[c]
        BY <1>0, <1>1, <3>3, <4>1 DEF Unwritten, RowsDrawn
      <4>2. CASE closer'[c].exec = lastExec' /\ lastExec' = lastExec + 1
        BY <1>0, <4>2 DEF RowsDrawn, Execs
      <4> QED BY <1>1, <3>3, <4>1, <4>2 DEF Unwritten, HandsDraw
    <3> QED BY <1>0, <1>1, <3>1, <3>2, <3>3 DEF Unwritten, RowsDrawn
  <2> QED BY <1>1, <1>b, <1>c, <1>d, <2>1 DEF Unwritten, RowsHaveOrders, OrdersHaveRows
<1>2. CASE Began
  <2>0. PICK x \in Nat : x = lastExec + 1
    BY <1>0
  <2>1. journal' = [journal EXCEPT ![x] = <<"STARTED">>] /\ lastExec' = x
        /\ Submitted' /\ orch'.exec = x /\ UNCHANGED <<orders, closer>>
    BY <1>2, <2>0 DEF Began
  <2>2. \A e \in Execs : IF e = x THEN journal'[e] = <<"STARTED">> ELSE journal'[e] = journal[e]
    BY <1>0, <2>1
  <2>3. RowsDrawn'
    BY <1>0, <2>0, <2>1, <2>2 DEF RowsDrawn, Execs
  <2>4. OrdersOf(x) = 0
    <3>1. \A i \in DOMAIN orders : orders[i].exec \in Nat /\ orders[i].exec <= lastExec
      BY <1>0, OrderFields DEF OrderInv
    <3>2. {i \in DOMAIN orders : Market(i) /\ orders[i].exec = x} = {}
      BY <1>0, <2>0, <3>1
    <3> QED BY <3>2, FS_EmptySet DEF OrdersOf
  <2>5. x \in Execs => SentOf(x)' = 0
    <3>1. {i \in DOMAIN <<"STARTED">> : <<"STARTED">>[i] \in SentRows} = {}
      BY DEF SentRows
    <3>2. Count(<<"STARTED">>, SentRows) = 0
      BY <3>1, FS_EmptySet DEF Count
    <3>3. x \in Execs => journal'[x] = <<"STARTED">>
      BY <2>2
    <3>4. x \in Execs => Count(journal'[x], SentRows) = 0
      BY <3>2, <3>3
    <3> QED BY <3>4 DEF SentOf, RowsOf, Count
  <2>6. \A e \in Execs : e # x => SentOf(e)' = SentOf(e)
    BY <2>2 DEF SentOf, RowsOf
  <2>7. RowsHaveOrders' /\ OrdersHaveRows'
    <3>1. \A e : OrdersOf(e)' = OrdersOf(e)
      BY <1>c, <2>1 DEF Uncounted
    <3>2. \A e \in Execs : e # x => journal'[e] = journal[e]
      BY <2>2
    <3>3. x \in Execs => SentOf(x)' = 0 /\ OrdersOf(x)' = 0
      BY <2>4, <2>5, <3>1
    <3>4. RowsHaveOrders'
      BY <2>6, <3>1, <3>3 DEF RowsHaveOrders
    <3>5. OrdersHaveRows'
      BY <1>b, <2>6, <3>1, <3>2, <3>3 DEF OrdersHaveRows
    <3> QED BY <3>4, <3>5
  <2> QED BY <2>3, <2>7
<1>3. ASSUME NEW row \in Events, Writes(row), row \notin SentRows, Submitted,
             UNCHANGED <<orders, lastExec, closer>>,
             Submitted' => orch'.exec = orch.exec
      PROVE  JournalInv'
  <2>1. \A e \in Execs : /\ SentOf(e)' = SentOf(e)
                         /\ journal'[e] # <<>> <=> journal[e] # <<>> \/ e = orch.exec
    BY <1>3, RowWritten
  <2>2. orch.exec \in Execs => journal[orch.exec] # <<>>
    BY <1>3 DEF RowsDrawn
  <2>3. RowsDrawn'
    BY <1>3, <2>1, <2>2 DEF RowsDrawn
  <2> QED BY <1>b, <1>c, <1>3, <2>1, <2>2, <2>3 DEF RowsHaveOrders, OrdersHaveRows, Uncounted
<1>4. CASE Confirmed
  <2>1. {"CLOSE_CONFIRMED", "OPEN_CONFIRMED"} \subseteq Events \ SentRows
    BY DEF Events, SentRows
  <2> QED BY <1>3, <1>4, <2>1 DEF Confirmed, GoesOn
<1>5. CASE SentAndNoted
  <2>1. PICK row \in SentRows : Writes(row)
    BY <1>5 DEF SentAndNoted
  <2>2. row \in Events
    BY DEF SentRows, Events
  <2>3. \A e \in Execs :
          /\ SentOf(e)' = IF e = orch.exec THEN SentOf(e) + 1 ELSE SentOf(e)
          /\ journal'[e] # <<>> <=> journal[e] # <<>> \/ e = orch.exec
    BY <2>1, <2>2, RowWritten
  <2>4. \A e : OrdersOf(e)' = IF e = orch.exec THEN OrdersOf(e) + 1 ELSE OrdersOf(e)
    BY <1>0, <1>5, <1>e DEF SentAndNoted
  <2>5. orch.exec \in Execs => journal[orch.exec] # <<>>
    BY <1>5 DEF SentAndNoted, GoesOn, RowsDrawn
  <2>6. RowsDrawn'
    BY <1>5, <2>3, <2>5 DEF SentAndNoted, GoesOn, RowsDrawn
  <2>7. RowsHaveOrders' /\ OrdersHaveRows'
    BY <1>a, <1>b, <2>3, <2>4, <2>5 DEF RowsHaveOrders, OrdersHaveRows
  <2> QED BY <2>6, <2>7
<1>6. CASE SentUnnoted
  <2>1. UNCHANGED <<journal, lastExec>> /\ SameHand /\ HandsDraw
    BY <1>6 DEF SentUnnoted
  <2>2. RowsDrawn'
    <3>1. \A c \in Closers : closer'[c].pc = "stabilise" => closer'[c] = closer[c]
      BY <1>0, <2>1 DEF HandsDraw
    <3> QED BY <2>1, <3>1 DEF RowsDrawn, SameHand
  <2>3. PICK x \in Nat :
          /\ Places(x)
          /\ \/ faults' # 0 \/ lost' # 0
             \/ x \in Execs => journal[x] = <<>>
    <3>1. CASE Places(orch.exec) /\ (faults' # 0 \/ lost' # 0)
      BY <1>0, <3>1
    <3>2. CASE \E c \in Closers : closer[c].pc = "stabilise" /\ Places(closer[c].exec)
      BY <1>0, <3>2 DEF RowsDrawn
    <3> QED BY <1>6, <3>1, <3>2 DEF SentUnnoted
  <2>4. \A e : OrdersOf(e)' = IF e = x THEN OrdersOf(e) + 1 ELSE OrdersOf(e)
    BY <1>e, <2>3
  <2>5. RowsHaveOrders'
    BY <1>a, <1>d, <2>1, <2>4 DEF RowsHaveOrders
  <2>6. OrdersHaveRows'
    BY <1>b, <1>d, <2>1, <2>3, <2>4 DEF OrdersHaveRows
  <2> QED BY <2>2, <2>5, <2>6
<1>7. CASE Ended
  <2>1. CASE UNCHANGED journal
    <3>1. ~ Submitted' /\ UNCHANGED <<orders, lastExec, closer, journal>>
      BY <1>7, <2>1 DEF Ended, IdleOrch, Submitted
    <3>2. RowsDrawn'
      BY <3>1 DEF RowsDrawn
    <3> QED BY <1>b, <1>c, <1>d, <3>1, <3>2 DEF RowsHaveOrders, OrdersHaveRows, Uncounted
  <2>2. CASE \E row \in {"COMPLETED", "FAILED_MISMATCH"} : Writes(row)
    <3>1. {"COMPLETED", "FAILED_MISMATCH"} \subseteq Events \ SentRows
      BY DEF Events, ExecutionFailed, SentRows
    <3>2. ~ Submitted'
      BY <1>7 DEF Ended, IdleOrch, Submitted
    <3> QED BY <1>3, <1>7, <2>2, <3>1, <3>2 DEF Ended
  <2> QED BY <1>7, <2>1, <2>2 DEF Ended
<1>8. CASE Failed
  <2>1. PICK n \in 0 .. Len(FailureRows(failures + 1)) :
          journal' = [journal EXCEPT ![orch.exec] =
                        @ \o SubSeq(FailureRows(failures + 1), 1, n)]
    BY <1>8 DEF Failed
  <2> DEFINE u == SubSeq(FailureRows(failures + 1), 1, n)
  <2>2. u \in Seq(Events) /\ \A i \in DOMAIN u : u[i] \notin SentRows
    BY FailureRowsType
  <2>3. journal' = [journal EXCEPT ![orch.exec] = journal[orch.exec] \o u]
    BY <2>1
  <2> HIDE DEF u
  <2>4. ASSUME NEW e \in Execs
        PROVE  /\ SentOf(e)' = SentOf(e)
               /\ e # orch.exec => journal'[e] = journal[e]
    <3>1. CASE e = orch.exec
      <4>1. journal'[e] = journal[e] \o u /\ journal[e] \in Seq(Events)
        BY <1>0, <2>3, <3>1
      <4>2. Count(journal'[e], SentRows) = Count(journal[e], SentRows)
        BY <2>2, <4>1, CountConcat
      <4> QED BY <3>1, <4>2 DEF SentOf, RowsOf, Count
    <3>2. CASE e # orch.exec
      <4>1. journal'[e] = journal[e]
        BY <1>0, <2>3, <3>2
      <4> QED BY <3>2, <4>1 DEF SentOf, RowsOf
    <3> QED BY <3>1, <3>2
  <2>5. ~ Submitted' /\ Submitted /\ UNCHANGED <<orders, lastExec, closer>>
    BY <1>8 DEF Failed, IdleOrch, Submitted
  <2>6. orch.exec \in Execs => journal[orch.exec] # <<>>
    BY <2>5 DEF RowsDrawn
  <2>7. RowsDrawn'
    <3>1. \A e \in Execs : journal'[e] # <<>> => e <= lastExec
      BY <2>4, <2>5 DEF RowsDrawn
    <3>2. \A c \in Closers : closer[c].pc = "stabilise" /\ closer[c].exec \in Execs =>
            closer[c].exec # orch.exec
      BY <2>6 DEF RowsDrawn
    <3> QED BY <2>4, <2>5, <3>1, <3>2 DEF RowsDrawn
  <2>8. OrdersHaveRows'
    <3> SUFFICES ASSUME faults' = 0, lost' = 0, NEW e \in Execs, journal'[e] # <<>>
                 PROVE  SentOf(e)' = OrdersOf(e)'
      BY DEF OrdersHaveRows
    <3>1. journal[e] # <<>>
      BY <2>4, <2>6
    <3> QED BY <1>b, <1>c, <2>4, <2>5, <3>1 DEF OrdersHaveRows, Uncounted
  <2>9. RowsHaveOrders'
    BY <1>c, <2>4, <2>5 DEF RowsHaveOrders, Uncounted
  <2> QED BY <2>7, <2>8, <2>9
<1> QED BY <1>1, <1>2, <1>4, <1>5, <1>6, <1>7, <1>8, EveryJournalStep DEF JournalStep

(* OrderInv and JournalInv are invariants.                                 *)
LEMMA JournalInvHolds == Spec => []JournalInv
<1>1. Init => OrderInv
  BY DEF Init, IdleLock, OrderInv, HolderLast, OrdersNeverInterleave
<1>2. Init => JournalInv
  <2> SUFFICES ASSUME Init PROVE JournalInv
    OBVIOUS
  <2>1. \A e \in Execs : journal[e] = <<>>
    BY DEF Init
  <2>2. RowsDrawn
    BY <2>1 DEF Init, RowsDrawn, Submitted, IdleOrch, NoCloser
  <2>3. \A e \in Execs : SentOf(e) = 0
    <3>1. \A e \in Execs : {i \in DOMAIN journal[e] : journal[e][i] \in SentRows} = {}
      BY <2>1
    <3> QED BY <3>1, FS_EmptySet DEF SentOf, RowsOf
  <2>4. \A e : OrdersOf(e) = 0
    <3>1. \A e : {i \in DOMAIN orders : Market(i) /\ orders[i].exec = e} = {}
      BY DEF Init
    <3> QED BY <3>1, FS_EmptySet DEF OrdersOf
  <2> QED BY <2>1, <2>2, <2>3, <2>4 DEF JournalInv, RowsHaveOrders, OrdersHaveRows
<1>3. IInv /\ OrderInv /\ JournalInv /\ [Next]_vars => OrderInv' /\ JournalInv'
  BY OrderInvStep, JournalInvStep
<1> QED BY <1>1, <1>2, <1>3, IInvHolds, PTL DEF Spec

(***************************************************************************)
(* However orders, faults and lost replies interleave, a SENT row has its   *)
(* order, and without faults and lost replies an order has its SENT row.    *)
(***************************************************************************)
THEOREM JournalTellsOrders == Spec => []JournalCoversOrders
<1>1. JournalInv => JournalCoversOrders
  BY DEF JournalInv, RowsHaveOrders, OrdersHaveRows, JournalCoversOrders, SentOf, SentRows
<1> QED BY <1>1, JournalInvHolds, PTL

-----------------------------------------------------------------------------
(* Executions under way never outgrow the ids the journal has room for.    *)
NewClosers == {c \in Closers : closer[c].pc = "new"}
RoomInv ==
  IsFiniteSet(NewClosers) /\ lastExec + Starting <= MaxExecs

(* What a step can do to the executions that are yet to draw an id.        *)
Enters  == /\ Room /\ orch.pc = "idle" /\ orch'.pc = "wait"
           /\ UNCHANGED <<lastExec, closer>>
Spawns  == /\ Room /\ UNCHANGED <<lastExec, orch>>
           /\ \E c \in Closers \ NewClosers : NewClosers' = NewClosers \cup {c}
Draws   == /\ orch.pc = "wait" /\ orch'.pc # "wait" /\ UNCHANGED closer
           /\ lastExec' \in {lastExec, lastExec + 1}
Closes  == /\ lastExec' \in {lastExec, lastExec + 1} /\ UNCHANGED orch
           /\ \E c \in NewClosers : NewClosers' = NewClosers \ {c}
Neither == /\ UNCHANGED lastExec /\ NewClosers' = NewClosers
           /\ (orch'.pc = "wait") <=> (orch.pc = "wait")

LEMMA EveryRoomStep ==
  ASSUME IInv, [Next]_vars
  PROVE  Enters \/ Spawns \/ Draws \/ Closes \/ Neither
<1> USE DEF Goto, lockVars, handVars, logVars, bookVars
<1>0. /\ orch = [pc |-> orch.pc, exec |-> orch.exec, target |-> orch.target, plan |-> orch.plan]
      /\ closer \in [Closers -> [pc : {"none", "new", "stabilise"}, exec : Nat]]
  BY DEF IInv, TypeOK, OrchTypeOK, HandTypeOK
<1>1. CASE Submit
  <2>1. orch'.pc = "wait"
    BY <1>0, <1>1 DEF Submit
  <2> QED BY <1>1, <2>1 DEF Submit, Enters
<1>2. CASE Supervise \/ Exchange \/ UNCHANGED vars
  BY <1>2 DEF Supervise, SupervisorTick, SupervisorRestart, Exchange, Fill, Expire,
     UserTrade, vars, Neither, NewClosers
<1>3. CASE \E i \in PolicyIntents : TurnAway(i) \/ Begin(i)
  BY <1>3 DEF TurnAway, Begin, AppendRaises, IdleOrch, Draws
<1>4. CASE Busy
  BY <1>4 DEF Busy, IdleOrch, Draws
<1>5. CASE Plan \/ StepsOver \/ StepRefused \/ ConfirmPoll \/ ConfirmRaises \/ NotYetReflected
           \/ ReconcileRaises \/ Reconcile \/ VerifyRestart \/ VerifyRaises \/ ExecuteStep
           \/ StepConfirmed \/ Complete \/ Mismatch \/ Fail
  <2>1. UNCHANGED <<lastExec, closer>>
    BY <1>5 DEF Plan, StepsOver, StepRefused, ConfirmPoll, ConfirmRaises, NotYetReflected,
       ReconcileRaises, Reconcile, VerifyRestart, VerifyRaises, ExecuteStep, StepConfirmed,
       Complete, Mismatch, Fail
  <2>2. orch.pc # "wait"
    BY <1>5 DEF Plan, StepsOver, StepRefused, ConfirmPoll, ConfirmRaises, NotYetReflected,
       ReconcileRaises, Reconcile, VerifyRestart, VerifyRaises, ExecuteStep, StepConfirmed,
       Complete, Mismatch, Fail
  <2>3. orch'.pc # "wait"
    <3>1. CASE Plan \/ StepsOver \/ StepRefused \/ ConfirmPoll \/ ConfirmRaises
               \/ NotYetReflected \/ ReconcileRaises \/ Reconcile \/ VerifyRestart \/ VerifyRaises
      BY <1>0, <3>1 DEF Plan, StepsOver, StepRefused, ConfirmPoll, ConfirmRaises,
         NotYetReflected, ReconcileRaises, Reconcile, VerifyRestart, VerifyRaises
    <3>2. CASE ExecuteStep
      BY <1>0, <3>2 DEF ExecuteStep
    <3>3. CASE StepConfirmed
      BY <1>0, <3>3 DEF StepConfirmed, StepDone
    <3>4. CASE Complete \/ Mismatch \/ Fail
      BY <1>0, <3>4 DEF Complete, Mismatch, Fail, Returned, IdleOrch
    <3> QED BY <1>5, <3>1, <3>2, <3>3, <3>4
  <2> QED BY <2>1, <2>2, <2>3 DEF Neither, NewClosers
<1>6. CASE Stream
  <2>1. CASE StreamPosition \/ StreamManualOpen
    BY <2>1 DEF StreamPosition, StreamManualOpen, Neither, NewClosers
  <2>2. ASSUME NEW c \in Closers, StreamFilled(c)
        PROVE  Spawns
    <3>1. c \notin NewClosers /\ Room /\ UNCHANGED <<lastExec, orch>>
      BY <2>2 DEF StreamFilled, NewClosers
    <3>2. NewClosers' = NewClosers \cup {c}
      BY <1>0, <2>2 DEF StreamFilled, NewClosers
    <3> QED BY <3>1, <3>2 DEF Spawns
  <2> QED BY <1>6, <2>1, <2>2 DEF Stream
<1>7. ASSUME NEW c \in Closers, CloserStep(c)
      PROVE  Closes \/ Neither
  <2>1. CASE CloserBusy(c) \/ CloserBegin(c)
    <3>1. c \in NewClosers /\ lastExec' \in {lastExec, lastExec + 1} /\ UNCHANGED orch
      BY <2>1 DEF CloserBusy, CloserBegin, NewClosers
    <3>2. NewClosers' = NewClosers \ {c}
      BY <1>0, <2>1 DEF CloserBusy, CloserBegin, CloserDone, NoCloser, NewClosers
    <3> QED BY <3>1, <3>2 DEF Closes
  <2>2. CASE CloserAct(c)
    <3>1. UNCHANGED <<lastExec, orch>>
      BY <2>2 DEF CloserAct
    <3>2. NewClosers' = NewClosers
      BY <1>0, <2>2 DEF CloserAct, CloserDone, NoCloser, NewClosers
    <3> QED BY <3>1, <3>2 DEF Neither
  <2> QED BY <1>7, <2>1, <2>2 DEF CloserStep
<1>8. CASE \E exec \in Execs, byReport \in BOOLEAN : PlaceBrackets(exec, byReport)
  BY <1>8, BracketsAppend DEF Neither, NewClosers
<1> QED BY <1>1, <1>2, <1>3, <1>4, <1>5, <1>6, <1>7, <1>8 DEF Next, Orchestrate

LEMMA RoomStep ==
  ASSUME IInv, RoomInv, [Next]_vars
  PROVE  RoomInv'
<1> DEFINE N == Cardinality(NewClosers)
           W == IF orch.pc = "wait" THEN 1 ELSE 0
<1>0. lastExec \in Nat /\ MaxExecs \in Nat /\ IsFiniteSet(NewClosers)
  BY OrderAssumption DEF IInv, TypeOK, LockTypeOK, RoomInv
<1>1. Starting = W + N /\ Starting' = W' + N' /\ N \in Nat
  BY <1>0, FS_CardinalityType DEF Starting, NewClosers
<1>2. lastExec + W + N <= MaxExecs
  BY <1>0, <1>1 DEF RoomInv
<1>3. Room <=> lastExec + W + N < MaxExecs
  BY <1>0, <1>1 DEF Room
<1> SUFFICES IsFiniteSet(NewClosers') /\ lastExec' + W' + N' <= MaxExecs /\ N' \in Nat
                /\ lastExec' \in Nat
  BY <1>1 DEF RoomInv
<1>4. CASE Enters \/ Draws
  <2>1. NewClosers' = NewClosers
    BY <1>4 DEF Enters, Draws, NewClosers
  <2>2. N' = N
    BY <2>1
  <2> HIDE DEF N
  <2> QED BY <1>0, <1>1, <1>2, <1>3, <1>4, <2>1, <2>2 DEF Enters, Draws
<1>5. CASE Spawns
  <2>1. PICK c \in Closers \ NewClosers : NewClosers' = NewClosers \cup {c}
    BY <1>5 DEF Spawns
  <2>2. IsFiniteSet(NewClosers') /\ N' = N + 1
    BY <1>0, <2>1, FS_AddElement
  <2>3. W' = W /\ W \in {0, 1} /\ lastExec' = lastExec /\ Room
    BY <1>5 DEF Spawns
  <2> HIDE DEF N, W
  <2> QED BY <1>0, <1>1, <1>3, <2>2, <2>3
<1>6. CASE Closes
  <2>1. PICK c \in NewClosers : NewClosers' = NewClosers \ {c}
    BY <1>6 DEF Closes
  <2>2. IsFiniteSet(NewClosers') /\ N' = N - 1
    BY <1>0, <2>1, FS_RemoveElement
  <2>3. W' = W /\ lastExec' \in {lastExec, lastExec + 1}
    BY <1>6 DEF Closes
  <2>4. N' \in Nat
    BY <2>2, FS_CardinalityType
  <2>5. W \in Nat /\ N \in Nat
    BY <1>1
  <2> HIDE DEF N, W
  <2>6. lastExec' \in Nat /\ lastExec' <= lastExec + 1
    BY <1>0, <2>3
  <2>7. lastExec' + W' + N' <= MaxExecs
    <3>1. N' = N - 1 /\ W' = W /\ MaxExecs \in Nat /\ lastExec \in Nat
      BY <1>0, <2>2, <2>3
    <3>2. ASSUME NEW b \in Nat, b <= lastExec + 1
          PROVE  b + W + (N - 1) <= MaxExecs
      BY <1>2, <2>5, <3>1, <3>2
    <3> QED BY <2>6, <3>1, <3>2
  <2> QED BY <2>2, <2>4, <2>6, <2>7
<1>7. CASE Neither
  <2>1. NewClosers' = NewClosers /\ N' = N /\ W' = W /\ lastExec' = lastExec
    BY <1>7 DEF Neither
  <2> HIDE DEF N, W
  <2> QED BY <1>0, <1>1, <1>2, <2>1
<1> QED BY <1>4, <1>5, <1>6, <1>7, EveryRoomStep

(* A submission draws an id there is room for.                             *)
LEMMA DrawnHasRoom ==
  ASSUME IInv, RoomInv, orch.pc = "wait"
  PROVE  lastExec + 1 \in Execs
<1>1. Cardinality(NewClosers) \in Nat
  BY FS_CardinalityType DEF RoomInv
<1>2. Starting = 1 + Cardinality(NewClosers)
  BY DEF Starting, NewClosers
<1> HIDE DEF NewClosers
<1>3. lastExec \in Nat /\ MaxExecs \in Nat
  BY OrderAssumption DEF IInv, TypeOK, LockTypeOK
<1> QED BY <1>1, <1>2, <1>3 DEF RoomInv, Execs

-----------------------------------------------------------------------------
(***************************************************************************)
(* BreakerMatchesJournal is inductive when the submission under way, which  *)
(* has rows but no verdict yet, is left out of the run.                    *)
(***************************************************************************)
HasCrashed(e) == HasFailed(e) /\ ~ HasMismatched(e)
HasTripped(e) == RowsOf(e, {"SYSTEM_FROZEN"}) > 0

Concluded == {e \in Journaled : ~ (Submitted /\ e = orch.exec)}
ConcludedRun == {e \in Concluded : \A f \in Concluded : f >= e => HasCrashed(f)}

(* The submission under way is the newest, and has no verdict.             *)
NoVerdict(e) == ~ HasFailed(e) /\ ~ HasMismatched(e) /\ ~ HasTripped(e)

NewestUnderWay ==
  Submitted => /\ orch.exec \in Journaled
               /\ \A e \in Journaled : e <= orch.exec
               /\ NoVerdict(orch.exec)

CountsRun == /\ failures = Cardinality(ConcludedRun)
             /\ failures >= FailureThreshold <=> \E e \in ConcludedRun : HasTripped(e)

BreakerInv == faults = 0 => NewestUnderWay /\ CountsRun

LEMMA RunFinite ==
  ASSUME IInv
  PROVE  IsFiniteSet(ConcludedRun) /\ Cardinality(ConcludedRun) \in Nat
<1>1. IsFiniteSet(Execs)
  BY OrderAssumption, FS_Interval DEF Execs
<1>2. ConcludedRun \in SUBSET Execs
  BY DEF ConcludedRun, Concluded, Journaled
<1> QED BY <1>1, <1>2, FS_Subset, FS_CardinalityType

(* When the run and its verdicts stay, so does what the count says.        *)
LEMMA RunKept ==
  ASSUME CountsRun, failures' = failures, Concluded' = Concluded,
         \A e \in Concluded : /\ HasCrashed(e)' <=> HasCrashed(e)
                              /\ HasTripped(e)' <=> HasTripped(e)
  PROVE  CountsRun'
<1>1. ConcludedRun' = ConcludedRun
  <2>1. ASSUME NEW e
        PROVE  e \in ConcludedRun' <=> e \in ConcludedRun
    BY DEF ConcludedRun
  <2> QED BY <2>1
<1>2. \A e \in ConcludedRun : e \in Concluded
  BY DEF ConcludedRun
<1>3. (\E e \in ConcludedRun' : HasTripped(e)') <=> (\E e \in ConcludedRun : HasTripped(e))
  BY <1>1, <1>2
<1> HIDE DEF ConcludedRun, HasTripped
<1> QED BY <1>1, <1>3 DEF CountsRun

(* Rows of a set are counted by Count.                                     *)
LEMMA RowsOfCounts ==
  ASSUME NEW e, NEW R
  PROVE  RowsOf(e, R) = Count(journal[e], R) /\ RowsOf(e, R)' = Count(journal'[e], R)
BY DEF RowsOf, Count

(* The counts behind the verdicts.                                         *)
VerdictSets == {ExecutionFailed, {"FAILED_MISMATCH"}, {"SYSTEM_FROZEN"}}

(* Where the counts of an execution stay, so do its verdicts.              *)
LEMMA SameVerdicts ==
  ASSUME NEW e, \A R \in VerdictSets : RowsOf(e, R)' = RowsOf(e, R)
  PROVE  /\ HasCrashed(e)' <=> HasCrashed(e)
         /\ HasTripped(e)' <=> HasTripped(e)
         /\ NoVerdict(e)' <=> NoVerdict(e)
<1>1. /\ RowsOf(e, ExecutionFailed)' = RowsOf(e, ExecutionFailed)
      /\ RowsOf(e, {"FAILED_MISMATCH"})' = RowsOf(e, {"FAILED_MISMATCH"})
      /\ RowsOf(e, {"SYSTEM_FROZEN"})' = RowsOf(e, {"SYSTEM_FROZEN"})
  BY DEF VerdictSets
<1> HIDE DEF RowsOf
<1> QED BY <1>1 DEF HasCrashed, HasFailed, HasMismatched, HasTripped, NoVerdict

(* What a row does to the counts.                                          *)
LEMMA RowCounted ==
  ASSUME IInv, NEW row \in Events, Writes(row), NEW e \in Execs, NEW R
  PROVE  /\ e # orch.exec \/ row \notin R => RowsOf(e, R)' = RowsOf(e, R)
         /\ e = orch.exec /\ row \in R => RowsOf(e, R)' > 0
<1>1. journal[e] \in Seq(Events)
  BY DEF IInv, TypeOK, LogTypeOK
<1>2. CASE e = orch.exec
  <2>1. journal'[e] = Append(journal[e], row)
    BY <1>2 DEF Writes, IInv, TypeOK, LogTypeOK
  <2>2. Count(journal'[e], R)
          = IF row \in R THEN Count(journal[e], R) + 1 ELSE Count(journal[e], R)
    BY <1>1, <2>1, CountAppend
  <2>3. Count(journal[e], R) \in Nat
    BY <1>1, PickedFinite DEF Count
  <2> QED BY <1>2, <2>2, <2>3, RowsOfCounts
<1>3. CASE e # orch.exec
  <2>1. journal'[e] = journal[e]
    BY <1>3 DEF Writes, IInv, TypeOK, LogTypeOK
  <2> QED BY <1>3, <2>1, RowsOfCounts
<1> QED BY <1>2, <1>3

(* A row of the submission that is not a verdict.                          *)
LEMMA NoVerdictWritten ==
  ASSUME IInv, NEW row \in Events \ (ExecutionFailed \cup {"SYSTEM_FROZEN"}), Writes(row),
         NEW e \in Execs
  PROVE  /\ journal'[e] # <<>> <=> journal[e] # <<>> \/ e = orch.exec
         /\ HasCrashed(e)' <=> HasCrashed(e)
         /\ HasTripped(e)' <=> HasTripped(e)
         /\ NoVerdict(e)' <=> NoVerdict(e)
<1>1. \A R \in VerdictSets : row \notin R
  BY DEF VerdictSets, ExecutionFailed
<1>2. \A R \in VerdictSets : RowsOf(e, R)' = RowsOf(e, R)
  BY <1>1, RowCounted
<1> QED BY <1>2, RowWritten, SameVerdicts

(* A finalize mismatch is journalled as a failure that does not count.     *)
LEMMA MismatchWritten ==
  ASSUME IInv, Writes("FAILED_MISMATCH"), orch.exec \in Execs
  PROVE  /\ \A e \in Execs : journal'[e] # <<>> <=> journal[e] # <<>> \/ e = orch.exec
         /\ \A x : x = orch.exec => ~ HasCrashed(x)'
<1>1. "FAILED_MISMATCH" \in Events
  BY DEF Events, ExecutionFailed
<1>2. ASSUME NEW x \in Execs, x = orch.exec
      PROVE  ~ HasCrashed(x)'
  <2>1. RowsOf(x, {"FAILED_MISMATCH"})' > 0
    BY <1>1, <1>2, RowCounted
  <2> QED BY <2>1 DEF HasCrashed, HasMismatched
<1> QED BY <1>1, <1>2, RowWritten

(* The rows of a failure are its verdict.                                  *)
LEMMA VerdictWritten ==
  ASSUME IInv, failures \in Nat, NEW x \in Execs, x = orch.exec,
         journal' = [journal EXCEPT ![orch.exec] = @ \o FailureRows(failures + 1)],
         NoVerdict(x)
  PROVE  /\ journal'[x] # <<>>
         /\ HasCrashed(x)'
         /\ HasTripped(x)' <=> failures + 1 >= FailureThreshold
         /\ \A e \in Execs \ {x} :
              /\ journal'[e] = journal[e]
              /\ HasCrashed(e)' <=> HasCrashed(e)
              /\ HasTripped(e)' <=> HasTripped(e)
<1> DEFINE rows == FailureRows(failures + 1)
           s == journal[x]
           t == s \o rows
<1>1. journal \in [Execs -> Seq(Events)] /\ s \in Seq(Events)
  BY DEF IInv, TypeOK, LogTypeOK
<1>2. journal'[x] = t /\ \A e \in Execs \ {x} : journal'[e] = journal[e]
  BY <1>1
<1>3. /\ rows \in Seq(Events) /\ rows[1] = "FAILED_RUNTIME" /\ Len(rows) \in Nat /\ Len(rows) >= 1
      /\ (\E i \in DOMAIN rows : rows[i] = "SYSTEM_FROZEN") <=> Trips(failures + 1)
      /\ \A i \in DOMAIN rows : rows[i] # "FAILED_MISMATCH"
  <2>1. CASE Trips(failures + 1)
    <3>1. rows = <<"FAILED_RUNTIME", "BREAK_INCREMENT", "SYSTEM_FROZEN">>
      BY <2>1 DEF FailureRows
    <3>2. <<"FAILED_RUNTIME", "BREAK_INCREMENT", "SYSTEM_FROZEN">> \in Seq(Events)
      BY DEF Events, ExecutionFailed
    <3> HIDE DEF rows
    <3> QED BY <2>1, <3>1, <3>2
  <2>2. CASE ~ Trips(failures + 1)
    <3>1. rows = <<"FAILED_RUNTIME", "BREAK_INCREMENT">>
      BY <2>2 DEF FailureRows
    <3>2. <<"FAILED_RUNTIME", "BREAK_INCREMENT">> \in Seq(Events)
      BY DEF Events, ExecutionFailed
    <3> HIDE DEF rows
    <3> QED BY <2>2, <3>1, <3>2
  <2> QED BY <2>1, <2>2
<1> HIDE DEF rows, s
<1>4. /\ t \in Seq(Events) /\ Len(s) \in Nat
      /\ DOMAIN t = 1 .. Len(s) + Len(rows)
      /\ DOMAIN s = 1 .. Len(s) /\ DOMAIN rows = 1 .. Len(rows)
      /\ \A i \in 1 .. Len(s) : t[i] = s[i]
      /\ \A i \in 1 .. Len(rows) : t[Len(s) + i] = rows[i]
  BY <1>1, <1>3, ConcatProperties
<1> HIDE DEF t
<1>5. t # <<>> /\ \E i \in DOMAIN t : t[i] \in ExecutionFailed
  BY <1>3, <1>4 DEF ExecutionFailed
<1>6. /\ ~ \E i \in DOMAIN s : s[i] \in {"SYSTEM_FROZEN"}
      /\ ~ \E i \in DOMAIN s : s[i] \in {"FAILED_MISMATCH"}
  <2>1. ~ Count(s, {"SYSTEM_FROZEN"}) > 0 /\ ~ Count(s, {"FAILED_MISMATCH"}) > 0
    BY RowsOfCounts DEF NoVerdict, HasTripped, HasMismatched, s
  <2> QED BY <1>1, <2>1, CountZero
<1>m. ~ \E i \in DOMAIN t : t[i] \in {"FAILED_MISMATCH"}
  <2> SUFFICES ASSUME NEW i \in DOMAIN t, t[i] \in {"FAILED_MISMATCH"} PROVE FALSE
    OBVIOUS
  <2>1. i > Len(s)
    BY <1>4, <1>6
  <2>2. i - Len(s) \in DOMAIN rows /\ i = Len(s) + (i - Len(s))
    BY <1>3, <1>4, <2>1
  <2> QED BY <1>3, <1>4, <2>2
<1>7. (\E i \in DOMAIN t : t[i] \in {"SYSTEM_FROZEN"}) <=> Trips(failures + 1)
  <2>1. ASSUME NEW i \in DOMAIN t, t[i] \in {"SYSTEM_FROZEN"}
        PROVE  \E k \in DOMAIN rows : rows[k] = "SYSTEM_FROZEN"
    <3>1. i > Len(s)
      BY <1>4, <1>6, <2>1
    <3>2. i - Len(s) \in DOMAIN rows /\ i = Len(s) + (i - Len(s))
      BY <1>3, <1>4, <3>1
    <3> QED BY <1>4, <2>1, <3>2
  <2>2. ASSUME NEW k \in DOMAIN rows, rows[k] = "SYSTEM_FROZEN"
        PROVE  \E i \in DOMAIN t : t[i] \in {"SYSTEM_FROZEN"}
    <3>1. Len(s) + k \in DOMAIN t /\ t[Len(s) + k] = rows[k]
      BY <1>3, <1>4
    <3> QED BY <2>2, <3>1
  <2> QED BY <1>3, <2>1, <2>2
<1>8. /\ Count(t, ExecutionFailed) > 0
      /\ ~ Count(t, {"FAILED_MISMATCH"}) > 0
      /\ Count(t, {"SYSTEM_FROZEN"}) > 0 <=> Trips(failures + 1)
  BY <1>4, <1>5, <1>7, <1>m, CountZero
<1>9. \A R : RowsOf(x, R)' = Count(t, R)
  BY <1>2 DEF RowsOf, Count
<1>10. \A e \in Execs \ {x} : \A R \in VerdictSets : RowsOf(e, R)' = RowsOf(e, R)
  BY <1>2 DEF RowsOf
<1>11. HasCrashed(x)' /\ (HasTripped(x)' <=> failures + 1 >= FailureThreshold)
  <2> HIDE DEF RowsOf
  <2> QED BY <1>8, <1>9 DEF HasCrashed, HasFailed, HasMismatched, HasTripped, Trips
<1> QED BY <1>2, <1>5, <1>10, <1>11, SameVerdicts

(* BreakerInv is inductive.                                                *)
LEMMA BreakerInvStep ==
  ASSUME IInv, JournalInv, RoomInv, BreakerInv, [Next]_vars,
         Submitted' /\ ~ Submitted => orch.pc = "wait"
  PROVE  BreakerInv'
<1> SUFFICES ASSUME faults' = 0 PROVE NewestUnderWay' /\ CountsRun'
  BY DEF BreakerInv
<1>0. NewestUnderWay /\ CountsRun
  BY FaultsRemain DEF BreakerInv
<1>a. /\ lastExec \in Nat /\ orch.exec \in Nat /\ failures \in Nat
      /\ journal \in [Execs -> Seq(Events)]
  BY DEF IInv, TypeOK, LockTypeOK, OrchTypeOK, LogTypeOK
<1>b. \A e \in Journaled : e \in Execs /\ e <= lastExec
  BY DEF Journaled, JournalInv, RowsDrawn
<1>1. CASE SameHand /\ UNCHANGED <<journal, failures>>
  <2>1. Journaled' = Journaled /\ Concluded' = Concluded
    BY <1>1 DEF Journaled, Concluded, SameHand
  <2>2. \A e : /\ HasCrashed(e)' <=> HasCrashed(e)
               /\ HasTripped(e)' <=> HasTripped(e)
               /\ NoVerdict(e)' <=> NoVerdict(e)
    <3>1. \A e : \A R \in VerdictSets : RowsOf(e, R)' = RowsOf(e, R)
      BY <1>1 DEF RowsOf
    <3> QED BY <3>1, SameVerdicts
  <2>3. CountsRun'
    BY <1>0, <1>1, <2>1, <2>2, RunKept
  <2>4. NewestUnderWay'
    <3>1. PICK x \in Nat : x = orch.exec
      BY <1>a
    <3>2. Submitted' => Submitted /\ orch'.exec = x
      BY <1>1, <3>1 DEF SameHand
    <3> QED BY <1>0, <2>1, <2>2, <3>1, <3>2 DEF NewestUnderWay
  <2> QED BY <2>3, <2>4
<1>2. CASE Began
  <2>0. PICK x \in Execs : x = lastExec + 1
    BY <1>2, DrawnHasRoom DEF Began
  <2>1. /\ journal' = [journal EXCEPT ![x] = <<"STARTED">>] /\ failures' = failures
        /\ ~ Submitted /\ Submitted' /\ orch'.exec = x
    BY <1>2, <2>0 DEF Began
  <2>2. journal'[x] = <<"STARTED">> /\ \A e \in Execs \ {x} : journal'[e] = journal[e]
    BY <1>a, <2>1
  <2>3. x \notin Journaled
    BY <1>a, <1>b, <2>0
  <2>4. \A e \in Execs : e \in Journaled' <=> e \in Journaled \/ e = x
    BY <2>2 DEF Journaled
  <2>5. Concluded' = Concluded
    <3>1. ASSUME NEW e PROVE e \in Concluded' <=> e \in Concluded
      <4>1. e \in Concluded' <=> e \in Journaled' /\ e # x
        BY <2>1 DEF Concluded
      <4>2. e \in Concluded <=> e \in Journaled
        BY <2>1 DEF Concluded
      <4>3. (e \in Journaled \/ e \in Journaled') => e \in Execs
        BY DEF Journaled
      <4> QED BY <2>3, <2>4, <4>1, <4>2, <4>3
    <3> QED BY <3>1
  <2>6. \A e \in Execs \ {x} : /\ HasCrashed(e)' <=> HasCrashed(e)
                               /\ HasTripped(e)' <=> HasTripped(e)
    <3>1. \A e \in Execs \ {x} : \A R \in VerdictSets : RowsOf(e, R)' = RowsOf(e, R)
      BY <2>2 DEF RowsOf
    <3> QED BY <3>1, SameVerdicts
  <2>7. \A e \in Concluded : e \in Execs \ {x}
    BY <1>b, <2>3 DEF Concluded
  <2>8. CountsRun'
    BY <1>0, <2>1, <2>5, <2>6, <2>7, RunKept
  <2>9. NoVerdict(x)'
    <3> DEFINE s == <<"STARTED">>
    <3>1. s \in Seq(Events)
      BY DEF Events
    <3>2. \A R \in VerdictSets : ~ \E i \in DOMAIN s : s[i] \in R
      BY DEF VerdictSets, ExecutionFailed
    <3>3. \A R \in VerdictSets : ~ Count(s, R) > 0
      BY <3>1, <3>2, CountZero
    <3>4. \A R \in VerdictSets : RowsOf(x, R)' = Count(s, R)
      BY <2>2 DEF RowsOf, Count
    <3>5. ~ RowsOf(x, ExecutionFailed)' > 0 /\ ~ RowsOf(x, {"FAILED_MISMATCH"})' > 0
          /\ ~ RowsOf(x, {"SYSTEM_FROZEN"})' > 0
      BY <3>3, <3>4 DEF VerdictSets
    <3> HIDE DEF RowsOf
    <3> QED BY <3>5 DEF NoVerdict, HasFailed, HasMismatched, HasTripped
  <2>10. NewestUnderWay'
    <3>1. x \in Journaled'
      BY <2>4
    <3>2. \A e \in Journaled' : e <= x
      <4>1. \A e \in Journaled' : e \in Execs
        BY DEF Journaled
      <4>2. \A e \in Journaled : e <= x
        BY <1>a, <1>b, <2>0 DEF Execs
      <4> QED BY <2>4, <4>1, <4>2 DEF Execs
    <3> QED BY <2>1, <2>9, <3>1, <3>2 DEF NewestUnderWay
  <2> QED BY <2>8, <2>10
<1>3. ASSUME Submitted, NEW row \in Events \ (ExecutionFailed \cup {"SYSTEM_FROZEN"}), Writes(row)
      PROVE  /\ Journaled' = Journaled
             /\ \A e \in Journaled : /\ HasCrashed(e)' <=> HasCrashed(e)
                                     /\ HasTripped(e)' <=> HasTripped(e)
                                     /\ NoVerdict(e)' <=> NoVerdict(e)
  <2>1. \A e \in Execs : /\ journal'[e] # <<>> <=> journal[e] # <<>> \/ e = orch.exec
                         /\ HasCrashed(e)' <=> HasCrashed(e)
                         /\ HasTripped(e)' <=> HasTripped(e)
                         /\ NoVerdict(e)' <=> NoVerdict(e)
    BY <1>3, NoVerdictWritten
  <2>2. orch.exec \in Execs /\ journal[orch.exec] # <<>>
    BY <1>0, <1>3 DEF NewestUnderWay, Journaled
  <2>3. \A e \in Execs : journal'[e] # <<>> <=> journal[e] # <<>>
    BY <2>1, <2>2
  <2>4. Journaled' = Journaled
    BY <2>3 DEF Journaled
  <2> QED BY <1>b, <2>1, <2>4
<1>4. CASE Confirmed \/ SentAndNoted
  <2>1. GoesOn /\ failures' = failures
    BY <1>4 DEF Confirmed, SentAndNoted
  <2>2. PICK row \in {"CLOSE_CONFIRMED", "OPEN_CONFIRMED", "CLOSE_SENT", "OPEN_SENT"} : Writes(row)
    BY <1>4 DEF Confirmed, SentAndNoted, SentRows
  <2>3. row \in Events \ (ExecutionFailed \cup {"SYSTEM_FROZEN"})
    BY DEF Events, ExecutionFailed
  <2>4. /\ Journaled' = Journaled
        /\ \A e \in Journaled : /\ HasCrashed(e)' <=> HasCrashed(e)
                                /\ HasTripped(e)' <=> HasTripped(e)
                                /\ NoVerdict(e)' <=> NoVerdict(e)
    BY <1>3, <2>1, <2>2, <2>3 DEF GoesOn
  <2>5. Concluded' = Concluded
    BY <2>1, <2>4 DEF Concluded, GoesOn
  <2>6. CountsRun'
    <3>1. \A e \in Concluded : e \in Journaled
      BY DEF Concluded
    <3> QED BY <1>0, <2>1, <2>4, <2>5, <3>1, RunKept
  <2>7. NewestUnderWay'
    <3>1. PICK x \in Nat : x = orch.exec
      BY <1>a
    <3>2. Submitted /\ orch'.exec = x
      BY <2>1, <3>1 DEF GoesOn
    <3> QED BY <1>0, <2>4, <3>1, <3>2 DEF NewestUnderWay
  <2> QED BY <2>6, <2>7
<1>5. CASE Ended
  <2>1. Submitted /\ ~ Submitted' /\ failures' = 0
    BY <1>5 DEF Ended, IdleOrch, Submitted
  <2>2. PICK row \in {"COMPLETED", "FAILED_MISMATCH"} : Writes(row)
    BY <1>5 DEF Ended
  <2>3. PICK x \in Journaled : x = orch.exec
    BY <1>0, <2>1 DEF NewestUnderWay
  <2>4. ASSUME row = "COMPLETED"
        PROVE  Journaled' = Journaled /\ ~ HasCrashed(x)'
    <3>1. row \in Events \ (ExecutionFailed \cup {"SYSTEM_FROZEN"})
      BY <2>4 DEF Events, ExecutionFailed
    <3>2. Journaled' = Journaled /\ NoVerdict(x)'
      BY <1>0, <1>3, <2>1, <2>2, <2>3, <3>1 DEF NewestUnderWay
    <3> QED BY <2>4, <3>2 DEF NoVerdict, HasCrashed
  <2>5. Journaled' = Journaled /\ ~ HasCrashed(x)'
    <3>1. CASE row = "FAILED_MISMATCH"
      <4>1. orch.exec \in Execs /\ journal[orch.exec] # <<>>
        BY <2>3 DEF Journaled
      <4>2. /\ \A e \in Execs : journal'[e] # <<>> <=> journal[e] # <<>> \/ e = orch.exec
            /\ ~ HasCrashed(x)'
        BY <2>2, <2>3, <3>1, <4>1, MismatchWritten
      <4>3. \A e \in Execs : journal'[e] # <<>> <=> journal[e] # <<>>
        BY <4>1, <4>2
      <4> QED BY <4>2, <4>3 DEF Journaled
    <3> QED BY <2>4, <3>1
  <2>6. Concluded' = Journaled
    BY <2>1, <2>5 DEF Concluded
  <2>7. ConcludedRun' = {}
    <3>1. \A e \in Journaled : x >= e
      BY <1>0, <1>a, <1>b, <2>1, <2>3 DEF NewestUnderWay, Execs
    <3> QED BY <2>5, <2>6, <3>1 DEF ConcludedRun
  <2>8. Cardinality(ConcludedRun') = 0
    BY <2>7, FS_EmptySet
  <2>9. CountsRun'
    <3> HIDE DEF ConcludedRun
    <3>1. ~ failures' >= FailureThreshold
      BY <2>1, OrderAssumption
    <3> QED BY <2>1, <2>7, <2>8, <3>1 DEF CountsRun
  <2> QED BY <2>1, <2>9 DEF NewestUnderWay
<1>6. CASE Failed
  <2>1. Submitted /\ ~ Submitted'
    BY <1>6 DEF Failed, IdleOrch, Submitted
  <2>2. /\ journal' = [journal EXCEPT ![orch.exec] = @ \o FailureRows(failures + 1)]
        /\ failures' = failures + 1
    <3> DEFINE rows == FailureRows(failures + 1)
    <3>1. PICK n \in 0 .. Len(rows) :
             /\ journal' = [journal EXCEPT ![orch.exec] = @ \o SubSeq(rows, 1, n)]
             /\ n = Len(rows) /\ failures' = failures + 1
      BY <1>6 DEF Failed
    <3>2. SubSeq(rows, 1, Len(rows)) = rows
      <4>1. /\ <<"FAILED_RUNTIME", "BREAK_INCREMENT">> \in Seq(Events)
            /\ <<"FAILED_RUNTIME", "BREAK_INCREMENT", "SYSTEM_FROZEN">> \in Seq(Events)
        BY DEF Events, ExecutionFailed
      <4>2. rows \in Seq(Events)
        BY <4>1 DEF FailureRows
      <4> HIDE DEF rows
      <4> QED BY <4>2, SubSeqFull
    <3> HIDE DEF rows
    <3>3. SubSeq(rows, 1, n) = rows
      BY <3>1, <3>2
    <3> QED BY <3>1, <3>3 DEF rows
  <2>3. PICK x \in Execs : x = orch.exec /\ x \in Journaled
    BY <1>0, <1>b, <2>1 DEF NewestUnderWay
  <2>4. NoVerdict(x) /\ \A e \in Journaled : e <= x
    BY <1>0, <2>1, <2>3 DEF NewestUnderWay
  <2>5. /\ journal'[x] # <<>>
        /\ HasCrashed(x)'
        /\ HasTripped(x)' <=> failures + 1 >= FailureThreshold
        /\ \A e \in Execs \ {x} :
             /\ journal'[e] = journal[e]
             /\ HasCrashed(e)' <=> HasCrashed(e)
             /\ HasTripped(e)' <=> HasTripped(e)
    BY <1>a, <2>2, <2>3, <2>4, VerdictWritten
  <2>6. /\ Concluded' = Journaled /\ x \notin Concluded
        /\ \A e : e \in Journaled <=> e \in Concluded \/ e = x
        /\ \A e \in Concluded : e \in Execs \ {x} /\ e <= x
    <3>1. \A e \in Execs : journal'[e] # <<>> <=> journal[e] # <<>>
      BY <2>3, <2>5 DEF Journaled
    <3>2. Journaled' = Journaled
      BY <3>1 DEF Journaled
    <3> QED BY <1>b, <2>1, <2>3, <2>4, <3>2 DEF Concluded
  <2>7. ConcludedRun' = ConcludedRun \cup {x}
    <3>1. ASSUME NEW e
          PROVE  e \in ConcludedRun' <=> e \in ConcludedRun \/ e = x
      <4>1. e \in ConcludedRun' <=>
              e \in Journaled /\ \A f \in Journaled : f >= e => HasCrashed(f)'
        BY <2>6 DEF ConcludedRun
      <4>2. CASE e = x
        <5>1. \A f \in Concluded : ~ f >= x
          BY <2>6 DEF Execs
        <5> QED BY <2>3, <2>5, <2>6, <4>1, <4>2, <5>1
      <4>3. CASE e # x
        <5>1. \A f \in Concluded : HasCrashed(f)' <=> HasCrashed(f)
          BY <2>5, <2>6
        <5> HIDE DEF HasCrashed, HasFailed, HasMismatched
        <5> QED BY <2>5, <2>6, <4>1, <4>3, <5>1 DEF ConcludedRun
      <4> QED BY <4>2, <4>3
    <3> QED BY <3>1
  <2>8. x \notin ConcludedRun /\ \A e \in ConcludedRun : HasTripped(e)' <=> HasTripped(e)
    BY <2>5, <2>6 DEF ConcludedRun
  <2>9. Cardinality(ConcludedRun') = Cardinality(ConcludedRun) + 1
    <3>1. IsFiniteSet(ConcludedRun)
      BY RunFinite
    <3> HIDE DEF ConcludedRun
    <3>2. Cardinality(ConcludedRun \cup {x}) = Cardinality(ConcludedRun) + 1
      BY <2>8, <3>1, FS_AddElement
    <3> QED BY <2>7, <3>2
  <2>10. CountsRun'
    <3> HIDE DEF ConcludedRun, HasTripped
    <3>1. failures' = Cardinality(ConcludedRun')
      BY <1>0, <2>2, <2>9 DEF CountsRun
    <3>2. (\E e \in ConcludedRun' : HasTripped(e)')
            <=> (\E e \in ConcludedRun : HasTripped(e)) \/ HasTripped(x)'
      BY <2>7, <2>8
    <3>3. failures' >= FailureThreshold
            <=> failures >= FailureThreshold \/ failures + 1 >= FailureThreshold
      BY <1>a, <2>2, OrderAssumption
    <3>4. failures >= FailureThreshold <=> \E e \in ConcludedRun : HasTripped(e)
      BY <1>0 DEF CountsRun
    <3> QED BY <2>5, <3>1, <3>2, <3>3, <3>4 DEF CountsRun
  <2> QED BY <2>1, <2>10 DEF NewestUnderWay
<1> QED BY <1>1, <1>2, <1>4, <1>5, <1>6, EveryJournalStep
        DEF JournalStep, Unwritten, SentUnnoted

(* Only a waiting call becomes a submission.                               *)
LEMMA BeginsFromWait ==
  ASSUME IInv, [Next]_vars
  PROVE  Submitted' /\ ~ Submitted => orch.pc = "wait"
<1> USE DEF Goto
<1>0. orch = [pc |-> orch.pc, exec |-> orch.exec, target |-> orch.target, plan |-> orch.plan]
  BY DEF IInv, TypeOK, OrchTypeOK
<1>1. CASE Submit
  <2>1. orch'.pc = "wait"
    BY <1>0, <1>1 DEF Submit
  <2> QED BY <2>1 DEF Submitted
<1>2. CASE UNCHANGED orch
  BY <1>2 DEF Submitted
<1>3. CASE Orchestrate
  <2>1. orch.pc = "wait" \/ Submitted
    BY <1>3 DEF Orchestrate, TurnAway, Begin, Busy, Plan, StepsOver, StepRefused, ExecuteStep,
       ConfirmPoll, ConfirmRaises, NotYetReflected, StepConfirmed, ReconcileRaises, Reconcile,
       VerifyRestart, Complete, VerifyRaises, Mismatch, Fail, Submitted
  <2> QED BY <2>1
<1>4. CASE Supervise \/ Stream \/ Exchange \/ \E c \in Closers : CloserStep(c)
  BY <1>2, <1>4 DEF Supervise, SupervisorTick, SupervisorRestart, Stream, StreamPosition,
     StreamManualOpen, StreamFilled, Exchange, Fill, Expire, UserTrade, CloserStep, CloserBusy,
     CloserBegin, CloserAct
<1>5. CASE \E exec \in Execs, byReport \in BOOLEAN : PlaceBrackets(exec, byReport)
  BY <1>2, <1>5, BracketsAppend
<1> QED BY <1>1, <1>2, <1>3, <1>4, <1>5 DEF Next, vars

LEMMA BreakerInvHolds == Spec => []BreakerInv
<1>1. Init => RoomInv /\ BreakerInv
  <2> SUFFICES ASSUME Init PROVE RoomInv /\ BreakerInv
    OBVIOUS
  <2>1. NewClosers = {} /\ IsFiniteSet(NewClosers) /\ Cardinality(NewClosers) = 0
    <3>1. NewClosers = {}
      BY DEF Init, NoCloser, NewClosers
    <3> QED BY <3>1, FS_EmptySet
  <2>2. RoomInv
    <3>1. Starting = Cardinality(NewClosers)
      BY <2>1 DEF Init, IdleOrch, Starting, NewClosers
    <3> HIDE DEF NewClosers
    <3> QED BY <2>1, <3>1, OrderAssumption DEF Init, RoomInv
  <2>3. Journaled = {} /\ ~ Submitted /\ failures = 0
    BY DEF Init, Journaled, Submitted, IdleOrch
  <2>4. ConcludedRun = {} /\ Cardinality(ConcludedRun) = 0
    <3>1. ConcludedRun = {}
      BY <2>3 DEF ConcludedRun, Concluded
    <3> QED BY <3>1, FS_EmptySet
  <2>5. CountsRun
    <3> HIDE DEF ConcludedRun
    <3>1. ~ failures >= FailureThreshold
      BY <2>3, OrderAssumption
    <3> QED BY <2>3, <2>4, <3>1 DEF CountsRun
  <2> QED BY <2>2, <2>3, <2>5 DEF BreakerInv, NewestUnderWay
<1>2. IInv /\ JournalInv /\ RoomInv /\ BreakerInv /\ [Next]_vars => RoomInv' /\ BreakerInv'
  BY RoomStep, BreakerInvStep, BeginsFromWait
<1> QED BY <1>1, <1>2, IInvHolds, JournalInvHolds, PTL DEF Spec

(***************************************************************************)
(* Between submissions, and as long as no journal append raised, the        *)
(* breaker's count is the number of newest executions journalled as failed  *)
(* since the last success or finalize mismatch: a mismatch is journalled    *)
(* as a failure and clears the count all the same.  The journal tells of a  *)
(* trip exactly at the threshold.                                          *)
(***************************************************************************)
THEOREM BreakerTellsTheRun == Spec => []BreakerMatchesJournal
<1>1. BreakerInv => BreakerMatchesJournal
  <2> SUFFICES ASSUME BreakerInv, faults = 0, orch.pc = "idle"
               PROVE  /\ failures = Cardinality(CountedRun)
                      /\ failures >= FailureThreshold <=>
                           \E e \in CountedRun : RowsOf(e, {"SYSTEM_FROZEN"}) > 0
    BY DEF BreakerMatchesJournal
  <2>1. Concluded = Journaled /\ \A e \in Journaled : e \in Int
    BY OrderAssumption DEF Concluded, Submitted, Journaled, Execs
  <2>2. ASSUME NEW e
        PROVE  e \in CountedRun <=> e \in ConcludedRun
    <3> HIDE DEF HasFailed, HasMismatched
    <3>1. ASSUME e \in CountedRun
          PROVE  e \in ConcludedRun
      <4>1. e \in Journaled /\ \A f \in Journaled : f >= e => HasFailed(f)
        BY <3>1 DEF CountedRun, FailedRun
      <4>2. \A f \in Journaled : f >= e => f \in FailedRun
        BY <2>1, <4>1 DEF FailedRun
      <4>3. \A f \in Journaled : f >= e => HasCrashed(f)
        BY <3>1, <4>1, <4>2 DEF CountedRun, HasCrashed
      <4> QED BY <2>1, <4>1, <4>3 DEF ConcludedRun
    <3>2. ASSUME e \in ConcludedRun
          PROVE  e \in CountedRun
      BY <2>1, <3>2 DEF ConcludedRun, CountedRun, FailedRun, HasCrashed
    <3> QED BY <3>1, <3>2
  <2>3. CountedRun = ConcludedRun
    BY <2>2
  <2> HIDE DEF CountedRun, ConcludedRun
  <2> QED BY <2>3 DEF BreakerInv, CountsRun, HasTripped
<1> QED BY <1>1, BreakerInvHolds, PTL

=============================================================================
