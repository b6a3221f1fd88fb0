-------------------------- MODULE LiveLoop_proofs --------------------------
(***************************************************************************)
(* Proofs about LiveLoop, for every value of its constants.                *)
(*                                                                         *)
(* CoreInv is inductive as it stands.  SettledInv is inductive relative to *)
(* it when CrashWhileSettling is FALSE: with it TRUE the conclusion is     *)
(* false, as LiveLoop_refire shows.                                        *)
(***************************************************************************)
EXTENDS LiveLoop, TLAPS

USE DEF Load, Write

-----------------------------------------------------------------------------
(* Types *)

(* The initial state, an empty data directory, is well formed. *)
LEMMA DataInit == Init => DataOK
BY ConstantsAssumption DEF Init, DataOK, PCs, State, DEFAULTS, Policies

(* No step of the process, the operator or the chain leaves the types. *)
LEMMA DataStep == DataOK /\ [Next]_vars => DataOK'
<1> SUFFICES ASSUME DataOK, [Next]_vars PROVE DataOK'
  OBVIOUS
<1> USE DEF DataOK, PCs, State, DEFAULTS, procVars, fileVars, chainVars,
            obsVars, Exit
<1>1. CASE WatchdogStart
  BY <1>1 DEF WatchdogStart
<1>2. CASE WatchdogReturn
  BY <1>2 DEF WatchdogReturn
<1>3. CASE WatchdogRestart
  BY <1>3 DEF WatchdogRestart
<1>4. CASE WatchdogQuit
  BY <1>4 DEF WatchdogQuit
<1>5. CASE WatchdogGiveUp
  BY <1>5 DEF WatchdogGiveUp
<1>6. CASE Boot
  BY <1>6 DEF Boot
<1>7. CASE TickStart
  BY <1>7 DEF TickStart
<1>8. CASE LoopReturn
  BY <1>8 DEF LoopReturn
<1>9. CASE HoldOnReadFailure
  BY <1>9 DEF HoldOnReadFailure
<1>10. CASE RecoverPending
  BY <1>10 DEF RecoverPending
<1>11. CASE Reconcile
  BY <1>11 DEF Reconcile
<1>12. ASSUME NEW v \in {"allow", "reject"}, Decide(v) PROVE DataOK'
  BY <1>12 DEF Decide, Receipt
<1>13. CASE Stage
  BY <1>13 DEF Stage
<1>14. CASE SkipOrder
  BY <1>14 DEF SkipOrder
<1>15. CASE Broadcast
  BY <1>15 DEF Broadcast, Order
<1>16. CASE AwaitPlaced
  BY <1>16 DEF AwaitPlaced
<1>17. CASE AwaitFailed
  BY <1>17 DEF AwaitFailed
<1>18. CASE Record
  BY <1>18 DEF Record, ExecRecord
<1>19. CASE Finish
  BY <1>19 DEF Finish
<1>20. CASE Wake
  BY <1>20 DEF Wake
<1>21. CASE DecideTorn
  BY <1>21 DEF DecideTorn
<1>22. CASE Raise
  BY <1>22 DEF Raise
<1>23. CASE Cancel
  BY <1>23 DEF Cancel
<1>24. CASE Crash
  BY <1>24 DEF Crash
<1>25. CASE Launch
  BY <1>25 DEF Launch
<1>26. CASE TouchStop
  BY <1>26 DEF TouchStop
<1>27. CASE EditConfig
  BY <1>27, ConstantsAssumption DEF EditConfig, Policies
<1>28. CASE Mine
  BY <1>28 DEF Mine
<1>29. CASE Drop
  BY <1>29 DEF Drop
<1>30. CASE UNCHANGED vars
  BY <1>30 DEF vars
<1> QED
  BY <1>1, <1>2, <1>3, <1>4, <1>5, <1>6, <1>7, <1>8, <1>9, <1>10, <1>11,
     <1>12, <1>13, <1>14, <1>15, <1>16, <1>17, <1>18, <1>19, <1>20,
     <1>21, <1>22, <1>23, <1>24, <1>25, <1>26, <1>27, <1>28, <1>29,
     <1>30 DEF Next, Watchdog, Tick, Faults, Operator, Chain

(* The STOP file, the torn tail and the give-up observer are flags. *)
LEMMA FlagsStep == FlagsOK /\ [Next]_vars => FlagsOK'
<1> SUFFICES ASSUME FlagsOK, [Next]_vars PROVE FlagsOK'
  OBVIOUS
<1> USE DEF FlagsOK, vars, procVars, fileVars, chainVars, obsVars, Exit
<1>1. CASE Watchdog
  BY <1>1 DEF Watchdog, WatchdogStart, WatchdogReturn, WatchdogRestart,
              WatchdogQuit, WatchdogGiveUp
<1>2. CASE Tick
  BY <1>2 DEF Tick, Boot, TickStart, LoopReturn, HoldOnReadFailure,
              RecoverPending, Reconcile, Decide, Stage, SkipOrder, Broadcast,
              AwaitPlaced, AwaitFailed, Record, Finish, Wake
<1>3. CASE Faults
  BY <1>3 DEF Faults, DecideTorn, Raise, Cancel, Crash
<1>4. CASE Operator
  BY <1>4 DEF Operator, Launch, TouchStop, EditConfig
<1>5. CASE Chain
  BY <1>5 DEF Chain, Mine, Drop
<1>6. CASE UNCHANGED vars
  BY <1>6
<1> QED
  BY <1>1, <1>2, <1>3, <1>4, <1>5, <1>6 DEF Next

(* Type correctness: the shape of files, memory and chain is kept by every *)
(* step, and the chain's sets only name orders the loop has sent.          *)
THEOREM TypeCorrect == Spec => []TypeOK
<1>1. Init => TypeOK
  <2>1. Init => FlagsOK
    BY DEF Init, FlagsOK
  <2> QED
    BY <2>1, DataInit DEF TypeOK
<1>2. TypeOK /\ [Next]_vars => TypeOK'
  BY DataStep, FlagsStep DEF TypeOK
<1> QED
  BY <1>1, <1>2, PTL DEF Spec

-----------------------------------------------------------------------------
(* The core invariant *)

(* A first start, with no files, satisfies the core invariant. *)
LEMMA CoreInit == Init => CoreInv
<1> SUFFICES ASSUME Init PROVE CoreInv
  OBVIOUS
<1>1. DataOK
  BY DataInit
<1>2. OrdersAuthorised /\ SendReady /\ AwaitReady /\ ExecLogTruthful
  BY DEF Init, OrdersAuthorised, SendReady, AwaitReady, ExecLogTruthful
<1>3. StepPending /\ StopCount /\ StopBound /\ InFlightIsLatest
  BY DEF Init, StepPending, StopCount, StopBound, InFlightIsLatest, DEFAULTS
<1>4. BooksAreReal
  BY DEF Init, BooksAreReal, DEFAULTS
<1> QED
  BY <1>1, <1>2, <1>3, <1>4 DEF CoreInv

(* Committing a receipt: the new one is the last, the earlier ones stay,   *)
(* and no order can carry its number yet.                                  *)
LEMMA DecideCore ==
  ASSUME CoreInv, DataOK', NEW v \in {"allow", "reject"}, Decide(v)
  PROVE  CoreInv'
<1> USE DEF CoreInv, DataOK, chainVars, obsVars
<1> DEFINE r == [verdict |-> v, policy |-> policy, ran |-> loaded]
<1>1. receipts' = Append(receipts, r) /\ r \in Receipt
  BY DEF Decide, Receipt
<1>2. /\ Len(receipts') = Len(receipts) + 1
      /\ receipts'[Len(receipts')] = r
      /\ \A i \in DOMAIN receipts :
            i \in DOMAIN receipts' /\ receipts'[i] = receipts[i]
  BY <1>1
<1>3. OrdersAuthorised' /\ ExecLogTruthful'
  BY <1>2 DEF Decide, OrdersAuthorised, ExecLogTruthful
<1>4. SendReady'
  <2>1. \A i \in DOMAIN orders : orders[i].cid # Len(receipts')
    BY <1>2 DEF OrdersAuthorised
  <2> QED
    BY <1>2, <2>1 DEF Decide, SendReady
<1>5. AwaitReady' /\ StepPending' /\ StopCount' /\ StopBound'
  BY DEF Decide, AwaitReady, StepPending, StopCount, StopBound
<1>6. BooksAreReal' /\ InFlightIsLatest'
  BY DEF Decide, BooksAreReal, InFlightIsLatest
<1> QED
  BY <1>3, <1>4, <1>5, <1>6

(* Every step keeps the core invariant. *)
LEMMA CoreStep == CoreInv /\ [Next]_vars => CoreInv'
<1> SUFFICES ASSUME CoreInv, [Next]_vars PROVE CoreInv'
  OBVIOUS
<1>0. DataOK'
  BY DataStep DEF CoreInv
<1> USE DEF CoreInv, DataOK, OrdersAuthorised, SendReady, AwaitReady,
            StepPending, StopCount, StopBound, BooksAreReal, ExecLogTruthful,
            InFlightIsLatest, State, DEFAULTS, procVars, fileVars, chainVars,
            obsVars, Exit
<1>1. CASE WatchdogStart
  BY <1>1, <1>0 DEF WatchdogStart
<1>2. CASE WatchdogReturn
  BY <1>2, <1>0 DEF WatchdogReturn
<1>3. CASE WatchdogRestart
  BY <1>3, <1>0 DEF WatchdogRestart
<1>4. CASE WatchdogQuit
  BY <1>4, <1>0 DEF WatchdogQuit
<1>5. CASE WatchdogGiveUp
  BY <1>5, <1>0 DEF WatchdogGiveUp
<1>6. CASE Boot
  BY <1>6, <1>0 DEF Boot
<1>7. CASE TickStart
  BY <1>7, <1>0 DEF TickStart
<1>8. CASE LoopReturn
  BY <1>8, <1>0 DEF LoopReturn
<1>9. CASE HoldOnReadFailure
  BY <1>9, <1>0 DEF HoldOnReadFailure
<1>10. CASE RecoverPending
  BY <1>10, <1>0 DEF RecoverPending
<1>11. CASE Reconcile
  BY <1>11, <1>0 DEF Reconcile
<1>12. ASSUME NEW v \in {"allow", "reject"}, Decide(v) PROVE CoreInv'
  BY <1>0, <1>12, DecideCore
<1>13. CASE Stage
  BY <1>13, <1>0 DEF Stage
<1>14. CASE SkipOrder
  BY <1>14, <1>0 DEF SkipOrder
<1>15. CASE Broadcast
  BY <1>15, <1>0 DEF Broadcast
<1>16. CASE AwaitPlaced
  BY <1>16, <1>0 DEF AwaitPlaced
<1>17. CASE AwaitFailed
  BY <1>17, <1>0 DEF AwaitFailed
<1>18. CASE Record
  BY <1>18, <1>0 DEF Record
<1>19. CASE Finish
  BY <1>19, <1>0 DEF Finish
<1>20. CASE Wake
  BY <1>20, <1>0 DEF Wake
<1>21. CASE DecideTorn
  BY <1>21, <1>0 DEF DecideTorn
<1>22. CASE Raise
  BY <1>22, <1>0 DEF Raise
<1>23. CASE Cancel
  BY <1>23, <1>0 DEF Cancel
<1>24. CASE Crash
  BY <1>24, <1>0 DEF Crash
<1>25. CASE Launch
  BY <1>25, <1>0 DEF Launch
<1>26. CASE TouchStop
  BY <1>26, <1>0 DEF TouchStop
<1>27. CASE EditConfig
  BY <1>27, <1>0 DEF EditConfig
<1>28. CASE Mine
  BY <1>28, <1>0 DEF Mine
<1>29. CASE Drop
  BY <1>29, <1>0 DEF Drop
<1>30. CASE UNCHANGED vars
  BY <1>30 DEF vars
<1> QED
  BY <1>1, <1>2, <1>3, <1>4, <1>5, <1>6, <1>7, <1>8, <1>9, <1>10, <1>11,
     <1>12, <1>13, <1>14, <1>15, <1>16, <1>17, <1>18, <1>19, <1>20,
     <1>21, <1>22, <1>23, <1>24, <1>25, <1>26, <1>27, <1>28, <1>29,
     <1>30 DEF Next, Watchdog, Tick, Faults, Operator, Chain

(* So it holds in every state the loop, its faults and the chain reach.   *)
LEMMA CoreInvariant == Spec => []CoreInv
BY CoreInit, CoreStep, PTL DEF Spec

-----------------------------------------------------------------------------
(* What follows without any assumption on crashes *)

(* Every order on chain is bound to exactly one receipt that was committed *)
(* before it and let a trade through, whatever crashes came between.       *)
THEOREM Binding == Spec => []OrdersAuthorised
<1>1. CoreInv => OrdersAuthorised
  BY DEF CoreInv
<1> QED
  BY <1>1, CoreInvariant, PTL

(* After the operator's STOP at most one more order leaves the process. *)
THEOREM StopIsPrompt == Spec => []StopBound
<1>1. CoreInv => StopBound
  BY DEF CoreInv
<1> QED
  BY <1>1, CoreInvariant, PTL

(* Neither the books nor the execution log claim a trade the chain did not *)
(* accept.                                                                 *)
THEOREM NoPhantoms == Spec => [](BooksAreReal /\ ExecLogTruthful)
<1>1. CoreInv => BooksAreReal /\ ExecLogTruthful
  BY DEF CoreInv
<1> QED
  BY <1>1, CoreInvariant, PTL

(* A step that sends an order is Broadcast, one that fills one is Mine,    *)
(* one that commits a receipt is Decide: nothing else touches the record.  *)
LEMMA PublicSteps ==
  [Next]_vars =>
    /\ orders' # orders => Broadcast
    /\ filled' # filled => Mine
    /\ receipts' # receipts => \E v \in {"allow", "reject"} : Decide(v)
<1> SUFFICES ASSUME [Next]_vars
             PROVE  /\ orders' # orders => Broadcast
                    /\ filled' # filled => Mine
                    /\ receipts' # receipts =>
                          \E v \in {"allow", "reject"} : Decide(v)
  OBVIOUS
<1> USE DEF procVars, fileVars, chainVars, obsVars, Exit
<1>1. CASE Watchdog
  BY <1>1 DEF Watchdog, WatchdogStart, WatchdogReturn, WatchdogRestart,
              WatchdogQuit, WatchdogGiveUp
<1>2. CASE Tick
  BY <1>2 DEF Tick, Boot, TickStart, LoopReturn, HoldOnReadFailure,
              RecoverPending, Reconcile, Decide, Stage, SkipOrder, Broadcast,
              AwaitPlaced, AwaitFailed, Record, Finish, Wake
<1>3. CASE Faults
  BY <1>3 DEF Faults, DecideTorn, Raise, Cancel, Crash
<1>4. CASE Operator
  BY <1>4 DEF Operator, Launch, TouchStop, EditConfig
<1>5. CASE Chain
  BY <1>5 DEF Chain, Mine, Drop
<1>6. CASE UNCHANGED vars
  BY <1>6 DEF vars
<1> QED
  BY <1>1, <1>2, <1>3, <1>4, <1>5, <1>6 DEF Next

(* A receipt trail that ends in half a line ends trading. *)
THEOREM TornTrailTheorem == Spec => TornTrailHalts
<1>1. CoreInv /\ [Next]_vars => [torn => orders' = orders]_vars
  BY PublicSteps DEF CoreInv, SendReady, Broadcast
<1> QED
  BY <1>1, CoreInvariant, PTL DEF Spec, TornTrailHalts

(* No incarnation of the loop commits a decision while an intent of an     *)
(* earlier one is pending in the state file.                               *)
THEOREM RecoveryFirst == Spec => RecoverBeforeDecide
<1>1. CoreInv /\ [Next]_vars => [receipts' # receipts => disk.pending = 0]_vars
  BY PublicSteps DEF CoreInv, StepPending, Decide
<1> QED
  BY <1>1, CoreInvariant, PTL DEF Spec, RecoverBeforeDecide

(* The state file is only written by the four steps that save it. *)
LEMMA DiskSteps ==
  [Next]_vars /\ disk' # disk =>
    HoldOnReadFailure \/ RecoverPending \/ Stage \/ Finish
<1> SUFFICES ASSUME [Next]_vars, disk' # disk
             PROVE  HoldOnReadFailure \/ RecoverPending \/ Stage \/ Finish
  OBVIOUS
<1> USE DEF procVars, fileVars, chainVars, obsVars, Exit
<1>1. CASE Watchdog
  BY <1>1 DEF Watchdog, WatchdogStart, WatchdogReturn, WatchdogRestart,
              WatchdogQuit, WatchdogGiveUp
<1>2. CASE Tick
  BY <1>2 DEF Tick, Boot, TickStart, LoopReturn, Reconcile, Decide, SkipOrder,
              Broadcast, AwaitPlaced, AwaitFailed, Record, Wake
<1>3. CASE Faults
  BY <1>3 DEF Faults, DecideTorn, Raise, Cancel, Crash
<1>4. CASE Operator
  BY <1>4 DEF Operator, Launch, TouchStop, EditConfig
<1>5. CASE Chain
  BY <1>5 DEF Chain, Mine, Drop
<1>6. CASE UNCHANGED vars
  BY <1>6 DEF vars
<1> QED
  BY <1>1, <1>2, <1>3, <1>4, <1>5, <1>6 DEF Next

(* Intent numbers are never issued twice, across any number of restarts:   *)
(* the counter in the state file never goes back, and a new pending intent *)
(* takes a number above it.                                                *)
THEOREM IntentNumbers == Spec => IntentNeverReissued
<1> DEFINE Fresh ==
      /\ disk'.intent_seq >= disk.intent_seq
      /\ disk.pending = 0 /\ disk'.pending # 0 =>
           /\ disk'.pending = disk'.intent_seq
           /\ disk'.intent_seq > disk.intent_seq
<1>1. CoreInv /\ [Next]_vars => [Fresh]_vars
  <2> SUFFICES ASSUME CoreInv, [Next]_vars PROVE Fresh
    OBVIOUS
  <2> USE DEF CoreInv, DataOK, StepPending, State
  <2>1. CASE disk' = disk
    BY <2>1
  <2>2. CASE HoldOnReadFailure
    BY <2>2 DEF HoldOnReadFailure
  <2>3. CASE RecoverPending
    BY <2>3 DEF RecoverPending
  <2>4. CASE Stage
    BY <2>4 DEF Stage
  <2>5. CASE Finish
    BY <2>5 DEF Finish
  <2> QED
    BY <2>1, <2>2, <2>3, <2>4, <2>5, DiskSteps
<1> QED
  BY <1>1, CoreInvariant, PTL DEF Spec, IntentNeverReissued

-----------------------------------------------------------------------------
(* What holds while no transaction is unsettled across a death in the sleep *)

(* Nothing is in flight before the first order. *)
LEMMA SettledInit == Init => SettledInv
BY DEF Init, SettledInv, InFlightIsPending, BooksCurrent, NoBlindOrder

(* Every step keeps books, pending intent and in-flight order in agreement.*)
LEMMA SettledStep ==
  ~CrashWhileSettling /\ CoreInv /\ SettledInv /\ [Next]_vars => SettledInv'
<1> SUFFICES ASSUME ~CrashWhileSettling, CoreInv, SettledInv, [Next]_vars
             PROVE  SettledInv'
  OBVIOUS
<1>0. DataOK'
  BY DataStep DEF CoreInv
<1> USE DEF CoreInv, DataOK, StepPending, InFlightIsLatest, SettledInv,
            InFlightIsPending, BooksCurrent, NoBlindOrder, State, DEFAULTS,
            procVars, fileVars, chainVars, obsVars, Exit
<1>1. CASE WatchdogStart
  BY <1>1, <1>0 DEF WatchdogStart
<1>2. CASE WatchdogReturn
  BY <1>2, <1>0 DEF WatchdogReturn
<1>3. CASE WatchdogRestart
  BY <1>3, <1>0 DEF WatchdogRestart
<1>4. CASE WatchdogQuit
  BY <1>4, <1>0 DEF WatchdogQuit
<1>5. CASE WatchdogGiveUp
  BY <1>5, <1>0 DEF WatchdogGiveUp
<1>6. CASE Boot
  BY <1>6, <1>0 DEF Boot
<1>7. CASE TickStart
  BY <1>7, <1>0 DEF TickStart
<1>8. CASE LoopReturn
  BY <1>8, <1>0 DEF LoopReturn
<1>9. CASE HoldOnReadFailure
  BY <1>9, <1>0 DEF HoldOnReadFailure
<1>10. CASE RecoverPending
  BY <1>10, <1>0 DEF RecoverPending
<1>11. CASE Reconcile
  BY <1>11, <1>0 DEF Reconcile
<1>12. ASSUME NEW v \in {"allow", "reject"}, Decide(v) PROVE SettledInv'
  BY <1>12, <1>0 DEF Decide
<1>13. CASE Stage
  BY <1>13, <1>0 DEF Stage
<1>14. CASE SkipOrder
  BY <1>14, <1>0 DEF SkipOrder
<1>15. CASE Broadcast
  BY <1>15, <1>0 DEF Broadcast
<1>16. CASE AwaitPlaced
  BY <1>16, <1>0 DEF AwaitPlaced
<1>17. CASE AwaitFailed
  BY <1>17, <1>0 DEF AwaitFailed
<1>18. CASE Record
  BY <1>18, <1>0 DEF Record
<1>19. CASE Finish
  BY <1>19, <1>0 DEF Finish
<1>20. CASE Wake
  BY <1>20, <1>0 DEF Wake
<1>21. CASE DecideTorn
  BY <1>21, <1>0 DEF DecideTorn
<1>22. CASE Raise
  BY <1>22, <1>0 DEF Raise
<1>23. CASE Cancel
  BY <1>23, <1>0 DEF Cancel
<1>24. CASE Crash
  BY <1>24, <1>0 DEF Crash
<1>25. CASE Launch
  BY <1>25, <1>0 DEF Launch
<1>26. CASE TouchStop
  BY <1>26, <1>0 DEF TouchStop
<1>27. CASE EditConfig
  BY <1>27, <1>0 DEF EditConfig
<1>28. CASE Mine
  BY <1>28, <1>0 DEF Mine
<1>29. CASE Drop
  BY <1>29, <1>0 DEF Drop
<1>30. CASE UNCHANGED vars
  BY <1>30 DEF vars
<1> QED
  BY <1>1, <1>2, <1>3, <1>4, <1>5, <1>6, <1>7, <1>8, <1>9, <1>10, <1>11,
     <1>12, <1>13, <1>14, <1>15, <1>16, <1>17, <1>18, <1>19, <1>20,
     <1>21, <1>22, <1>23, <1>24, <1>25, <1>26, <1>27, <1>28, <1>29,
     <1>30 DEF Next, Watchdog, Tick, Faults, Operator, Chain

(* While the process does not die asleep with an unsettled transaction,   *)
(* books, pending intent and chain agree in every reachable state.         *)
LEMMA SettledInvariant == ~CrashWhileSettling => (Spec => []SettledInv)
<1> SUFFICES ASSUME ~CrashWhileSettling PROVE Spec => []SettledInv
  OBVIOUS
<1>1. CoreInv /\ SettledInv /\ [Next]_vars => SettledInv'
  BY SettledStep
<1> QED
  BY <1>1, SettledInit, CoreInvariant, PTL DEF Spec

(* The trade of a tick that was interrupted is not fired again: an order   *)
(* that fills was decided on books holding every earlier fill.             *)
THEOREM NoRefire == ~CrashWhileSettling => (Spec => []NoBlindOrder)
<1> SUFFICES ASSUME ~CrashWhileSettling PROVE Spec => []NoBlindOrder
  OBVIOUS
<1>1. SettledInv => NoBlindOrder
  BY DEF SettledInv
<1> QED
  BY <1>1, SettledInvariant, PTL

(* The loop implements the abstract trader: its public record is that of a *)
(* process that decides, orders once and knows all earlier fills.          *)
THEOREM Implementation ==
  ~CrashWhileSettling => (Spec => ImplementsAuditedTrader)
<1> SUFFICES ASSUME ~CrashWhileSettling PROVE Spec => ImplementsAuditedTrader
  OBVIOUS
<1>1. Init => Audited!Init
  BY DEF Init, Audited!Init
<1>2. CoreInv /\ SettledInv /\ [Next]_vars => [Audited!Next]_(Audited!vars)
  <2> SUFFICES ASSUME CoreInv, SettledInv, [Next]_vars
               PROVE  [Audited!Next]_(Audited!vars)
    OBVIOUS
  <2> USE DEF Audited!vars
  <2>1. ASSUME NEW v \in {"allow", "reject"}, Decide(v) PROVE Audited!Commit
    BY <2>1 DEF Decide, Audited!Commit, CoreInv, DataOK, Receipt, chainVars
  <2>2. CASE Broadcast
    <3>1. mem.view \in SUBSET DOMAIN orders
      BY DEF CoreInv, DataOK, BooksAreReal
    <3>2. filled \subseteq mem.view
      BY <2>2 DEF Broadcast, SettledInv, BooksCurrent
    <3>3. Audited!Send
      BY <2>2, <3>1, <3>2 DEF Broadcast, Audited!Send, CoreInv, SendReady,
                              fileVars
    <3> QED
      BY <3>3 DEF Audited!Next
  <2>3. CASE Mine
    <3>1. orders # <<>> /\ mempool = Len(orders) /\ mempool \notin filled
      BY <2>3 DEF Mine, CoreInv, DataOK, InFlightIsLatest
    <3> QED
      BY <2>3, <3>1 DEF Mine, Audited!Fill, Audited!Next, fileVars
  <2>4. CASE ~Broadcast /\ ~Mine /\ ~(\E v \in {"allow", "reject"} : Decide(v))
    BY <2>4, PublicSteps
  <2> QED
    BY <2>1, <2>2, <2>3, <2>4 DEF Audited!Next
<1> QED
  BY <1>1, <1>2, CoreInvariant, SettledInvariant, PTL
     DEF Spec, ImplementsAuditedTrader, Audited!Spec
-----------------------------------------------------------------------------
(* Rules and restarts *)

(* No receipt names rules older than the ones its decision obeyed: the     *)
(* hash is read from the file after the config in memory was.              *)
THEOREM RulesNamed == Spec => []PolicyNotOlder
<1>1. Init => RulesInv
  BY DEF Init, RulesInv, PolicyNotOlder
<1>2. DataOK /\ RulesInv /\ [Next]_vars => RulesInv'
  <2> SUFFICES ASSUME DataOK, RulesInv, [Next]_vars PROVE RulesInv'
    OBVIOUS
  <2>0. loaded \in Nat /\ policy \in Nat /\ receipts \in Seq(Receipt)
    BY ConstantsAssumption DEF DataOK, Policies
  <2> USE <2>0 DEF RulesInv, PolicyNotOlder, vars, procVars, fileVars, chainVars,
                   obsVars, Exit
  <2>1. CASE Watchdog
    BY <2>1 DEF Watchdog, WatchdogStart, WatchdogReturn, WatchdogRestart,
                WatchdogQuit, WatchdogGiveUp
  <2>2. ASSUME NEW v \in {"allow", "reject"}, Decide(v) PROVE RulesInv'
    <3> DEFINE r == [verdict |-> v, policy |-> policy, ran |-> loaded]
    <3>1. r \in Receipt /\ r.ran <= r.policy
      BY DEF DataOK, Receipt
    <3>2. receipts' = Append(receipts, r)
      BY <2>2 DEF Decide
    <3>3. \A i \in DOMAIN receipts' :
             receipts'[i] = r \/ (i \in DOMAIN receipts /\ receipts'[i] = receipts[i])
      BY <3>1, <3>2
    <3>4. loaded' = loaded /\ policy' = policy
      BY <2>2 DEF Decide
    <3> QED
      BY <3>1, <3>3, <3>4
  <2>3. CASE Boot
    BY <2>3 DEF Boot
  <2>4. CASE Tick /\ ~Boot /\ ~(\E v \in {"allow", "reject"} : Decide(v))
    BY <2>4 DEF Tick, TickStart, LoopReturn, HoldOnReadFailure, RecoverPending,
                Reconcile, Stage, SkipOrder, Broadcast, AwaitPlaced, AwaitFailed,
                Record, Finish, Wake
  <2>5. CASE Faults
    BY <2>5 DEF Faults, DecideTorn, Raise, Cancel, Crash
  <2>6. CASE Operator
    BY <2>6 DEF Operator, Launch, TouchStop, EditConfig
  <2>7. CASE Chain
    BY <2>7 DEF Chain, Mine, Drop
  <2>8. CASE UNCHANGED vars
    BY <2>8
  <2> QED
    BY <2>1, <2>2, <2>3, <2>4, <2>5, <2>6, <2>7, <2>8 DEF Next
<1>3. RulesInv => PolicyNotOlder
  BY DEF RulesInv
<1>4. Spec => []DataOK
  BY TypeCorrect, PTL DEF TypeOK
<1> QED
  BY <1>1, <1>2, <1>3, <1>4, PTL DEF Spec

(* The loop is attempted a bounded number of times: its failures without a *)
(* completed tick between them never outnumber what the watchdog counts.   *)
THEOREM RestartsBounded == Spec => []CrashesBounded
<1>1. Init => CountInv
  BY ConstantsAssumption DEF Init, CountInv
<1>2. DataOK /\ CountInv /\ [Next]_vars => CountInv'
  <2> SUFFICES ASSUME DataOK, CountInv, [Next]_vars PROVE CountInv'
    OBVIOUS
  <2>0. restarts \in Nat /\ crashes \in Nat /\ MAX_RESTARTS \in Nat
    BY ConstantsAssumption DEF DataOK
  <2> USE <2>0 DEF CountInv, vars, procVars, fileVars, chainVars, obsVars, Exit
  <2>1. CASE Watchdog
    BY <2>1 DEF Watchdog, WatchdogStart, WatchdogReturn, WatchdogRestart,
                WatchdogQuit, WatchdogGiveUp
  <2>2. CASE Tick
    BY <2>2 DEF Tick, Boot, TickStart, LoopReturn, HoldOnReadFailure,
                RecoverPending, Reconcile, Decide, Stage, SkipOrder, Broadcast,
                AwaitPlaced, AwaitFailed, Record, Finish, Wake
  <2>3. CASE Faults
    BY <2>3 DEF Faults, DecideTorn, Raise, Cancel, Crash
  <2>4. CASE Operator
    BY <2>4 DEF Operator, Launch, TouchStop, EditConfig
  <2>5. CASE Chain
    BY <2>5 DEF Chain, Mine, Drop
  <2>6. CASE UNCHANGED vars
    BY <2>6
  <2> QED
    BY <2>1, <2>2, <2>3, <2>4, <2>5, <2>6 DEF Next
<1>3. CountInv => CrashesBounded
  BY DEF CountInv, CrashesBounded
<1>4. Spec => []DataOK
  BY TypeCorrect, PTL DEF TypeOK
<1> QED
  BY <1>1, <1>2, <1>3, <1>4, PTL DEF Spec

=============================================================================
