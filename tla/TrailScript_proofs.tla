------------------------- MODULE TrailScript_proofs -------------------------
(***************************************************************************)
(* Proofs about the supervised loop, for any number of chats and pairs:    *)
(* the type invariant, the bound on the trades after a pause, and that a   *)
(* single chat loses no setting.  Then the same with the live-trail script *)
(* beside the loop, the cap of every trade and the bound on the rate.      *)
(***************************************************************************)
EXTENDS TrailScript, FiniteSetTheorems, TLAPS

-----------------------------------------------------------------------------
(* Facts about the operators *)

(* An unreadable file is not a runtime state. *)
LEMMA BadIsNoState == BAD \notin RuntimeState
<1>1. ASSUME BAD \in RuntimeState PROVE FALSE
  <2>1. DOMAIN BAD = {"bad"}
    BY DEF BAD
  <2>2. DOMAIN BAD = {"paused", "overrides"}
    BY <1>1 DEF RuntimeState
  <2> QED
    BY <2>1, <2>2
<1> QED
  BY <1>1

(* The defaults are a runtime state, and so is what load returns. *)
LEMMA LoadFacts ==
  /\ DEFAULT \in RuntimeState
  /\ DataOK => Load \in RuntimeState
<1>1. DEFAULT \in RuntimeState
  BY DEF DEFAULT, RuntimeState, Overrides, Unset
<1> QED
  BY <1>1 DEF Load, DataOK

(* One field of a runtime state is changed. *)
LEMMA ChangeFacts ==
  ASSUME NEW s \in RuntimeState, NEW e \in Edits
  PROVE  [s EXCEPT ![e.field] = e.value] \in RuntimeState
<1>1. CASE e \in [field : {"paused"}, value : BOOLEAN]
  BY <1>1 DEF RuntimeState
<1>2. CASE e \in [field : {"overrides"}, value : Overrides]
  BY <1>2 DEF RuntimeState
<1> QED
  BY <1>1, <1>2 DEF Edits

(* The amounts of the guardrail are natural numbers. *)
LEMMA AmountFacts ==
  ASSUME DataOK, NEW p \in Procs, NEW a \in Nat
  PROVE  Cap(p) \in Nat /\ Approved(p, a) \in Nat
<1>1. cfg[p] \in [Fields -> Nat]
  BY DEF DataOK
<1>2. cfg[p].max_single_trade_usd \in Nat
  BY <1>1 DEF Fields
<1>3. Cap(p) \in Nat
  BY <1>2, SupervisedAssumption DEF Cap
<1> QED
  BY <1>3 DEF Approved

-----------------------------------------------------------------------------
(* The type invariant, action by action *)

(* A command starts. *)
LEMMA CommandType ==
  ASSUME TypeOK, NEW c \in Chats, NEW field, NEW value, NEW reply \in RuntimeState,
         [field |-> field, value |-> value] \in Edits,
         Command(c, field, value, reply)
  PROVE  TypeOK'
<1>1. DataOK'
  BY SupervisedAssumption
     DEF TypeOK, DataOK, Command, Go, Steps, shared, tickVars, seen, Procs
<1> QED
  BY <1>1 DEF TypeOK, DataOK, Command, Go, Steps, tickVars

(* The chat's commands and the three steps of update and save. *)
LEMMA ChatType ==
  ASSUME TypeOK, NEW c \in Chats,
         \/ Pause(c) \/ Resume(c) \/ (\E s \in Settings : SetCap(c, s[1], s[2]))
         \/ Update(c) \/ Open(c) \/ Write(c) \/ Status(c) \/ ChatTick(c)
  PROVE  TypeOK'
<1>0. c \in Procs /\ c # "loop"
  BY SupervisedAssumption DEF Procs
<1>1. CASE Pause(c)
  <2>1. [promised EXCEPT !.paused = TRUE] \in RuntimeState
    BY DEF TypeOK, DataOK, RuntimeState
  <2>2. [field |-> "paused", value |-> TRUE] \in Edits
    BY DEF Edits
  <2> QED
    BY <1>1, <2>1, <2>2, CommandType DEF Pause
<1>2. CASE Resume(c)
  <2>1. [promised EXCEPT !.paused = FALSE] \in RuntimeState
    BY DEF TypeOK, DataOK, RuntimeState
  <2>2. [field |-> "paused", value |-> FALSE] \in Edits
    BY DEF Edits
  <2> QED
    BY <1>2, <2>1, <2>2, CommandType DEF Resume
<1>3. ASSUME NEW s \in Settings, SetCap(c, s[1], s[2])
      PROVE  TypeOK'
  <2>1. s[1] \in Fields /\ s[2] \in Nat
    BY SupervisedAssumption
  <2>2. [promised EXCEPT !.overrides[s[1]] = s[2]] \in RuntimeState
    BY <2>1 DEF TypeOK, DataOK, RuntimeState, Overrides
  <2>3. [Load.overrides EXCEPT ![s[1]] = s[2]] \in Overrides
    BY <2>1, LoadFacts DEF TypeOK, RuntimeState, Overrides
  <2>4. [field |-> "overrides", value |-> [Load.overrides EXCEPT ![s[1]] = s[2]]] \in Edits
    BY <2>3 DEF Edits
  <2> QED
    BY <1>3, <2>2, <2>4, CommandType DEF SetCap
<1>4. CASE Update(c)
  <2>1. edit[c] \in Edits
    BY DEF TypeOK, DataOK
  <2>2. [Load EXCEPT ![edit[c].field] = edit[c].value] \in RuntimeState
    BY <2>1, LoadFacts, ChangeFacts DEF TypeOK
  <2>3. draft' \in [Chats -> RuntimeState]
    BY <1>4, <2>2 DEF Update, TypeOK, DataOK
  <2>4. DataOK'
    BY <1>0, <1>4, <2>3 DEF Update, TypeOK, DataOK, Go, Steps, shared, tickVars, seen
  <2> QED
    BY <1>4, <2>4 DEF Update, TypeOK, DataOK, Go, Steps, tickVars
<1>5. CASE Open(c)
  <2>1. DataOK'
    BY <1>0, <1>5 DEF Open, TypeOK, DataOK, Go, Steps, chatVars, tickVars
  <2> QED
    BY <1>5, <2>1 DEF Open, TypeOK, DataOK, Go, Steps, tickVars
<1>6. CASE Write(c)
  <2>1. NoEdit \in Edits /\ DEFAULT \in RuntimeState
    BY LoadFacts DEF NoEdit, Edits
  <2>2. /\ edit' \in [Chats -> Edits] /\ draft' \in [Chats -> RuntimeState]
        /\ told' \in [Chats -> RuntimeState] /\ promised' \in RuntimeState
        /\ file' \in RuntimeState \cup {BAD}
    BY <1>6, <2>1 DEF Write, TypeOK, DataOK
  <2>3. DataOK'
    BY <1>0, <1>6, <2>2 DEF Write, TypeOK, DataOK, Go, tickVars, Steps
  <2> QED
    BY <1>6, <2>3 DEF Write, TypeOK, DataOK, Go, Steps, tickVars
<1>7. CASE Status(c)
  BY <1>7, SupervisedAssumption
     DEF Status, Mark, TypeOK, DataOK, chatVars, tickVars, seen
<1>8. CASE ChatTick(c)
  <2>1. ToldPaused \in BOOLEAN
    BY DEF ToldPaused, TypeOK, DataOK, RuntimeState
  <2>2. warned' \in [Procs -> BOOLEAN]
    BY <1>8, <2>1 DEF ChatTick, TypeOK, DataOK
  <2>3. DataOK'
    BY <1>0, <1>8, <2>2 DEF ChatTick, TypeOK, DataOK, Go, Steps, shared, chatVars, seen
  <2> QED
    BY <1>8, <2>3 DEF ChatTick, TypeOK, DataOK, Go, Steps
<1> QED
  BY <1>1, <1>2, <1>3, <1>4, <1>5, <1>6, <1>7, <1>8

(* The loop wakes. *)
LEMMA LoopTopType == TypeOK /\ LoopTop => TypeOK'
<1> SUFFICES ASSUME TypeOK, LoopTop PROVE TypeOK'
  OBVIOUS
<1>1. ToldPaused \in BOOLEAN
  BY DEF ToldPaused, TypeOK, DataOK, RuntimeState
<1>2. warned' \in [Procs -> BOOLEAN]
  BY <1>1 DEF LoopTop, TypeOK, DataOK
<1>3. DataOK'
  BY <1>2 DEF LoopTop, TypeOK, DataOK, Go, Steps, shared, chatVars, seen, Procs
<1> QED
  BY <1>3 DEF LoopTop, TypeOK, DataOK, Go, Steps

(* A tick returns, with its locals reset. *)
LEMMA ReturnType ==
  ASSUME DataOK, NEW p \in Procs, Return(p)
  PROVE  /\ pc' \in [Procs -> Steps] /\ pc' = [pc EXCEPT ![p] = "idle"]
         /\ cfg' \in [Procs -> [Fields -> Nat]] /\ pair' \in [Procs -> 1 .. NPairs + 1]
         /\ amount' \in [Procs -> Nat] /\ warned' \in [Procs -> BOOLEAN]
         /\ \A q \in Procs : q # p => pair'[q] = pair[q]
<1>1. 1 \in 1 .. NPairs + 1
  BY SupervisedAssumption
<1> QED
  BY <1>1, SupervisedAssumption DEF DataOK, Return, Go, Steps

(* A trade happens. *)
LEMMA HappensType ==
  ASSUME DataOK, NEW p \in Procs, Happens(p)
  PROVE  /\ trades' \in Seq(TradeRecord) /\ sincePause' \in Nat
         /\ worth' = worth /\ peak' = peak
<1>1. Cap(p) \in Nat
  BY AmountFacts, 0 \in Nat
<1>2. warned[p] \in BOOLEAN /\ amount[p] \in Nat /\ now \in Nat
  BY DEF DataOK
<1> DEFINE r == [at |-> now, amount |-> amount[p], cap |-> Cap(p),
                 disobeys |-> p = "loop" /\ warned[p],
                 down |-> (peak - worth) * 100 >= MaxDrawdown * peak]
<1>3. r \in TradeRecord
  BY <1>1, <1>2 DEF TradeRecord
<1>4. trades \in Seq(TradeRecord)
  BY DEF DataOK
<1>6. trades' = Append(trades, r)
  BY DEF Happens
<1> HIDE DEF r
<1>5. trades' \in Seq(TradeRecord)
  BY <1>3, <1>4, <1>6
<1> QED
  BY <1>5 DEF Happens, DataOK

(* The steps of a tick. *)
LEMMA TickType == TypeOK /\ Tick => TypeOK'
<1> SUFFICES ASSUME TypeOK, NEW p \in Procs,
                    \/ Begin(p)
                    \/ (\E a \in Amounts, listed \in BOOLEAN : Decide(p, a, listed))
                    \/ Execute(p) \/ Attempt(p) \/ Record(p) \/ TickEnd(p)
                    \/ TickError(p) \/ LostAnswer(p)
             PROVE  TypeOK'
  BY DEF Tick
<1> USE DEF TypeOK
<1>0. NPairs \in Nat /\ pair \in [Procs -> 1 .. NPairs + 1]
  BY SupervisedAssumption DEF DataOK
<1>1. CASE Begin(p)
  <2> DEFINE caps == [f \in Fields |-> IF Load.overrides[f] = Unset THEN Risk[f]
                                       ELSE Load.overrides[f]]
  <2>1. caps \in [Fields -> Nat]
    BY LoadFacts, SupervisedAssumption DEF RuntimeState, Overrides
  <2>2. cfg' = [cfg EXCEPT ![p] = caps]
    BY <1>1 DEF Begin
  <2> HIDE DEF caps
  <2>3. cfg' \in [Procs -> [Fields -> Nat]]
    BY <2>1, <2>2 DEF DataOK
  <2>4. hwm' \in {0, Value} /\ pair' \in [Procs -> 1 .. NPairs + 1]
    BY <1>0, <1>1 DEF Begin, Mark, DataOK
  <2>5. DataOK'
    BY <1>1, <2>3, <2>4 DEF Begin, DataOK, Go, Steps, chatVars, seen
  <2> QED
    BY <1>0, <1>1, <2>5 DEF Begin, DataOK, Go, Steps
<1>2. ASSUME NEW a \in Amounts, NEW listed \in BOOLEAN, Decide(p, a, listed)
      PROVE  TypeOK'
  <2>1. a \in Nat
    BY SupervisedAssumption
  <2>2. Approved(p, a) \in Nat
    BY <2>1, AmountFacts
  <2>3. pair[p] \in Nat /\ pair[p] <= NPairs
    BY <1>0, <1>2 DEF Decide
  <2>4. UNCHANGED <<shared, chatVars, cfg, warned, seen>>
    BY <1>2 DEF Decide
  <2>5. CASE NextPair(p) /\ UNCHANGED amount
    <3>1. pair' \in [Procs -> 1 .. NPairs + 1]
      BY <1>0, <2>3, <2>5 DEF NextPair
    <3>2. DataOK'
      BY <2>4, <2>5, <3>1 DEF NextPair, DataOK, Go, Steps, shared, chatVars, seen
    <3> QED
      BY <1>0, <2>5, <3>2 DEF NextPair, DataOK, Go, Steps
  <2>6. CASE /\ amount' = [amount EXCEPT ![p] = Approved(p, a)]
             /\ Go(p, "trade") /\ UNCHANGED pair
    <3>1. amount' \in [Procs -> Nat]
      BY <2>2, <2>6 DEF DataOK
    <3>2. DataOK'
      BY <2>4, <2>6, <3>1 DEF DataOK, Go, Steps, shared, chatVars, seen
    <3> QED
      BY <1>0, <2>3, <2>6, <3>2 DEF DataOK, Go, Steps
  <2> QED
    BY <1>2, <2>5, <2>6 DEF Decide
<1>3. CASE Execute(p)
  <2>1. trades' \in Seq(TradeRecord) /\ sincePause' \in Nat /\ worth' = worth /\ peak' = peak
    BY <1>3, HappensType DEF Execute
  <2>2. DataOK'
    BY <1>3, <2>1 DEF Execute, DataOK, Go, Steps, shared, chatVars, tickVars
  <2> QED
    BY <1>3, <2>2 DEF Execute, DataOK, Go, Steps, tickVars
<1>4. CASE Attempt(p)
  <2>1. pair' \in [Procs -> 1 .. NPairs + 1]
    BY <1>0, <1>4 DEF Attempt, NextPair
  <2>2. DataOK'
    BY <1>4, <2>1 DEF Attempt, NextPair, DataOK, Go, Steps, shared, chatVars, seen
  <2> QED
    BY <1>0, <1>4, <2>2 DEF Attempt, NextPair, DataOK, Go, Steps
<1>5. CASE Record(p)
  <2>1. pair' \in [Procs -> 1 .. NPairs + 1]
    BY <1>0, <1>5 DEF Record, NextPair
  <2>2. ledger' \in Seq(Nat)
    BY <1>5 DEF Record, DataOK
  <2>3. DataOK'
    BY <1>5, <2>1, <2>2 DEF Record, NextPair, DataOK, Go, Steps, chatVars, seen
  <2> QED
    BY <1>0, <1>5, <2>3 DEF Record, NextPair, DataOK, Go, Steps
<1>6. CASE TickEnd(p) \/ TickError(p)
  <2>1. Return(p) /\ UNCHANGED <<shared, chatVars, seen>>
    BY <1>6 DEF TickEnd, TickError
  <2>2. /\ pc' \in [Procs -> Steps] /\ pc' = [pc EXCEPT ![p] = "idle"]
        /\ cfg' \in [Procs -> [Fields -> Nat]] /\ pair' \in [Procs -> 1 .. NPairs + 1]
        /\ amount' \in [Procs -> Nat] /\ warned' \in [Procs -> BOOLEAN]
        /\ \A q \in Procs : q # p => pair'[q] = pair[q]
    BY <2>1, ReturnType
  <2>3. pc'["loop"] \notin {"update", "open", "write"}
    BY <2>2 DEF DataOK, Procs
  <2>4. DataOK'
    BY <2>1, <2>2, <2>3 DEF DataOK, shared, chatVars, seen
  <2> QED
    BY <2>2, <2>4 DEF DataOK
<1>7. CASE LostAnswer(p)
  <2>1. Return(p) /\ Happens(p) /\ UNCHANGED <<shared, chatVars>>
    BY <1>7 DEF LostAnswer
  <2>2. /\ pc' \in [Procs -> Steps] /\ pc' = [pc EXCEPT ![p] = "idle"]
        /\ cfg' \in [Procs -> [Fields -> Nat]] /\ pair' \in [Procs -> 1 .. NPairs + 1]
        /\ amount' \in [Procs -> Nat] /\ warned' \in [Procs -> BOOLEAN]
        /\ \A q \in Procs : q # p => pair'[q] = pair[q]
    BY <2>1, ReturnType
  <2>3. pc'["loop"] \notin {"update", "open", "write"}
    BY <2>2 DEF DataOK, Procs
  <2>4. trades' \in Seq(TradeRecord) /\ sincePause' \in Nat /\ worth' = worth /\ peak' = peak
    BY <2>1, HappensType
  <2>5. DataOK'
    BY <2>1, <2>2, <2>3, <2>4 DEF DataOK, shared, chatVars
  <2> QED
    BY <2>2, <2>5 DEF DataOK
<1> QED
  BY <1>1, <1>2, <1>3, <1>4, <1>5, <1>6, <1>7

(* Time passes, the market moves. *)
LEMMA WorldType ==
  TypeOK /\ (Clock \/ \E w \in Worths : Market(w)) => TypeOK'
<1>1. TypeOK /\ Clock => TypeOK'
  BY DEF Clock, TypeOK, DataOK, chatVars, tickVars, seen
<1>2. ASSUME TypeOK, NEW w \in Worths, Market(w) PROVE TypeOK'
  BY <1>2, SupervisedAssumption DEF Market, TypeOK, DataOK, shared, chatVars, tickVars
<1> QED
  BY <1>1, <1>2

LEMMA InitType == Init => TypeOK
<1> SUFFICES ASSUME Init PROVE TypeOK
  OBVIOUS
<1>1. 1 \in 1 .. NPairs + 1 /\ NoEdit \in Edits /\ DEFAULT \in RuntimeState
  BY LoadFacts, SupervisedAssumption DEF NoEdit, Edits
<1>2. <<>> \in Seq(Nat) /\ <<>> \in Seq(TradeRecord)
  OBVIOUS
<1>3. /\ edit \in [Chats -> Edits] /\ draft \in [Chats -> RuntimeState]
      /\ told \in [Chats -> RuntimeState] /\ promised \in RuntimeState
      /\ file \in RuntimeState \cup {BAD}
  BY <1>1 DEF Init
<1>4. pc \in [Procs -> Steps] /\ \A p \in Procs : pc[p] = "idle"
  BY DEF Init, Steps
<1>5. /\ cfg \in [Procs -> [Fields -> Nat]] /\ pair \in [Procs -> 1 .. NPairs + 1]
      /\ amount \in [Procs -> Nat] /\ warned \in [Procs -> BOOLEAN]
  BY <1>1, SupervisedAssumption DEF Init
<1>6. DataOK
  BY <1>2, <1>3, <1>4, <1>5, SupervisedAssumption DEF Init, DataOK, Procs
<1> QED
  BY <1>4, <1>6 DEF TypeOK

LEMMA StepType == TypeOK /\ [Next]_vars => TypeOK'
<1> SUFFICES ASSUME TypeOK, [Next]_vars PROVE TypeOK'
  OBVIOUS
<1>1. CASE UNCHANGED vars
  BY <1>1 DEF vars, shared, chatVars, tickVars, seen, TypeOK, DataOK
<1>2. CASE Chat
  BY <1>2, ChatType DEF Chat
<1> QED
  BY <1>1, <1>2, LoopTopType, TickType, WorldType DEF Next

(* The state keeps its shape: the loop never writes the runtime state, the *)
(* file holds a whole state or nothing readable, and no tick trades past   *)
(* its last pair.                                                          *)
THEOREM SupervisedTypeCorrect == Spec => []TypeOK
BY InitType, StepType, PTL DEF Spec

-----------------------------------------------------------------------------
(* The pause *)

(* The loop has between nought and NPairs trades left. *)
LEMMA LeftFacts ==
  ASSUME TypeOK
  PROVE  /\ Left \in 0 .. NPairs /\ NPairs \in Nat /\ sincePause \in Nat
         /\ pc["loop"] = "trade" => Left = NPairs - pair["loop"] + 1 /\ Left >= 1
<1>1. "loop" \in Procs /\ NPairs \in Nat
  BY SupervisedAssumption DEF Procs
<1>2. pair["loop"] \in 1 .. NPairs + 1 /\ sincePause \in Nat
  BY <1>1 DEF TypeOK, DataOK
<1>3. pc["loop"] \in {"trade", "record"} => pair["loop"] <= NPairs
  BY <1>1 DEF TypeOK
<1> QED
  BY <1>1, <1>2, <1>3 DEF Left

(* A step that leaves the file alone, and makes no trade that it does not  *)
(* take off what is left, keeps the bound.                                 *)
LEMMA PausePaid ==
  ASSUME TypeOK, TypeOK', PauseInv, file' = file,
         sincePause' + Left' <= sincePause + Left,
         ~Load.paused => sincePause' = sincePause
  PROVE  PauseInv'
<1>1. Left \in Int /\ Left' \in Int /\ NPairs \in Int /\ sincePause \in Int /\ sincePause' \in Int
  <2>1. Left \in 0 .. NPairs /\ NPairs \in Nat /\ sincePause \in Nat
    BY LeftFacts
  <2>2. Left' \in 0 .. NPairs
    <3>1. "loop" \in Procs /\ NPairs \in Nat
      BY SupervisedAssumption DEF Procs
    <3>2. pair'["loop"] \in 1 .. NPairs + 1
      BY <3>1 DEF TypeOK, DataOK
    <3>3. pc'["loop"] \in {"trade", "record"} => pair'["loop"] <= NPairs
      BY <3>1 DEF TypeOK
    <3> QED
      BY <3>1, <3>2, <3>3 DEF Left
  <2>3. sincePause' \in Nat
    BY DEF TypeOK, DataOK
  <2> QED
    BY <2>1, <2>2, <2>3
<1>2. Load' = Load
  BY DEF Load
<1>3. ~Load'.paused => sincePause' = 0
  BY <1>2 DEF PauseInv
<1>4. file' # BAD /\ file'.paused => sincePause' + Left' <= NPairs
  <2> SUFFICES ASSUME file # BAD, file.paused PROVE sincePause' + Left' <= NPairs
    OBVIOUS
  <2>1. sincePause + Left <= NPairs
    BY DEF PauseInv
  <2>2. \A x, y, n \in Int : x <= y /\ y <= n => x <= n
    OBVIOUS
  <2>3. sincePause + Left \in Int /\ sincePause' + Left' \in Int
    BY <1>1
  <2> QED
    BY <1>1, <2>1, <2>2, <2>3, Zenon
<1> QED
  BY <1>3, <1>4 DEF PauseInv

(* What a step of another process leaves alone. *)
LEMMA PauseFrame ==
  ASSUME TypeOK, TypeOK', PauseInv, file' = file, sincePause' = sincePause,
         pc'["loop"] = pc["loop"], pair'["loop"] = pair["loop"]
  PROVE  PauseInv'
<1>1. Left' = Left
  BY DEF Left
<1>2. Left \in Int /\ sincePause \in Int
  BY LeftFacts
<1> QED
  BY <1>1, <1>2, PausePaid

(* Every step of the system keeps the bound. *)
LEMMA PauseStep == TypeOK /\ TypeOK' /\ PauseInv /\ [Next]_vars => PauseInv'
<1> SUFFICES ASSUME TypeOK, TypeOK', PauseInv, [Next]_vars PROVE PauseInv'
  OBVIOUS
<1>0. /\ "loop" \in Procs /\ NPairs \in Nat /\ pc \in [Procs -> Steps]
      /\ pair \in [Procs -> 1 .. NPairs + 1] /\ sincePause \in Nat
  BY SupervisedAssumption DEF TypeOK, DataOK, Procs
<1>1. CASE UNCHANGED vars
  BY <1>1, PauseFrame DEF vars, shared, tickVars, seen
<1>2. CASE LoopTop
  <2>1. ~Load.paused /\ file' = file /\ sincePause' = sincePause
    BY <1>2 DEF LoopTop, shared, seen
  <2>2. Load' = Load /\ sincePause' = 0
    BY <2>1 DEF Load, PauseInv
  <2>3. ~(file # BAD /\ file.paused)
    BY <2>1 DEF Load
  <2> QED
    BY <2>1, <2>2, <2>3 DEF PauseInv
<1>3. ASSUME NEW p \in Procs,
             \/ Begin(p)
             \/ (\E a \in Amounts, listed \in BOOLEAN : Decide(p, a, listed))
             \/ Execute(p) \/ Attempt(p) \/ Record(p) \/ TickEnd(p)
             \/ TickError(p) \/ LostAnswer(p)
      PROVE  PauseInv'
  <2>1. file' = file
    BY <1>3 DEF Begin, Decide, Execute, Attempt, Record, TickEnd, TickError, LostAnswer,
                shared
  <2>2. CASE p # "loop"
    <3>1. pc'["loop"] = pc["loop"] /\ pair'["loop"] = pair["loop"]
      BY <1>0, <1>3, <2>2 DEF Begin, Decide, Execute, Attempt, Record, TickEnd, TickError,
              LostAnswer, Return, NextPair, Go, tickVars
    <3>2. sincePause' = sincePause
      BY <1>3, <2>2 DEF Begin, Decide, Execute, Attempt, Record, TickEnd, TickError,
              LostAnswer, Happens, seen
    <3> QED
      BY <2>1, <3>1, <3>2, PauseFrame
  <2>3. CASE p = "loop"
    <3>0. Left \in 0 .. NPairs /\ (pc[p] = "trade" => Left = NPairs - pair[p] + 1 /\ Left >= 1)
      BY <2>3, LeftFacts
    <3>1. CASE Begin(p)
      <4>1. Left = NPairs
        BY <2>3, <3>1 DEF Begin, Left
      <4>2. pc'["loop"] = "pair" /\ pair'["loop"] = 1 /\ sincePause' = sincePause
        BY <1>0, <2>3, <3>1 DEF Begin, Go, seen
      <4>3. Left' = NPairs
        BY <1>0, <4>2 DEF Left
      <4> QED
        BY <1>0, <2>1, <4>1, <4>2, <4>3, PausePaid
    <3>2. ASSUME NEW a \in Amounts, NEW listed \in BOOLEAN, Decide(p, a, listed)
          PROVE  PauseInv'
      <4>1. Left = NPairs - pair["loop"] + 1 /\ sincePause' = sincePause
        BY <2>3, <3>2 DEF Decide, Left, seen
      <4>2. \/ pc'["loop"] = "pair" /\ pair'["loop"] = pair["loop"] + 1
            \/ pc'["loop"] = "trade" /\ pair'["loop"] = pair["loop"]
        BY <1>0, <2>3, <3>2 DEF Decide, NextPair, Go
      <4>3. Left' = NPairs - pair'["loop"] + 1
        BY <4>2 DEF Left
      <4> QED
        BY <1>0, <2>1, <4>1, <4>2, <4>3, PausePaid
    <3>3. CASE Execute(p)
      <4>1. pc'["loop"] = "record" /\ pair'["loop"] = pair["loop"]
        BY <1>0, <2>3, <3>3 DEF Execute, Go, tickVars
      <4>2. Left' = NPairs - pair["loop"]
        BY <4>1 DEF Left
      <4>3. Left = NPairs - pair["loop"] + 1
        BY <2>3, <3>0, <3>3 DEF Execute
      <4>4. sincePause' = IF Load.paused THEN sincePause + 1 ELSE sincePause
        BY <2>3, <3>3 DEF Execute, Happens
      <4> QED
        BY <1>0, <2>1, <4>2, <4>3, <4>4, PausePaid
    <3>4. CASE Attempt(p) \/ Record(p)
      <4>1. pc'["loop"] = "pair" /\ pair'["loop"] = pair["loop"] + 1 /\ sincePause' = sincePause
        BY <1>0, <2>3, <3>4 DEF Attempt, Record, NextPair, Go, seen
      <4>2. Left' = NPairs - pair["loop"]
        BY <1>0, <4>1 DEF Left
      <4>3. Left \in {NPairs - pair["loop"], NPairs - pair["loop"] + 1}
        BY <2>3, <3>4 DEF Attempt, Record, Left
      <4> QED
        BY <1>0, <2>1, <4>1, <4>2, <4>3, PausePaid
    <3>5. CASE TickEnd(p) \/ TickError(p)
      <4>1. pc'["loop"] = "idle" /\ sincePause' = sincePause
        BY <1>0, <2>3, <3>5 DEF TickEnd, TickError, Return, Go, seen
      <4>2. Left' = 0
        BY <4>1 DEF Left
      <4> QED
        BY <1>0, <2>1, <3>0, <4>1, <4>2, PausePaid
    <3>6. CASE LostAnswer(p)
      <4>1. pc'["loop"] = "idle"
        BY <1>0, <2>3, <3>6 DEF LostAnswer, Return, Go
      <4>2. Left' = 0 /\ Left >= 1
        BY <3>0, <3>6, <4>1 DEF Left, LostAnswer
      <4>3. sincePause' = IF Load.paused THEN sincePause + 1 ELSE sincePause
        BY <2>3, <3>6 DEF LostAnswer, Happens
      <4> QED
        BY <1>0, <2>1, <3>0, <4>2, <4>3, PausePaid
    <3> QED
      BY <1>3, <3>1, <3>2, <3>3, <3>4, <3>5, <3>6
  <2> QED
    BY <2>2, <2>3
<1>4. ASSUME NEW c \in Chats,
             \/ Pause(c) \/ Resume(c) \/ (\E s \in Settings : SetCap(c, s[1], s[2]))
             \/ Update(c) \/ Open(c) \/ Write(c) \/ Status(c) \/ ChatTick(c)
      PROVE  PauseInv'
  <2>0. c # "loop"
    BY SupervisedAssumption
  <2>1. pc'["loop"] = pc["loop"] /\ pair'["loop"] = pair["loop"]
    BY <1>0, <1>4, <2>0 DEF Pause, Resume, SetCap, Command, Update, Open, Write, Status,
            ChatTick, Go, tickVars
  <2>2. CASE Open(c)
    <3>1. file' = BAD /\ sincePause' = 0
      BY <2>2 DEF Open
    <3> QED
      BY <3>1 DEF PauseInv
  <2>3. CASE Write(c)
    <3>1. sincePause' = 0 /\ Left' = Left
      BY <2>1, <2>3 DEF Write, Left
    <3>2. Left <= NPairs /\ Left \in Int
      BY LeftFacts
    <3> QED
      BY <3>1, <3>2 DEF PauseInv
  <2>4. CASE ~Open(c) /\ ~Write(c)
    <3>1. file' = file /\ sincePause' = sincePause
      BY <1>4, <2>4 DEF Pause, Resume, SetCap, Command, Update, Status, ChatTick, shared, seen
    <3> QED
      BY <2>1, <3>1, PauseFrame
  <2> QED
    BY <2>2, <2>3, <2>4
<1>5. CASE Clock \/ \E w \in Worths : Market(w)
  BY <1>5, PauseFrame DEF Clock, Market, shared, tickVars, seen
<1> QED
  BY <1>1, <1>2, <1>3, <1>4, <1>5 DEF Next, Tick, Chat

LEMMA PauseInvBound == TypeOK /\ PauseInv => PauseBound
<1> SUFFICES ASSUME TypeOK, PauseInv PROVE sincePause <= NPairs
  BY DEF PauseBound
<1>1. Left \in 0 .. NPairs /\ NPairs \in Nat /\ sincePause \in Nat
  BY LeftFacts
<1>2. CASE Load.paused
  <2>1. file # BAD /\ file.paused
    BY <1>2 DEF Load, DEFAULT
  <2> QED
    BY <1>1, <2>1 DEF PauseInv
<1>3. CASE ~Load.paused
  BY <1>1, <1>3 DEF PauseInv
<1> QED
  BY <1>2, <1>3

(* However many chats and pairs there are and however their steps          *)
(* interleave, once the file says paused the loop makes at most one more   *)
(* trade per pair: those of the tick it was in (loop.py asks at the top of *)
(* run_forever only).                                                      *)
THEOREM PauseTheorem == Spec => []PauseBound
<1>1. Init => PauseInv
  BY SupervisedAssumption DEF Init, PauseInv, Load, DEFAULT
<1>2. TypeOK /\ PauseInv => PauseBound
  BY PauseInvBound
<1>3. TypeOK /\ TypeOK' /\ PauseInv /\ [Next]_vars => PauseInv'
  BY PauseStep
<1>4. Spec => []TypeOK
  BY SupervisedTypeCorrect
<1> QED
  BY <1>1, <1>2, <1>3, <1>4, PTL DEF Spec

-----------------------------------------------------------------------------
(* The settings *)

Updating == {"update", "open", "write"}

(* What a step that is no part of an update leaves alone. *)
LEMMA SettingsFrame ==
  ASSUME SettingsInv, file' = file, UNCHANGED chatVars,
         \A c \in Chats : \/ pc'[c] = pc[c]
                          \/ pc[c] \notin Updating /\ pc'[c] \notin Updating
  PROVE  SettingsInv'
BY DEF SettingsInv, chatVars, Updating

(* A command announces the state it is going to write. *)
LEMMA CommandSettings ==
  ASSUME TypeOK, SettingsInv, NEW c \in Chats, \A d, e \in Chats : d = e,
         NEW field, NEW value, NEW reply, Command(c, field, value, reply),
         file = promised => reply = [promised EXCEPT ![field] = value]
  PROVE  SettingsInv'
<1>1. \A d \in Chats : d = c
  OBVIOUS
<1>2. pc[c] = "idle" /\ pc'[c] = "update" /\ file' = file /\ promised' = promised
  BY DEF Command, Go, shared, TypeOK, DataOK, Procs
<1>3. file = promised
  BY <1>1, <1>2 DEF SettingsInv
<1>4. told'[c] = reply /\ edit'[c] = [field |-> field, value |-> value]
  BY DEF Command, TypeOK, DataOK
<1>5. told'[c] = [promised' EXCEPT ![edit'[c].field] = edit'[c].value]
  BY <1>2, <1>3, <1>4
<1> QED
  BY <1>1, <1>2, <1>3, <1>5 DEF SettingsInv

(* Every step of a system with one chat keeps its replies true. *)
LEMMA SettingsStep == TypeOK /\ SettingsInv /\ [Next]_vars => SettingsInv'
<1> SUFFICES ASSUME TypeOK, SettingsInv, [Next]_vars, \A c, d \in Chats : c = d
             PROVE  SettingsInv'
  BY DEF SettingsInv
<1>0. pc \in [Procs -> Steps] /\ Chats \subseteq Procs /\ "loop" \notin Chats
  BY SupervisedAssumption DEF TypeOK, DataOK, Procs
<1>1. CASE UNCHANGED vars
  BY <1>1, SettingsFrame DEF vars, shared, chatVars
<1>2. CASE LoopTop
  <2>1. \A c \in Chats : pc'[c] = pc[c]
    BY <1>0, <1>2 DEF LoopTop, Go
  <2> QED
    BY <1>2, <2>1, SettingsFrame DEF LoopTop, shared
<1>3. ASSUME NEW p \in Procs,
             \/ Begin(p)
             \/ (\E a \in Amounts, listed \in BOOLEAN : Decide(p, a, listed))
             \/ Execute(p) \/ Attempt(p) \/ Record(p) \/ TickEnd(p)
             \/ TickError(p) \/ LostAnswer(p)
      PROVE  SettingsInv'
  <2>1. file' = file /\ UNCHANGED chatVars
    BY <1>3 DEF Begin, Decide, Execute, Attempt, Record, TickEnd, TickError, LostAnswer,
                shared
  <2>2. pc[p] \notin Updating
    BY <1>3 DEF Begin, Decide, Execute, Attempt, Record, TickEnd, TickError, LostAnswer,
                Updating
  <2>3. \E step \in Steps \ Updating : pc' = [pc EXCEPT ![p] = step]
    BY <1>3 DEF Begin, Decide, Execute, Attempt, Record, TickEnd, TickError, LostAnswer,
                Return, NextPair, Go, Updating, Steps
  <2>4. \A c \in Chats : \/ pc'[c] = pc[c]
                         \/ pc[c] \notin Updating /\ pc'[c] \notin Updating
    BY <1>0, <2>2, <2>3
  <2> QED
    BY <2>1, <2>4, SettingsFrame
<1>4. ASSUME NEW c \in Chats,
             \/ Pause(c) \/ Resume(c) \/ (\E s \in Settings : SetCap(c, s[1], s[2]))
             \/ Update(c) \/ Open(c) \/ Write(c) \/ Status(c) \/ ChatTick(c)
      PROVE  SettingsInv'
  <2>0. c \in Procs /\ (\A d \in Chats : d = c) /\ promised \in RuntimeState
    BY <1>0 DEF TypeOK, DataOK
  <2>1. CASE Pause(c) \/ Resume(c)
    BY <2>1, CommandSettings DEF Pause, Resume
  <2>2. ASSUME NEW s \in Settings, SetCap(c, s[1], s[2]) PROVE SettingsInv'
    <3> DEFINE v == [Load.overrides EXCEPT ![s[1]] = s[2]]
               r == [promised EXCEPT !.overrides[s[1]] = s[2]]
    <3>1. ASSUME file = promised PROVE r = [promised EXCEPT !["overrides"] = v]
      <4>1. Load = promised
        BY <3>1, <2>0, BadIsNoState DEF Load
      <4> QED
        BY <4>1, <2>0 DEF RuntimeState
    <3>2. Command(c, "overrides", v, r)
      BY <2>2 DEF SetCap
    <3> HIDE DEF v, r
    <3> QED
      BY <3>1, <3>2, CommandSettings
  <2>3. CASE Update(c)
    <3>1. pc[c] = "update" /\ pc'[c] = "open" /\ file' = file
          /\ UNCHANGED <<edit, told, promised>>
      BY <1>0, <2>0, <2>3 DEF Update, Go, shared
    <3>2. file = promised /\ told[c] = [promised EXCEPT ![edit[c].field] = edit[c].value]
      BY <2>0, <3>1 DEF SettingsInv
    <3>3. Load = promised
      BY <2>0, <3>2, BadIsNoState DEF Load
    <3>4. draft'[c] = [Load EXCEPT ![edit[c].field] = edit[c].value]
      BY <2>3 DEF Update, TypeOK, DataOK
    <3>5. draft'[c] = told'[c]
      BY <3>1, <3>2, <3>3, <3>4
    <3> QED
      BY <2>0, <3>1, <3>2, <3>5 DEF SettingsInv
  <2>4. CASE Open(c)
    <3>1. /\ pc[c] = "open" /\ pc'[c] = "write" /\ file' = BAD
          /\ UNCHANGED <<edit, draft, told, promised>>
      BY <1>0, <2>0, <2>4 DEF Open, Go, chatVars
    <3>2. draft[c] = told[c]
      BY <3>1 DEF SettingsInv
    <3> QED
      BY <2>0, <3>1, <3>2 DEF SettingsInv
  <2>5. CASE Write(c)
    <3>1. pc[c] = "write" /\ pc'[c] = "idle"
      BY <1>0, <2>0, <2>5 DEF Write, Go
    <3>2. file = BAD /\ draft[c] = told[c]
      BY <3>1 DEF SettingsInv
    <3>3. file' = told[c] /\ promised' = told[c]
      BY <2>5, <3>2 DEF Write
    <3> QED
      BY <2>0, <3>1, <3>3 DEF SettingsInv
  <2>6. CASE Status(c)
    BY <2>6, SettingsFrame DEF Status
  <2>7. CASE ChatTick(c)
    <3>1. pc[c] \notin Updating /\ pc'[c] \notin Updating
      BY <1>0, <2>0, <2>7 DEF ChatTick, Go, Updating
    <3> QED
      BY <2>0, <2>7, <3>1, SettingsFrame DEF ChatTick, shared
  <2> QED
    BY <1>4, <2>1, <2>2, <2>3, <2>4, <2>5, <2>6, <2>7
<1>5. CASE Clock \/ \E w \in Worths : Market(w)
  BY <1>5, SettingsFrame DEF Clock, Market, shared
<1> QED
  BY <1>1, <1>2, <1>3, <1>4, <1>5 DEF Next, Tick, Chat

(* With one chat, whatever the loop does meanwhile, the runtime state is   *)
(* the one the chat's replies add up to: a command is never computed from  *)
(* the defaults that a reader of a half-written file gets.                 *)
THEOREM SettingsTheorem == Spec => []SettingsKept
<1>1. Init => SettingsInv
  BY DEF Init, SettingsInv, Procs
<1>2. SettingsInv => SettingsKept
  BY DEF SettingsInv, SettingsKept
<1>3. TypeOK /\ SettingsInv /\ [Next]_vars => SettingsInv'
  BY SettingsStep
<1>4. Spec => []TypeOK
  BY SupervisedTypeCorrect
<1> QED
  BY <1>1, <1>2, <1>3, <1>4, PTL DEF Spec

-----------------------------------------------------------------------------
(* The live-trail script beside the loop *)

(* A step of the whole is a step of the loop, the chats or the world, or a *)
(* step of the script, which leaves all of theirs alone but the ledger and *)
(* the trades.                                                             *)
LEMMA TrailCases ==
  ASSUME [TrailNext]_trailVars
  PROVE  \/ [Next]_vars /\ UNCHANGED <<scene, script>>
         \/ Script
BY DEF TrailNext, trailVars, Heard, Next, Tick, Chat

LEMMA ScriptFrame ==
  ASSUME Script
  PROVE  /\ UNCHANGED <<now, file, hwm, pc, scene, sincePause, worth, peak>>
         /\ UNCHANGED <<edit, draft, told, promised, cfg, pair, amount, warned>>
BY DEF Script, ScriptStart, BrainDown, ScriptDecide, ScriptExecute, ScriptAttempt,
       ScriptRecord, Untouched, chatVars, tickVars, seen

ScriptStates ==
    [at : {"off", "brain", "trade", "record"}, left : 0 .. ScriptTicks,
     caps : [Fields -> Nat], amount : Nat, tries : 0 .. 2]

LEMMA ScriptCapFacts ==
  ASSUME script \in ScriptStates PROVE ScriptCap \in Nat
<1>1. script.caps.max_single_trade_usd \in Nat
  BY DEF ScriptStates, Fields
<1> QED
  BY <1>1, SupervisedAssumption DEF ScriptCap

LEMMA OffFacts == Off \in ScriptStates /\ [Off EXCEPT !.left = 0] \in ScriptStates
<1>1. /\ ScriptTicks \in 0 .. ScriptTicks /\ 0 \in 0 .. ScriptTicks /\ 0 \in 0 .. 2
      /\ Risk \in [Fields -> Nat]
  BY ScriptAssumption, SupervisedAssumption
<1> QED
  BY <1>1 DEF Off, ScriptStates

(* The next tick of the script: the caps stay. *)
LEMMA NextTickFacts ==
  ASSUME NEW s \in ScriptStates, s.left > 0
  PROVE  /\ NextTick(s) \in ScriptStates /\ NextTick(s).caps = s.caps
         /\ NextTick(s).at \in {"off", "brain"}
         /\ NextTick(s).at # "off" => NextTick(s).left > 0
<1>1. s.left \in 0 .. ScriptTicks /\ s.left - 1 \in 0 .. ScriptTicks /\ 0 \in 0 .. 2
      /\ (s.left # 1 => s.left - 1 > 0)
  BY ScriptAssumption DEF ScriptStates
<1> DEFINE l == s.left - 1
           at == IF s.left = 1 THEN "off" ELSE "brain"
<1>2. NextTick(s) = [s EXCEPT !.left = l, !.tries = 0, !.amount = 0, !.at = at]
  BY DEF NextTick
<1>3. at \in {"off", "brain"} /\ (at # "off" => l > 0) /\ l \in 0 .. ScriptTicks
  BY <1>1
<1> HIDE DEF l, at
<1>4. NextTick(s) = [at |-> at, left |-> l, caps |-> s.caps, amount |-> 0, tries |-> 0]
  <2>1. s = [at |-> s.at, left |-> s.left, caps |-> s.caps, amount |-> s.amount,
             tries |-> s.tries]
    BY DEF ScriptStates
  <2> QED
    BY <1>2, <2>1
<1>5. s.caps \in [Fields -> Nat]
  BY DEF ScriptStates
<1>6. NextTick(s) \in ScriptStates
  BY <1>1, <1>3, <1>4, <1>5 DEF ScriptStates
<1> QED
  BY <1>3, <1>4, <1>6

(* A step of the script that neither trades nor logs. *)
ScriptIdle ==
    ScriptStart \/ BrainDown \/ ScriptAttempt
    \/ \E a \in Amounts, listed \in BOOLEAN : ScriptDecide(a, listed)

(* The caps the script starts with. *)
LEMMA StartCaps ==
  ASSUME DataOK
  PROVE  [f \in Fields |-> IF Load.overrides[f] = Unset THEN Risk[f]
                           ELSE Load.overrides[f]] \in [Fields -> Nat]
BY LoadFacts, SupervisedAssumption DEF RuntimeState, Overrides

(* What the script's state becomes. *)
LEMMA ScriptStep ==
  ASSUME TrailTypeOK, Script
  PROVE  /\ script' \in ScriptStates
         /\ script'.at # "off" => script'.left > 0
         /\ ScriptIdle => UNCHANGED <<ledger, trades>>
<1>0. /\ script \in ScriptStates /\ DataOK /\ (script.at # "off" => script.left > 0)
      /\ script.left \in Nat
  BY DEF TrailTypeOK, TypeOK, ScriptStates
<1>1. /\ script.left > 0 => NextTick(script) \in ScriptStates
      /\ script.left > 0 => (NextTick(script).at # "off" => NextTick(script).left > 0)
  BY <1>0, NextTickFacts
<1>2. ScriptIdle => UNCHANGED <<ledger, trades>>
  BY DEF ScriptIdle, ScriptStart, BrainDown, ScriptAttempt, ScriptDecide, seen
<1>3. CASE ScriptStart
  <2> DEFINE caps == [f \in Fields |-> IF Load.overrides[f] = Unset THEN Risk[f]
                                       ELSE Load.overrides[f]]
  <2>1. script' = [script EXCEPT !.at = "brain", !.caps = caps] /\ script.left > 0
    BY <1>3 DEF ScriptStart
  <2>2. caps \in [Fields -> Nat]
    BY <1>0, StartCaps
  <2> HIDE DEF caps
  <2> QED
    BY <1>0, <1>2, <2>1, <2>2 DEF ScriptStates
<1>4. CASE BrainDown
  <2>1. script.at = "brain"
    BY <1>4 DEF BrainDown
  <2>2. CASE script.tries < 2
    <3>1. script' = [script EXCEPT !.tries = script.tries + 1]
      BY <1>4, <2>2 DEF BrainDown
    <3>2. script.tries + 1 \in 0 .. 2
      BY <1>0, <2>2 DEF ScriptStates
    <3> QED
      BY <1>0, <1>2, <2>1, <3>1, <3>2 DEF ScriptStates
  <2>3. CASE ~(script.tries < 2)
    BY <1>0, <1>1, <1>2, <1>4, <2>1, <2>3 DEF BrainDown
  <2> QED
    BY <2>2, <2>3
<1>5. ASSUME NEW a \in Amounts, NEW listed \in BOOLEAN, ScriptDecide(a, listed)
      PROVE  script' \in ScriptStates /\ (script'.at # "off" => script'.left > 0)
  <2> DEFINE amt == IF a > ScriptCap /\ ScriptCap # 0 THEN ScriptCap ELSE a
  <2>1. amt \in Nat
    BY <1>0, ScriptCapFacts, SupervisedAssumption
  <2>2. /\ script.at = "brain"
        /\ \/ script' = NextTick(script)
           \/ script' = [script EXCEPT !.at = "trade", !.amount = amt]
    BY <1>5 DEF ScriptDecide
  <2> HIDE DEF amt
  <2>3. CASE script' = [script EXCEPT !.at = "trade", !.amount = amt]
    BY <1>0, <2>1, <2>2, <2>3 DEF ScriptStates
  <2> QED
    BY <1>0, <1>1, <2>2, <2>3
<1>6. CASE ScriptExecute
  <2>1. script.at = "trade" /\ script' = [script EXCEPT !.at = "record"]
    BY <1>6 DEF ScriptExecute
  <2> QED
    BY <1>0, <1>2, <2>1 DEF ScriptStates
<1>7. CASE ScriptAttempt \/ ScriptRecord
  <2>1. /\ script.at \in {"trade", "record"}
        /\ script' = NextTick(script) \/ script' = [Off EXCEPT !.left = 0]
    BY <1>7 DEF ScriptAttempt, ScriptRecord
  <2>2. [Off EXCEPT !.left = 0] \in ScriptStates /\ [Off EXCEPT !.left = 0].at = "off"
    BY OffFacts DEF Off
  <2> QED
    BY <1>0, <1>1, <1>2, <2>1, <2>2
<1> QED
  BY <1>2, <1>3, <1>4, <1>5, <1>6, <1>7 DEF Script

(* The script's own trade. *)
LEMMA ScriptTrade ==
  ASSUME TrailTypeOK, ScriptExecute
  PROVE  \E r \in TradeRecord : /\ trades' = Append(trades, r) /\ r.at = now
                                /\ r.amount = script.amount /\ r.cap = ScriptCap
<1>1. script \in ScriptStates /\ now \in Nat
  BY DEF TrailTypeOK, TypeOK, DataOK, ScriptStates
<1>2. ScriptCap \in Nat /\ script.amount \in Nat
  BY <1>1, ScriptCapFacts DEF ScriptStates
<1> DEFINE r == [at |-> now, amount |-> script.amount, cap |-> ScriptCap,
                 disobeys |-> FALSE,
                 down |-> (peak - worth) * 100 >= MaxDrawdown * peak]
<1>3. r \in TradeRecord
  BY <1>1, <1>2 DEF TradeRecord
<1>4. trades' = Append(trades, r)
  BY DEF ScriptExecute
<1>5. r.at = now /\ r.amount = script.amount /\ r.cap = ScriptCap
  OBVIOUS
<1> HIDE DEF r
<1> QED
  BY <1>3, <1>4, <1>5

LEMMA TrailTypeStep == TrailTypeOK /\ [TrailNext]_trailVars => TrailTypeOK'
<1> SUFFICES ASSUME TrailTypeOK, [TrailNext]_trailVars PROVE TrailTypeOK'
  OBVIOUS
<1>1. CASE [Next]_vars /\ UNCHANGED <<scene, script>>
  <2>1. TypeOK'
    BY <1>1, StepType DEF TrailTypeOK
  <2> QED
    BY <1>1, <2>1 DEF TrailTypeOK
<1>2. CASE Script
  <2>1. script' \in ScriptStates /\ (script'.at # "off" => script'.left > 0)
    BY <1>2, ScriptStep
  <2>2. ledger' \in Seq(Nat) /\ trades' \in Seq(TradeRecord)
    <3>1. ledger \in Seq(Nat) /\ trades \in Seq(TradeRecord) /\ now \in Nat
      BY DEF TrailTypeOK, TypeOK, DataOK
    <3>2. CASE ScriptIdle
      BY <1>2, <3>1, <3>2, ScriptStep
    <3>3. CASE ScriptExecute
      <4>1. ledger' = ledger
        BY <3>3 DEF ScriptExecute
      <4> QED
        BY <3>1, <3>3, <4>1, ScriptTrade
    <3>4. CASE ScriptRecord
      <4>1. ledger' = Append(ledger, now) /\ trades' = trades
        BY <3>4 DEF ScriptRecord, seen
      <4> QED
        BY <3>1, <4>1
    <3> QED
      BY <1>2, <3>2, <3>3, <3>4 DEF Script, ScriptIdle
  <2>3. TypeOK' /\ scene' \in Scenes
    BY <1>2, <2>2, ScriptFrame DEF TrailTypeOK, TypeOK, DataOK
  <2> QED
    BY <2>1, <2>3 DEF TrailTypeOK, ScriptStates
<1> QED
  BY <1>1, <1>2, TrailCases

LEMMA TrailInitType == TrailInit => TrailTypeOK
<1> SUFFICES ASSUME TrailInit PROVE TrailTypeOK
  OBVIOUS
<1>1. TypeOK
  BY InitType DEF TrailInit
<1>2. script \in ScriptStates /\ script.at = "off"
  BY OffFacts DEF TrailInit, Off
<1> QED
  BY <1>1, <1>2 DEF TrailInit, TrailTypeOK, ScriptStates

(* The state of all three processes keeps its shape. *)
THEOREM TrailTypeCorrect == TrailSpec => []TrailTypeOK
BY TrailInitType, TrailTypeStep, PTL DEF TrailSpec

(* The script asks nobody and tells nobody: what holds of a pause and of   *)
(* the settings holds beside it.                                           *)
LEMMA TrailPauseStep ==
  TrailTypeOK /\ TrailTypeOK' /\ PauseInv /\ SettingsInv /\ [TrailNext]_trailVars
    => PauseInv' /\ SettingsInv'
<1> SUFFICES ASSUME TrailTypeOK, TrailTypeOK', PauseInv, SettingsInv,
                    [TrailNext]_trailVars
             PROVE  PauseInv' /\ SettingsInv'
  OBVIOUS
<1>1. CASE [Next]_vars
  BY <1>1, PauseStep, SettingsStep DEF TrailTypeOK
<1>2. CASE Script
  <2>1. PauseInv'
    BY <1>2, ScriptFrame, PauseFrame DEF TrailTypeOK
  <2>2. SettingsInv'
    BY <1>2, ScriptFrame, SettingsFrame DEF chatVars
  <2> QED
    BY <2>1, <2>2
<1> QED
  BY <1>1, <1>2, TrailCases

(* Beside the script too, a pause in the file stops the loop within its    *)
(* tick ...                                                                *)
THEOREM TrailPause == TrailSpec => []PauseBound
<1>1. TrailInit => PauseInv /\ SettingsInv
  BY SupervisedAssumption DEF TrailInit, Init, PauseInv, SettingsInv, Load, DEFAULT, Procs
<1>2. TypeOK /\ PauseInv => PauseBound
  BY PauseInvBound
<1>3. TrailTypeOK => TypeOK
  BY DEF TrailTypeOK
<1> QED
  BY <1>1, <1>2, <1>3, TrailPauseStep, TrailTypeCorrect, PTL DEF TrailSpec

(* ... and a single chat loses no setting. *)
THEOREM TrailSettings == TrailSpec => []SettingsKept
<1>1. TrailInit => PauseInv /\ SettingsInv
  BY SupervisedAssumption DEF TrailInit, Init, PauseInv, SettingsInv, Load, DEFAULT, Procs
<1>2. SettingsInv => SettingsKept
  BY DEF SettingsInv, SettingsKept
<1> QED
  BY <1>1, <1>2, TrailPauseStep, TrailTypeCorrect, PTL DEF TrailSpec

-----------------------------------------------------------------------------
(* The cap of a trade *)

(* What the guardrail lets out is within the cap, unless the cap is 0. *)
LEMMA ApprovedFacts ==
  ASSUME DataOK, NEW p \in Procs, NEW a \in Nat, Cap(p) # 0
  PROVE  Approved(p, a) <= Cap(p)
BY AmountFacts DEF Approved

(* The trades so far, and one more within its cap. *)
LEMMA CapGrows ==
  ASSUME CapBinds, trades \in Seq(TradeRecord), NEW r \in TradeRecord,
         trades' = Append(trades, r), r.cap # 0 => r.amount <= r.cap
  PROVE  CapBinds'
<1> SUFFICES ASSUME NEW i \in DOMAIN trades', trades'[i].cap # 0
             PROVE  trades'[i].amount <= trades'[i].cap
  BY DEF CapBinds
<1>1. \/ i \in DOMAIN trades /\ trades'[i] = trades[i]
      \/ trades'[i] = r
  OBVIOUS
<1> QED
  BY <1>1 DEF CapBinds

(* What a process's trade says. *)
LEMMA HappensFacts ==
  ASSUME DataOK, NEW p \in Procs, Happens(p)
  PROVE  \E r \in TradeRecord : /\ trades' = Append(trades, r) /\ r.at = now
                                /\ r.amount = amount[p] /\ r.cap = Cap(p)
<1>1. Cap(p) \in Nat
  BY AmountFacts, 0 \in Nat
<1>2. warned[p] \in BOOLEAN /\ amount[p] \in Nat /\ now \in Nat
  BY DEF DataOK
<1> DEFINE r == [at |-> now, amount |-> amount[p], cap |-> Cap(p),
                 disobeys |-> p = "loop" /\ warned[p],
                 down |-> (peak - worth) * 100 >= MaxDrawdown * peak]
<1>3. r \in TradeRecord
  BY <1>1, <1>2 DEF TradeRecord
<1>4. trades' = Append(trades, r)
  BY DEF Happens
<1>5. r.at = now /\ r.amount = amount[p] /\ r.cap = Cap(p)
  OBVIOUS
<1> HIDE DEF r
<1> QED
  BY <1>3, <1>4, <1>5

(* A process's amount in hand. *)
Within(p) == pc[p] = "trade" /\ Cap(p) # 0 => amount[p] <= Cap(p)

LEMMA CapNext ==
  ASSUME TypeOK, \A p \in Procs : Within(p), CapBinds, [Next]_vars
  PROVE  (\A p \in Procs : Within(p)') /\ CapBinds'
<1>0. /\ DataOK /\ pc \in [Procs -> Steps] /\ trades \in Seq(TradeRecord)
      /\ cfg \in [Procs -> [Fields -> Nat]] /\ amount \in [Procs -> Nat]
      /\ "loop" \in Procs /\ Chats \subseteq Procs
  BY DEF TypeOK, DataOK, Procs
<1>1. ASSUME NEW p \in Procs, cfg'[p] = cfg[p], amount'[p] = amount[p],
             pc'[p] = pc[p] \/ pc'[p] # "trade"
      PROVE  Within(p)'
  BY <1>1 DEF Within, Cap
<1>2. ASSUME trades' = trades PROVE CapBinds'
  BY <1>2 DEF CapBinds
<1>3. CASE UNCHANGED vars
  BY <1>1, <1>2, <1>3 DEF vars, tickVars, seen
<1>4. CASE LoopTop \/ Chat \/ Clock \/ \E w \in Worths : Market(w)
  <2>1. trades' = trades /\ cfg' = cfg /\ amount' = amount
    BY <1>4 DEF LoopTop, Chat, Clock, Market, Pause, Resume, SetCap, Command, Update,
            Open, Write, Status, ChatTick, tickVars, seen
  <2>2. \/ pc' = pc
        \/ \E p \in Procs, step \in Steps \ {"trade"} : pc' = [pc EXCEPT ![p] = step]
    BY <1>0, <1>4 DEF LoopTop, Chat, Clock, Market, Pause, Resume, SetCap, Command,
            Update, Open, Write, Status, ChatTick, Go, Steps
  <2>3. \A p \in Procs : pc'[p] = pc[p] \/ pc'[p] # "trade"
    BY <1>0, <2>2
  <2> QED
    BY <1>1, <1>2, <2>1, <2>3
<1>5. ASSUME NEW p \in Procs,
             \/ Begin(p) \/ Attempt(p) \/ Record(p) \/ TickEnd(p) \/ TickError(p)
      PROVE  (\A q \in Procs : Within(q)') /\ CapBinds'
  <2>1. trades' = trades
    BY <1>5 DEF Begin, Attempt, Record, TickEnd, TickError, seen
  <2>2. /\ pc'[p] # "trade"
        /\ \A q \in Procs \ {p} : pc'[q] = pc[q] /\ cfg'[q] = cfg[q] /\ amount'[q] = amount[q]
    BY <1>0, <1>5 DEF Begin, Attempt, Record, TickEnd, TickError, Return, NextPair, Go
  <2>3. Within(p)'
    BY <2>2 DEF Within
  <2>4. \A q \in Procs \ {p} : Within(q)'
    BY <1>1, <2>2
  <2> QED
    BY <1>2, <2>1, <2>3, <2>4
<1>6. ASSUME NEW p \in Procs, NEW a \in Amounts, NEW listed \in BOOLEAN,
             Decide(p, a, listed)
      PROVE  (\A q \in Procs : Within(q)') /\ CapBinds'
  <2>1. trades' = trades /\ cfg' = cfg /\ a \in Nat
    BY <1>6, SupervisedAssumption DEF Decide, seen
  <2>2. \A q \in Procs \ {p} : pc'[q] = pc[q] /\ amount'[q] = amount[q]
    BY <1>0, <1>6 DEF Decide, NextPair, Go
  <2>3. \/ pc'[p] = "pair"
        \/ pc'[p] = "trade" /\ amount'[p] = Approved(p, a)
    BY <1>0, <1>6 DEF Decide, NextPair, Go
  <2>4. Cap(p)' = Cap(p)
    BY <2>1 DEF Cap
  <2>5. Within(p)'
    BY <1>0, <2>1, <2>3, <2>4, ApprovedFacts DEF Within
  <2>6. \A q \in Procs \ {p} : Within(q)'
    BY <1>1, <2>1, <2>2
  <2> QED
    BY <1>2, <2>1, <2>5, <2>6
<1>7. ASSUME NEW p \in Procs, Execute(p) \/ LostAnswer(p)
      PROVE  (\A q \in Procs : Within(q)') /\ CapBinds'
  <2>1. pc[p] = "trade" /\ Happens(p)
    BY <1>7 DEF Execute, LostAnswer
  <2>2. PICK r \in TradeRecord : /\ trades' = Append(trades, r)
                                 /\ r.amount = amount[p] /\ r.cap = Cap(p)
    BY <1>0, <2>1, HappensFacts
  <2>3. CapBinds'
    BY <1>0, <2>1, <2>2, CapGrows DEF Within
  <2>4. /\ pc'[p] # "trade"
        /\ \A q \in Procs \ {p} : pc'[q] = pc[q] /\ cfg'[q] = cfg[q] /\ amount'[q] = amount[q]
    BY <1>0, <1>7 DEF Execute, LostAnswer, Return, Go, tickVars
  <2>5. Within(p)'
    BY <2>4 DEF Within
  <2>6. \A q \in Procs \ {p} : Within(q)'
    BY <1>1, <2>4
  <2> QED
    BY <2>3, <2>5, <2>6
<1> QED
  BY <1>3, <1>4, <1>5, <1>6, <1>7 DEF Next, Tick

LEMMA CapScript ==
  ASSUME TrailTypeOK, CapInv, Script
  PROVE  CapInv'
<1>0. script \in ScriptStates /\ trades \in Seq(TradeRecord)
  BY DEF TrailTypeOK, TypeOK, DataOK, ScriptStates
<1>1. \A p \in Procs : pc'[p] = "trade" /\ Cap(p)' # 0 => amount'[p] <= Cap(p)'
  BY ScriptFrame DEF CapInv, Cap
<1>2. ASSUME trades' = trades PROVE CapBinds'
  BY <1>2 DEF CapBinds, CapInv
<1>3. ASSUME script'.at # "trade", CapBinds' PROVE CapInv'
  BY <1>1, <1>3 DEF CapInv
<1>4. NextTick(script).at # "trade" /\ [Off EXCEPT !.left = 0].at # "trade"
  BY <1>0 DEF NextTick, ScriptStates, Off
<1>5. CASE ScriptStart \/ ScriptAttempt \/ ScriptRecord
  <2>1. trades' = trades /\ script'.at # "trade"
    BY <1>0, <1>4, <1>5 DEF ScriptStart, ScriptAttempt, ScriptRecord, seen, ScriptStates
  <2> QED
    BY <1>2, <1>3, <2>1
<1>6. CASE BrainDown
  <2>1. trades' = trades /\ script'.at # "trade"
    BY <1>0, <1>4, <1>6 DEF BrainDown, seen, ScriptStates
  <2> QED
    BY <1>2, <1>3, <2>1
<1>7. ASSUME NEW a \in Amounts, NEW listed \in BOOLEAN, ScriptDecide(a, listed)
      PROVE  CapInv'
  <2> DEFINE amt == IF a > ScriptCap /\ ScriptCap # 0 THEN ScriptCap ELSE a
  <2>1. a \in Nat /\ ScriptCap \in Nat
    BY <1>0, ScriptCapFacts, SupervisedAssumption
  <2>2. ScriptCap # 0 => amt <= ScriptCap
    BY <2>1
  <2>3. /\ trades' = trades
        /\ \/ script' = NextTick(script)
           \/ script' = [script EXCEPT !.at = "trade", !.amount = amt]
    BY <1>7 DEF ScriptDecide, seen
  <2> HIDE DEF amt
  <2>4. CASE script' = NextTick(script)
    BY <1>2, <1>3, <1>4, <2>3, <2>4
  <2>5. CASE script' = [script EXCEPT !.at = "trade", !.amount = amt]
    <3>1. script'.caps = script.caps /\ script'.amount = amt
      BY <1>0, <2>5 DEF ScriptStates
    <3>2. ScriptCap' = ScriptCap
      BY <3>1 DEF ScriptCap
    <3> QED
      BY <1>1, <1>2, <2>2, <2>3, <3>1, <3>2 DEF CapInv
  <2> QED
    BY <2>3, <2>4, <2>5
<1>8. CASE ScriptExecute
  <2>1. PICK r \in TradeRecord : /\ trades' = Append(trades, r)
                                 /\ r.amount = script.amount /\ r.cap = ScriptCap
    BY <1>8, ScriptTrade
  <2>2. script.at = "trade" /\ script'.at = "record"
    BY <1>0, <1>8 DEF ScriptExecute, ScriptStates
  <2>3. CapBinds'
    BY <1>0, <2>1, <2>2, CapGrows DEF CapInv
  <2> QED
    BY <1>3, <2>2, <2>3
<1> QED
  BY <1>5, <1>6, <1>7, <1>8 DEF Script

(* No trade, of the loop, a chat or the script, is larger than the cap of  *)
(* its tick, unless that cap is 0.                                         *)
THEOREM CapTheorem == TrailSpec => []CapBinds
<1>1. TrailInit => CapInv
  BY DEF TrailInit, Init, Off, CapInv, CapBinds
<1>2. TrailTypeOK /\ CapInv /\ [TrailNext]_trailVars => CapInv'
  <2> SUFFICES ASSUME TrailTypeOK, CapInv, [TrailNext]_trailVars PROVE CapInv'
    OBVIOUS
  <2>1. CASE [Next]_vars /\ UNCHANGED <<scene, script>>
    <3>1. TypeOK /\ (\A p \in Procs : Within(p)) /\ CapBinds
      BY DEF TrailTypeOK, CapInv, Within
    <3>2. (\A p \in Procs : Within(p)') /\ CapBinds'
      BY <2>1, <3>1, CapNext
    <3>3. script'.at = "trade" /\ ScriptCap' # 0 => script'.amount <= ScriptCap'
      BY <2>1 DEF CapInv, ScriptCap
    <3> QED
      BY <3>2, <3>3 DEF CapInv, Within
  <2> QED
    BY <2>1, CapScript, TrailCases
<1>3. CapInv => CapBinds
  BY DEF CapInv
<1> QED
  BY <1>1, <1>2, <1>3, TrailTypeCorrect, PTL DEF TrailSpec

-----------------------------------------------------------------------------
(* The rate *)

LEMMA CrewFacts ==
  /\ IsFiniteSet(Traders) /\ "loop" \in Traders /\ "script" \notin Procs
  /\ Traders \subseteq Procs \cup {"script"}
  /\ \A step : IsFiniteSet(AtStep(step)) /\ AtStep(step) \subseteq Traders
<1>1. "script" \notin Procs /\ "loop" \in Traders
  BY ScriptAssumption DEF Procs, Traders
<1>2. IsFiniteSet(Procs \cup {"script"})
  <2>1. IsFiniteSet({"loop"})
    BY FS_Singleton
  <2>2. IsFiniteSet({"loop"} \cup Chats)
    BY <2>1, FS_Union, ScriptAssumption
  <2> QED
    BY <2>2, FS_AddElement DEF Procs
<1>3. Traders \subseteq Procs \cup {"script"}
  BY DEF Traders, Procs
<1>4. IsFiniteSet(Traders)
  BY <1>2, <1>3, FS_Subset
<1>5. \A step : IsFiniteSet(AtStep(step)) /\ AtStep(step) \subseteq Traders
  BY <1>4, FS_Subset DEF AtStep
<1> QED
  BY <1>1, <1>3, <1>4, <1>5

(* The sets whose sizes are compared are finite. *)
LEMMA SinceFacts ==
  ASSUME trades \in Seq(TradeRecord), ledger \in Seq(Nat), NEW t
  PROVE  /\ IsFiniteSet(TradedSince(t)) /\ Cardinality(TradedSince(t)) \in Nat
         /\ IsFiniteSet(LoggedSince(t)) /\ Cardinality(LoggedSince(t)) \in Nat
<1>1. ASSUME NEW n \in Nat, NEW S, S \subseteq 1 .. n
      PROVE  IsFiniteSet(S) /\ Cardinality(S) \in Nat
  <2>1. IsFiniteSet(1 .. n)
    BY FS_Interval
  <2>2. IsFiniteSet(S)
    BY <1>1, <2>1, FS_Subset
  <2> QED
    BY <2>2, FS_CardinalityType
<1>2. TradedSince(t) \subseteq 1 .. Len(trades) /\ Len(trades) \in Nat
  BY DEF TradedSince
<1>3. LoggedSince(t) \subseteq 1 .. Len(ledger) /\ Len(ledger) \in Nat
  BY DEF LoggedSince
<1> QED
  BY <1>1, <1>2, <1>3

LEMMA CrewSizes ==
  \A step : /\ Cardinality(AtStep(step)) \in Nat /\ Cardinality(Traders) \in Nat
            /\ AtStep(step) # {} => Cardinality(AtStep(step)) >= 1
<1> SUFFICES ASSUME NEW step
             PROVE  /\ Cardinality(AtStep(step)) \in Nat /\ Cardinality(Traders) \in Nat
                    /\ AtStep(step) # {} => Cardinality(AtStep(step)) >= 1
  OBVIOUS
<1> DEFINE A == AtStep(step)
<1>1. IsFiniteSet(A) /\ IsFiniteSet(Traders)
  BY CrewFacts
<1>2. Cardinality(A) \in Nat /\ Cardinality(Traders) \in Nat
  BY <1>1, FS_CardinalityType
<1>3. A # {} => Cardinality(A) # 0
  BY <1>1, FS_EmptySet
<1> QED
  BY <1>2, <1>3

(* Who approves is neither trading nor recording: together these are at    *)
(* most all the traders.                                                   *)
LEMMA CrewRoom ==
  ASSUME NEW a \in Traders, a \notin AtStep("trade"), a \notin AtStep("record")
  PROVE  Cardinality(AtStep("record")) + Cardinality(AtStep("trade")) + 1
            <= Cardinality(Traders)
<1> DEFINE A == AtStep("trade")
           E == AtStep("record")
<1>1. /\ IsFiniteSet(A) /\ IsFiniteSet(E) /\ IsFiniteSet(Traders)
      /\ A \subseteq Traders /\ E \subseteq Traders
  BY CrewFacts
<1>2. A \cap E = {}
  BY DEF AtStep
<1> HIDE DEF A, E
<1>3. /\ IsFiniteSet(E \cup A)
      /\ Cardinality(E \cup A) = Cardinality(E) + Cardinality(A) - Cardinality(E \cap A)
  BY <1>1, FS_Union
<1>4. Cardinality(E \cap A) = 0
  <2>1. E \cap A = {}
    BY <1>2
  <2> QED
    BY <2>1, FS_EmptySet
<1>5. a \notin E \cup A
  BY DEF A, E
<1>6. Cardinality((E \cup A) \cup {a}) = Cardinality(E \cup A) + 1
  BY <1>3, <1>5, FS_AddElement
<1>7. Cardinality((E \cup A) \cup {a}) <= Cardinality(Traders)
  <2>1. (E \cup A) \cup {a} \in SUBSET Traders
    BY <1>1
  <2> QED
    BY <1>1, <2>1, FS_Subset
<1>8. Cardinality(E) \in Nat /\ Cardinality(A) \in Nat /\ Cardinality(Traders) \in Nat
  BY <1>1, FS_CardinalityType
<1> QED
  BY <1>3, <1>4, <1>6, <1>7, <1>8 DEF A, E

(* One process takes a step. *)
LEMMA ProcMoves ==
  ASSUME TrailTypeOK, scene' = scene, script' = script, NEW p \in Procs, p \in Traders,
         NEW step, pc' = [pc EXCEPT ![p] = step]
  PROVE  /\ \A x : AtStep(x)' = IF x = step THEN AtStep(x) \cup {p} ELSE AtStep(x) \ {p}
         /\ \A x : p \in AtStep(x) <=> pc[p] = x
<1>1. p # "script" /\ Traders' = Traders /\ pc \in [Procs -> Steps]
      /\ Traders \subseteq Procs \cup {"script"}
  BY CrewFacts DEF Traders, TrailTypeOK, TypeOK, DataOK
<1>2. \A a \in Traders : StepOf(a)' = IF a = p THEN step ELSE StepOf(a)
  BY <1>1 DEF StepOf
<1>3. \A x : p \in AtStep(x) <=> pc[p] = x
  BY <1>1 DEF AtStep, StepOf
<1>4. ASSUME NEW x
      PROVE  AtStep(x)' = IF x = step THEN AtStep(x) \cup {p} ELSE AtStep(x) \ {p}
  <2>1. AtStep(x)' = {a \in Traders : StepOf(a)' = x}
    BY <1>1 DEF AtStep
  <2>2. AtStep(x) = {a \in Traders : StepOf(a) = x}
    BY DEF AtStep
  <2> QED
    BY <1>2, <2>1, <2>2
<1> QED
  BY <1>3, <1>4

LEMMA ScriptMoves ==
  ASSUME TrailTypeOK, scene' = scene, scene = "crowd", pc' = pc, NEW step,
         script'.at = step
  PROVE  /\ \A x : AtStep(x)' = IF x = step THEN AtStep(x) \cup {"script"}
                                ELSE AtStep(x) \ {"script"}
         /\ \A x : "script" \in AtStep(x) <=> script.at = x
         /\ "script" \in Traders
<1>1. Traders' = Traders /\ "script" \in Traders
  BY DEF Traders
<1>2. \A a \in Traders : StepOf(a)' = IF a = "script" THEN step ELSE StepOf(a)
  BY DEF StepOf
<1>3. \A x : "script" \in AtStep(x) <=> script.at = x
  BY <1>1 DEF AtStep, StepOf
<1>4. ASSUME NEW x
      PROVE  AtStep(x)' = IF x = step THEN AtStep(x) \cup {"script"}
                          ELSE AtStep(x) \ {"script"}
  <2>1. AtStep(x)' = {a \in Traders : StepOf(a)' = x}
    BY <1>1 DEF AtStep
  <2>2. AtStep(x) = {a \in Traders : StepOf(a) = x}
    BY DEF AtStep
  <2>3. CASE x = step
    BY <1>1, <1>2, <2>1, <2>2, <2>3, Zenon
  <2>4. CASE x # step
    BY <1>1, <1>2, <2>1, <2>2, <2>4, Zenon
  <2> QED
    BY <2>3, <2>4
<1> QED
  BY <1>1, <1>3, <1>4


(* What is in the invariant of the rate, with the sizes as numbers. *)
RateOf(r, a, n) ==
    /\ \A j \in DOMAIN trades : trades[j].at <= now
    /\ \A t \in -Hour .. now :
         Cardinality(TradedSince(t)) <= Cardinality(LoggedSince(t)) + r
    /\ a > 0 => Cardinality(TradedSince(now - Hour)) + a <= n

Limit == Risk.max_trades_per_hour + Cardinality(Traders) - 1

LEMMA RateFacts ==
  ASSUME TrailTypeOK
  PROVE  /\ now \in Nat /\ Hour \in Nat /\ Risk.max_trades_per_hour \in Nat
         /\ now - Hour \in -Hour .. now /\ Limit \in Int
         /\ trades \in Seq(TradeRecord) /\ ledger \in Seq(Nat)
         /\ \A j \in DOMAIN trades : trades[j].at \in Nat
<1>1. /\ now \in Nat /\ Hour \in Nat /\ trades \in Seq(TradeRecord) /\ ledger \in Seq(Nat)
      /\ Risk.max_trades_per_hour \in Nat
  BY SupervisedAssumption DEF TrailTypeOK, TypeOK, DataOK, Fields
<1>2. now - Hour \in -Hour .. now
  BY <1>1
<1>3. Limit \in Int
  <2>1. Cardinality(Traders) \in Nat
    BY CrewFacts, FS_CardinalityType
  <2> QED
    BY <1>1, <2>1 DEF Limit
<1>4. ASSUME NEW j \in DOMAIN trades PROVE trades[j].at \in Nat
  <2>1. trades[j] \in TradeRecord
    BY <1>1
  <2> QED
    BY <2>1 DEF TradeRecord
<1> QED
  BY <1>1, <1>2, <1>3, <1>4

LEMMA RateForm ==
  scene # "talk" =>
    (RateInv <=> /\ RateOf(Cardinality(AtStep("record")), Cardinality(AtStep("trade")), Limit)
                 /\ RateBound)
<1> SUFFICES ASSUME scene # "talk"
             PROVE  RateInv <=> /\ RateOf(Cardinality(AtStep("record")),
                                          Cardinality(AtStep("trade")), Limit)
                                /\ RateBound
  OBVIOUS
<1>1. AtStep("trade") # {} <=> Cardinality(AtStep("trade")) > 0
  <2>1. AtStep("trade") = {} => Cardinality(AtStep("trade")) = 0
    BY FS_EmptySet
  <2> QED
    BY <2>1, CrewSizes
<1> QED
  BY <1>1 DEF RateInv, RateOf, Limit

LEMMA RateFormNext ==
  (scene # "talk" =>
    (RateInv <=> /\ RateOf(Cardinality(AtStep("record")), Cardinality(AtStep("trade")), Limit)
                 /\ RateBound))'
BY RateForm, PTL

(* A step that makes no trade and records none. *)
LEMMA RateQuiet ==
  ASSUME TrailTypeOK, TrailTypeOK', RateInv, scene # "talk", scene' = scene,
         UNCHANGED <<now, trades, ledger>>,
         AtStep("record")' = AtStep("record"), AtStep("trade")' \subseteq AtStep("trade")
  PROVE  RateInv'
<1> DEFINE r == Cardinality(AtStep("record"))
           a == Cardinality(AtStep("trade"))
<1>1. Traders' = Traders
  BY DEF Traders
<1>2. RateBound'
  BY <1>1 DEF RateInv, RateBound
<1>3. \A t : TradedSince(t)' = TradedSince(t) /\ LoggedSince(t)' = LoggedSince(t)
  BY DEF TradedSince, LoggedSince
<1>4. a' <= a /\ a' \in Nat /\ a \in Nat /\ r' = r
  <2>1. IsFiniteSet(AtStep("trade"))
    BY CrewFacts
  <2>2. Cardinality(AtStep("trade")') <= Cardinality(AtStep("trade"))
        /\ IsFiniteSet(AtStep("trade")')
    BY <2>1, FS_Subset
  <2> QED
    BY <2>1, <2>2, FS_CardinalityType
<1>5. RateOf(r, a, Limit)
  BY RateForm
<1>6. Limit' = Limit /\ Limit \in Int /\ Cardinality(TradedSince(now - Hour)) \in Nat
  <2>1. Limit' = Limit
    BY <1>1 DEF Limit
  <2>2. Cardinality(TradedSince(now - Hour)) \in Nat
    BY RateFacts, SinceFacts
  <2> QED
    BY <2>1, <2>2, RateFacts
<1> HIDE DEF r, a
<1>7. RateOf(r, a, Limit)'
  BY <1>3, <1>4, <1>5, <1>6 DEF RateOf
<1> QED
  BY <1>2, <1>7, RateFormNext DEF r, a

(* The guardrail's answer: while the trader is on its way there is room    *)
(* for its trade, and for those of all the others.                         *)
LEMMA RateApprove ==
  ASSUME TrailTypeOK, TrailTypeOK', RateInv, scene # "talk", scene' = scene, Offset <= 0,
         UNCHANGED <<now, trades, ledger>>, TradesLastHour < Risk.max_trades_per_hour,
         NEW b \in Traders, b \notin AtStep("trade"), b \notin AtStep("record"),
         AtStep("record")' = AtStep("record"), AtStep("trade")' = AtStep("trade") \cup {b}
  PROVE  RateInv'
<1> DEFINE r == Cardinality(AtStep("record"))
           a == Cardinality(AtStep("trade"))
           d == Cardinality(TradedSince(now - Hour))
           l == Cardinality(LoggedSince(now - Hour))
<1>1. Traders' = Traders
  BY DEF Traders
<1>2. RateBound'
  BY <1>1 DEF RateInv, RateBound
<1>3. \A t : TradedSince(t)' = TradedSince(t) /\ LoggedSince(t)' = LoggedSince(t)
  BY DEF TradedSince, LoggedSince
<1>4. a' = a + 1 /\ a \in Nat /\ r \in Nat /\ r' = r
  <2>1. IsFiniteSet(AtStep("trade")) /\ IsFiniteSet(AtStep("record"))
    BY CrewFacts
  <2> QED
    BY <2>1, FS_AddElement, FS_CardinalityType
<1>5. r + a + 1 <= Cardinality(Traders) /\ Cardinality(Traders) \in Nat
  <2>1. Cardinality(Traders) \in Nat
    BY CrewFacts, FS_CardinalityType
  <2> QED
    BY <2>1, CrewRoom
<1>6. l <= TradesLastHour /\ l \in Nat /\ TradesLastHour \in Nat /\ d \in Nat
  <2> DEFINE C == {i \in DOMAIN ledger : ledger[i] - Offset >= now - Hour}
  <2>0. now \in Nat /\ Hour \in Nat /\ Offset \in Int /\ ledger \in Seq(Nat)
        /\ trades \in Seq(TradeRecord)
    BY RateFacts, SupervisedAssumption
  <2>1. LoggedSince(now - Hour) \subseteq C
    BY <2>0 DEF LoggedSince
  <2>2. C \subseteq 1 .. Len(ledger) /\ IsFiniteSet(1 .. Len(ledger))
    <3>1. Len(ledger) \in Nat /\ C \subseteq 1 .. Len(ledger)
      BY <2>0
    <3> QED
      BY <3>1, FS_Interval
  <2>3. IsFiniteSet(C)
    BY <2>2, FS_Subset
  <2> HIDE DEF C
  <2>4. l <= Cardinality(C)
    BY <2>1, <2>3, FS_Subset
  <2>5. Cardinality(C) = TradesLastHour
    BY DEF C, TradesLastHour
  <2>6. l \in Nat /\ d \in Nat
    BY <2>0, SinceFacts
  <2> QED
    BY <2>3, <2>4, <2>5, <2>6, FS_CardinalityType
<1>7. RateOf(r, a, Limit) /\ d <= l + r
  <2>1. RateOf(r, a, Limit)
    BY RateForm
  <2> QED
    BY <2>1, RateFacts DEF RateOf
<1>8. Limit' = Limit /\ d' = d
  BY <1>1, <1>3 DEF Limit
<1>9. d + (a + 1) <= Limit
  <2> DEFINE m == Risk.max_trades_per_hour
             n == Cardinality(Traders)
             c == TradesLastHour
  <2>1. Limit = m + n - 1 /\ m \in Nat /\ c < m
    BY RateFacts DEF Limit
  <2>2. r + a + 1 <= n /\ n \in Nat /\ l <= c /\ c \in Nat /\ d <= l + r
        /\ l \in Nat /\ d \in Nat /\ r \in Nat /\ a \in Nat
    BY <1>4, <1>5, <1>6, <1>7
  <2> HIDE DEF m, n, c, r, a, d, l
  <2> QED
    BY <2>1, <2>2
<1> HIDE DEF r, a
<1>10. RateOf(r, a, Limit)'
  BY <1>3, <1>4, <1>7, <1>8, <1>9 DEF RateOf
<1> QED
  BY <1>2, <1>10, RateFormNext DEF r, a

(* The event of a trade reaches the ledger. *)
LEMMA RateRecord ==
  ASSUME TrailTypeOK, TrailTypeOK', RateInv, scene # "talk", scene' = scene,
         UNCHANGED <<now, trades>>, ledger' = Append(ledger, now),
         NEW b \in AtStep("record"), AtStep("record")' = AtStep("record") \ {b},
         AtStep("trade")' = AtStep("trade")
  PROVE  RateInv'
<1> DEFINE r == Cardinality(AtStep("record"))
           a == Cardinality(AtStep("trade"))
<1>1. Traders' = Traders
  BY DEF Traders
<1>2. RateBound'
  BY <1>1 DEF RateInv, RateBound
<1>3. \A t : TradedSince(t)' = TradedSince(t)
  BY DEF TradedSince
<1>4. r' = r - 1 /\ a' = a /\ r \in Nat
  <2>1. IsFiniteSet(AtStep("record"))
    BY CrewFacts
  <2> QED
    BY <2>1, FS_RemoveElement, FS_CardinalityType
<1>5. RateOf(r, a, Limit) /\ Limit' = Limit
  BY <1>1, RateForm DEF Limit
<1>6. ASSUME NEW t \in -Hour .. now
      PROVE  Cardinality(TradedSince(t)') <= Cardinality(LoggedSince(t)') + r'
  <2>0. now \in Nat /\ Hour \in Nat /\ ledger \in Seq(Nat) /\ trades \in Seq(TradeRecord)
    BY RateFacts
  <2>1. LoggedSince(t)' = LoggedSince(t) \cup {Len(ledger) + 1}
    BY <2>0 DEF LoggedSince
  <2>2. Len(ledger) + 1 \notin LoggedSince(t)
    BY <2>0 DEF LoggedSince
  <2>3. IsFiniteSet(LoggedSince(t)) /\ Cardinality(LoggedSince(t)) \in Nat
        /\ Cardinality(TradedSince(t)) \in Nat
    BY <2>0, SinceFacts
  <2>4. Cardinality(LoggedSince(t)') = Cardinality(LoggedSince(t)) + 1
    BY <2>1, <2>2, <2>3, FS_AddElement
  <2>5. Cardinality(TradedSince(t)) <= Cardinality(LoggedSince(t)) + r
    BY <1>5 DEF RateOf
  <2> QED
    BY <1>3, <1>4, <2>3, <2>4, <2>5
<1> HIDE DEF r, a
<1>7. RateOf(r, a, Limit)'
  BY <1>3, <1>4, <1>5, <1>6 DEF RateOf
<1> QED
  BY <1>2, <1>7, RateFormNext DEF r, a

(* Time passes: no trade is younger than now. *)
LEMMA RateClock ==
  ASSUME TrailTypeOK, TrailTypeOK', RateInv, scene # "talk", scene' = scene,
         now' = now + 1, UNCHANGED <<trades, ledger>>,
         AtStep("record")' = AtStep("record"), AtStep("trade")' = AtStep("trade")
  PROVE  RateInv'
<1> DEFINE r == Cardinality(AtStep("record"))
           a == Cardinality(AtStep("trade"))
<1>1. Traders' = Traders
  BY DEF Traders
<1>2. RateBound'
  BY <1>1 DEF RateInv, RateBound
<1>3. \A t : TradedSince(t)' = TradedSince(t) /\ LoggedSince(t)' = LoggedSince(t)
  BY DEF TradedSince, LoggedSince
<1>4. r' = r /\ a' = a /\ r \in Nat /\ a \in Nat
  BY CrewFacts, FS_CardinalityType
<1>5. RateOf(r, a, Limit) /\ Limit' = Limit
  BY <1>1, RateForm DEF Limit
<1>0. now \in Nat /\ Hour \in Nat /\ ledger \in Seq(Nat) /\ trades \in Seq(TradeRecord)
      /\ Limit \in Int /\ (\A j \in DOMAIN trades : trades[j].at \in Nat)
  BY RateFacts
<1>6. \A j \in DOMAIN trades : trades[j].at <= now + 1
  BY <1>0, <1>5 DEF RateOf
<1>7. ASSUME NEW t \in -Hour .. now + 1
      PROVE  Cardinality(TradedSince(t)) <= Cardinality(LoggedSince(t)) + r
  <2>1. CASE t \in -Hour .. now
    BY <1>5, <2>1 DEF RateOf
  <2>2. CASE t \notin -Hour .. now
    <3>1. t = now + 1
      BY <1>0, <2>2
    <3>2. TradedSince(t) = {}
      BY <1>0, <1>5, <3>1 DEF TradedSince, RateOf
    <3>3. Cardinality(TradedSince(t)) = 0 /\ Cardinality(LoggedSince(t)) \in Nat
      BY <1>0, <3>2, FS_EmptySet, SinceFacts
    <3> QED
      BY <1>4, <3>3
  <2> QED
    BY <2>1, <2>2
<1>8. Cardinality(TradedSince(now + 1 - Hour)) <= Cardinality(TradedSince(now - Hour))
      /\ Cardinality(TradedSince(now + 1 - Hour)) \in Nat
      /\ Cardinality(TradedSince(now - Hour)) \in Nat
  <2>1. TradedSince(now + 1 - Hour) \subseteq TradedSince(now - Hour)
    BY <1>0 DEF TradedSince
  <2>2. IsFiniteSet(TradedSince(now - Hour))
        /\ Cardinality(TradedSince(now - Hour)) \in Nat
    BY <1>0, SinceFacts
  <2>3. Cardinality(TradedSince(now + 1 - Hour)) \in Nat
    BY <1>0, SinceFacts
  <2>4. Cardinality(TradedSince(now + 1 - Hour)) <= Cardinality(TradedSince(now - Hour))
    BY <2>1, <2>2, FS_Subset
  <2> QED
    BY <2>2, <2>3, <2>4
<1> HIDE DEF r, a
<1>9. a > 0 => Cardinality(TradedSince(now - Hour)') + a <= Limit
  <2> DEFINE d == Cardinality(TradedSince(now - Hour))
             e == Cardinality(TradedSince(now + 1 - Hour))
  <2>1. a > 0 => d + a <= Limit
    BY <1>5 DEF RateOf
  <2>2. e <= d /\ e \in Nat /\ d \in Nat
    BY <1>8
  <2>3. Cardinality(TradedSince(now - Hour)') = e
    <3>1. TradedSince(now - Hour)' = {j \in DOMAIN trades' : trades'[j].at >= now' - Hour}
      BY DEF TradedSince
    <3>2. {j \in DOMAIN trades' : trades'[j].at >= now' - Hour}
            = {j \in DOMAIN trades : trades[j].at >= now + 1 - Hour}
      BY <1>0
    <3>3. TradedSince(now + 1 - Hour) = {j \in DOMAIN trades : trades[j].at >= now + 1 - Hour}
      BY DEF TradedSince
    <3>4. TradedSince(now - Hour)' = TradedSince(now + 1 - Hour)
      BY <3>1, <3>2, <3>3
    <3> QED
      BY <3>4
  <2> HIDE DEF d, e
  <2> QED
    BY <1>0, <1>4, <2>1, <2>2, <2>3
<1>10. RateOf(r, a, Limit)'
  <2>1. \A j \in DOMAIN trades' : trades'[j].at <= now'
    BY <1>6
  <2>2. \A t \in -Hour .. now' :
          Cardinality(TradedSince(t)') <= Cardinality(LoggedSince(t)') + r'
    BY <1>3, <1>4, <1>7
  <2>3. a' > 0 => Cardinality(TradedSince(now - Hour)') + a' <= Limit'
    BY <1>4, <1>5, <1>9
  <2> QED
    BY <2>1, <2>2, <2>3 DEF RateOf
<1> QED
  BY <1>2, <1>10, RateFormNext DEF r, a

(* A trade is made: the room for it was kept since the guardrail's answer. *)
LEMMA RateExecute ==
  ASSUME TrailTypeOK, TrailTypeOK', RateInv, scene # "talk", scene' = scene,
         UNCHANGED <<now, ledger>>,
         NEW q \in TradeRecord, trades' = Append(trades, q), q.at = now,
         NEW b \in AtStep("trade"), b \notin AtStep("record"),
         AtStep("record")' = AtStep("record") \cup {b},
         AtStep("trade")' = AtStep("trade") \ {b}
  PROVE  RateInv'
<1> DEFINE r == Cardinality(AtStep("record"))
           a == Cardinality(AtStep("trade"))
           d == Cardinality(TradedSince(now - Hour))
           n == Len(trades)
<1>0. now \in Nat /\ Hour \in Nat /\ ledger \in Seq(Nat) /\ trades \in Seq(TradeRecord)
      /\ Limit \in Int /\ n \in Nat /\ d \in Nat
  BY RateFacts, SinceFacts
<1>1. Traders' = Traders /\ Limit' = Limit
  BY DEF Traders, Limit
<1>2. RateOf(r, a, Limit) /\ RateBound
  BY RateForm
<1>3. r' = r + 1 /\ a' = a - 1 /\ r \in Nat /\ a \in Nat /\ a > 0
  <2>1. IsFiniteSet(AtStep("trade")) /\ IsFiniteSet(AtStep("record"))
    BY CrewFacts
  <2>2. r' = r + 1 /\ a' = a - 1 /\ r \in Nat /\ a \in Nat
    BY <2>1, FS_AddElement, FS_RemoveElement, FS_CardinalityType
  <2>3. a # 0
    BY <2>1, FS_EmptySet
  <2> QED
    BY <2>2, <2>3
<1>4. /\ DOMAIN trades' = 1 .. n + 1 /\ DOMAIN trades = 1 .. n /\ trades'[n + 1] = q
      /\ \A j \in 1 .. n : trades'[j] = trades[j]
  BY <1>0
<1>5. ASSUME NEW t \in -Hour .. now
      PROVE  /\ TradedSince(t)' = TradedSince(t) \cup {n + 1}
             /\ Cardinality(TradedSince(t)') = Cardinality(TradedSince(t)) + 1
             /\ LoggedSince(t)' = LoggedSince(t)
  <2>1. TradedSince(t)' = TradedSince(t) \cup {n + 1}
    BY <1>0, <1>4 DEF TradedSince
  <2>2. n + 1 \notin TradedSince(t)
    BY <1>0, <1>4 DEF TradedSince
  <2>3. IsFiniteSet(TradedSince(t))
    BY <1>0, SinceFacts
  <2>4. Cardinality(TradedSince(t)') = Cardinality(TradedSince(t)) + 1
    BY <2>1, <2>2, <2>3, FS_AddElement
  <2>5. LoggedSince(t)' = LoggedSince(t)
    BY DEF LoggedSince
  <2> QED
    BY <2>1, <2>4, <2>5
<1>6. TradedSince(now - Hour)' = TradedSince(now - Hour) \cup {n + 1}
      /\ Cardinality(TradedSince(now - Hour)') = d + 1
  <2> DEFINE t0 == now - Hour
  <2>1. TradedSince(t0)' = TradedSince(t0) \cup {n + 1}
    BY <1>0, <1>4 DEF TradedSince
  <2>2. n + 1 \notin TradedSince(t0)
    BY <1>0, <1>4 DEF TradedSince
  <2>3. IsFiniteSet(TradedSince(t0))
    BY <1>0, SinceFacts
  <2> QED
    BY <2>1, <2>2, <2>3, FS_AddElement
<1>7. d + a <= Limit
  BY <1>2, <1>3 DEF RateOf
<1>8. RateBound'
  <2> SUFFICES ASSUME NEW i \in 1 .. n + 1
               PROVE  Cardinality({j \in 1 .. i : trades'[j].at >= trades'[i].at - Hour})
                        <= Limit
    BY <1>1, <1>4 DEF RateBound, Limit
  <2>1. CASE i = n + 1
    <3>1. {j \in 1 .. i : trades'[j].at >= trades'[i].at - Hour} = TradedSince(now - Hour)'
      BY <1>4, <2>1 DEF TradedSince
    <3>2. Cardinality({j \in 1 .. i : trades'[j].at >= trades'[i].at - Hour}) = d + 1
      BY <1>6, <3>1
    <3> HIDE DEF d, a
    <3>3. d + 1 <= Limit
      BY <1>0, <1>3, <1>7
    <3> QED
      BY <3>2, <3>3
  <2>2. CASE i # n + 1
    <3>1. i \in 1 .. n /\ \A j \in 1 .. i : j \in 1 .. n
      BY <1>0, <2>2
    <3>2. {j \in 1 .. i : trades'[j].at >= trades'[i].at - Hour}
            = {j \in 1 .. i : trades[j].at >= trades[i].at - Hour}
      BY <1>4, <3>1
    <3>3. Cardinality({j \in 1 .. i : trades[j].at >= trades[i].at - Hour}) <= Limit
      BY <1>2, <1>4, <3>1 DEF RateBound, Limit
    <3> QED
      BY <3>2, <3>3
  <2> QED
    BY <2>1, <2>2
<1>9. \A j \in DOMAIN trades' : trades'[j].at <= now'
  BY <1>0, <1>2, <1>4 DEF RateOf
<1>10. ASSUME NEW t \in -Hour .. now
       PROVE  Cardinality(TradedSince(t)') <= Cardinality(LoggedSince(t)') + r'
  <2> DEFINE u == Cardinality(TradedSince(t))
             l == Cardinality(LoggedSince(t))
  <2>1. u \in Nat /\ l \in Nat
    BY <1>0, SinceFacts
  <2>2. u <= l + r
    BY <1>2 DEF RateOf
  <2>3. Cardinality(TradedSince(t)') = u + 1 /\ Cardinality(LoggedSince(t)') = l
    BY <1>5
  <2> HIDE DEF u, l, r
  <2> QED
    BY <1>3, <2>1, <2>2, <2>3
<1>11. Cardinality(TradedSince(now - Hour)') + a' <= Limit'
  <2> HIDE DEF d, a
  <2> QED
    BY <1>0, <1>1, <1>3, <1>6, <1>7
<1> HIDE DEF r, a
<1>12. RateOf(r, a, Limit)'
  BY <1>9, <1>10, <1>11 DEF RateOf
<1> QED
  BY <1>8, <1>12, RateFormNext DEF r, a

(* Who takes which step, while nobody gives commands *)

Beat(p) ==
    \/ Begin(p)
    \/ (\E a \in Amounts, listed \in BOOLEAN : Decide(p, a, listed))
    \/ Execute(p) \/ Attempt(p) \/ Record(p) \/ TickEnd(p) \/ TickError(p)

LEMMA QuietCases ==
  ASSUME [TrailNext]_trailVars, scene # "talk"
  PROVE  /\ scene' = scene
         /\ \/ UNCHANGED trailVars
            \/ scene = "crowd" /\ Script
            \/ /\ script' = script
               /\ \/ LoopTop \/ (\E p \in Procs : Beat(p)) \/ Clock
                  \/ (\E w \in Worths : Market(w))
                  \/ scene = "crowd" /\ \E c \in Chats : ChatTick(c)
<1>1. CASE UNCHANGED trailVars
  BY <1>1 DEF trailVars
<1>2. CASE scene = "crowd" /\ Script
  BY <1>2, ScriptFrame
<1>3. CASE /\ Heard \/ Clock \/ (\E w \in Worths : Market(w))
              \/ (scene = "crowd" /\ \E c \in Chats : ChatTick(c))
           /\ UNCHANGED <<scene, script>>
  BY <1>3 DEF Heard, Beat
<1> QED
  <2>1. ASSUME TrailNext
        PROVE  \/ scene = "crowd" /\ Script
               \/ /\ Heard \/ Clock \/ (\E w \in Worths : Market(w))
                     \/ (scene = "crowd" /\ \E c \in Chats : ChatTick(c))
                  /\ UNCHANGED <<scene, script>>
    BY <2>1, Zenon DEF TrailNext
  <2> QED
    BY <1>1, <1>2, <1>3, <2>1

(* Without overrides the caps of a tick are the committed ones. *)
LEMMA QuietCaps ==
  ASSUME file = DEFAULT
  PROVE  [f \in Fields |-> IF Load.overrides[f] = Unset THEN Risk[f]
                           ELSE Load.overrides[f]] = Risk
<1>1. Load = DEFAULT
  BY DEF Load
<1>2. \A f \in Fields : Load.overrides[f] = Unset
  BY <1>1 DEF DEFAULT
<1> QED
  BY <1>2, SupervisedAssumption

(* The script keeps them to its end. *)
LEMMA ScriptCaps ==
  ASSUME TrailTypeOK, Script, file = DEFAULT, script.caps = Risk
  PROVE  script'.caps = Risk
<1>0. script \in ScriptStates /\ (script.at # "off" => script.left > 0)
  BY DEF TrailTypeOK, ScriptStates
<1>1. CASE ScriptStart
  BY <1>0, <1>1, QuietCaps DEF ScriptStart, ScriptStates
<1>2. script.at # "off" => NextTick(script).caps = Risk
  BY <1>0, NextTickFacts
<1>3. CASE BrainDown
  BY <1>0, <1>2, <1>3 DEF BrainDown, ScriptStates
<1>4. ASSUME NEW a \in Amounts, NEW listed \in BOOLEAN, ScriptDecide(a, listed)
      PROVE  script'.caps = Risk
  <2> DEFINE m == IF a > ScriptCap /\ ScriptCap # 0 THEN ScriptCap ELSE a
  <2>1. script.at = "brain" /\ (\/ script' = NextTick(script)
                                \/ script' = [script EXCEPT !.at = "trade", !.amount = m])
    BY <1>4 DEF ScriptDecide
  <2> HIDE DEF m
  <2> QED
    BY <1>0, <1>2, <2>1 DEF ScriptStates
<1>5. CASE ScriptExecute
  BY <1>0, <1>5 DEF ScriptExecute, ScriptStates
<1>6. CASE ScriptAttempt
  <2>1. script.at = "trade" /\ (\/ script' = NextTick(script)
                                \/ script' = [Off EXCEPT !.left = 0])
    BY <1>6 DEF ScriptAttempt
  <2>2. [Off EXCEPT !.left = 0].caps = Risk
    BY DEF Off
  <2> QED
    BY <1>2, <2>1, <2>2
<1>7. CASE ScriptRecord
  BY <1>2, <1>7 DEF ScriptRecord
<1> QED
  BY <1>1, <1>3, <1>4, <1>5, <1>6, <1>7 DEF Script

(* Only a trader is ever in a tick. *)
LEMMA BeatFacts ==
  ASSUME TrailTypeOK, QuietInv, scene # "talk", NEW p \in Procs, Beat(p)
  PROVE  /\ p \in Traders /\ file' = file
         /\ \E step \in Steps \ Updating : pc' = [pc EXCEPT ![p] = step]
         /\ cfg' = [cfg EXCEPT ![p] = Risk]
<1>0. pc \in [Procs -> Steps] /\ cfg \in [Procs -> [Fields -> Nat]] /\ file = DEFAULT
      /\ cfg[p] = Risk
  BY DEF TrailTypeOK, TypeOK, DataOK, QuietInv
<1>1. pc[p] # "idle"
  BY DEF Beat, Begin, Decide, Execute, Attempt, Record, TickEnd, TickError
<1>2. p \in Traders
  BY <1>1 DEF QuietInv
<1>3. file' = file
  BY DEF Beat, Begin, Decide, Execute, Attempt, Record, TickEnd, TickError, shared
<1>4. \E step \in Steps \ Updating : pc' = [pc EXCEPT ![p] = step]
  BY DEF Beat, Begin, Decide, Execute, Attempt, Record, TickEnd, TickError,
         Return, NextPair, Go, Updating, Steps
<1>5. cfg' = [cfg EXCEPT ![p] = Risk]
  <2>1. CASE Begin(p)
    BY <1>0, <2>1, QuietCaps DEF Begin
  <2>2. CASE TickEnd(p) \/ TickError(p)
    BY <2>2 DEF TickEnd, TickError, Return
  <2>3. CASE ~Begin(p) /\ ~TickEnd(p) /\ ~TickError(p)
    <3>1. cfg' = cfg
      BY <2>3 DEF Beat, Decide, Execute, Attempt, Record, tickVars
    <3> QED
      BY <1>0, <3>1
  <2> QED
    BY <2>1, <2>2, <2>3
<1> QED
  BY <1>2, <1>3, <1>4, <1>5

LEMMA QuietStep ==
  ASSUME TrailTypeOK, QuietInv, [TrailNext]_trailVars PROVE QuietInv'
<1>0. CASE scene = "talk"
  <2>1. scene' = scene
    BY <1>0 DEF TrailNext, trailVars
  <2> QED
    BY <1>0, <2>1 DEF QuietInv
<1> SUFFICES ASSUME scene # "talk" PROVE QuietInv'
  BY <1>0
<1>1. /\ scene' = scene /\ Traders' = Traders /\ Traders \subseteq Procs \cup {"script"}
      /\ pc \in [Procs -> Steps] /\ cfg \in [Procs -> [Fields -> Nat]]
      /\ file = DEFAULT /\ "loop" \in Traders /\ "loop" \in Procs /\ Chats \subseteq Procs
      /\ script.caps = Risk /\ ("script" \notin Traders => script.at = "off")
  BY QuietCases, CrewFacts DEF Traders, TrailTypeOK, TypeOK, DataOK, QuietInv, Procs
<1>2. ASSUME NEW p \in Traders, p \in Procs, script' = script, file' = file,
             \E step \in Steps \ Updating : pc' = [pc EXCEPT ![p] = step],
             cfg' = [cfg EXCEPT ![p] = Risk] \/ cfg' = cfg
      PROVE  QuietInv'
  BY <1>1, <1>2 DEF QuietInv, Updating
<1>3. CASE UNCHANGED trailVars
  BY <1>1, <1>3 DEF QuietInv, trailVars, vars, shared, tickVars
<1>4. CASE LoopTop /\ script' = script
  <2>1. pc' = [pc EXCEPT !["loop"] = "begin"] /\ cfg' = cfg /\ file' = file
    BY <1>4 DEF LoopTop, Go, shared
  <2> QED
    BY <1>1, <1>2, <1>4, <2>1 DEF Steps, Updating
<1>5. ASSUME NEW p \in Procs, Beat(p), script' = script PROVE QuietInv'
  BY <1>2, <1>5, BeatFacts
<1>6. CASE (Clock \/ \E w \in Worths : Market(w)) /\ script' = script
  BY <1>1, <1>6 DEF QuietInv, Clock, Market, shared, tickVars
<1>7. ASSUME scene = "crowd", NEW c \in Chats, ChatTick(c), script' = script PROVE QuietInv'
  <2>1. pc' = [pc EXCEPT ![c] = "begin"] /\ cfg' = cfg /\ file' = file
    BY <1>7 DEF ChatTick, Go, shared
  <2>2. c \in Traders /\ c \in Procs
    BY <1>1, <1>7 DEF Traders
  <2> QED
    BY <1>2, <1>7, <2>1, <2>2 DEF Steps, Updating
<1>8. CASE scene = "crowd" /\ Script
  <2>1. UNCHANGED <<file, pc, cfg>> /\ "script" \in Traders
    BY <1>8, ScriptFrame DEF Traders
  <2>2. script'.caps = Risk
    BY <1>1, <1>8, ScriptCaps
  <2> QED
    BY <1>1, <2>1, <2>2 DEF QuietInv
<1> QED
  BY <1>3, <1>4, <1>5, <1>6, <1>7, <1>8, QuietCases

(* A trader moves on without trading and without being asked to wait. *)
LEMMA RateMove ==
  ASSUME TrailTypeOK, TrailTypeOK', RateInv, scene # "talk", scene' = scene,
         script' = script, NEW p \in Procs, p \in Traders, NEW step,
         pc' = [pc EXCEPT ![p] = step], pc[p] # "record", step # "trade", step # "record",
         UNCHANGED <<now, trades, ledger>>
  PROVE  RateInv'
<1>1. /\ \A x : AtStep(x)' = IF x = step THEN AtStep(x) \cup {p} ELSE AtStep(x) \ {p}
      /\ \A x : p \in AtStep(x) <=> pc[p] = x
  BY ProcMoves
<1>2. p \notin AtStep("record")
  BY <1>1
<1>3. AtStep("record")' = AtStep("record") /\ AtStep("trade")' \subseteq AtStep("trade")
  BY <1>1, <1>2
<1> QED
  BY <1>3, RateQuiet

LEMMA RateCount == ASSUME TrailTypeOK PROVE TradesLastHour \in Nat
<1> DEFINE C == {i \in DOMAIN ledger : ledger[i] - Offset >= now - Hour}
<1>0. ledger \in Seq(Nat)
  BY RateFacts
<1>1. Len(ledger) \in Nat /\ C \subseteq 1 .. Len(ledger)
  BY <1>0
<1>2. IsFiniteSet(1 .. Len(ledger))
  BY <1>1, FS_Interval
<1>3. IsFiniteSet(C)
  BY <1>1, <1>2, FS_Subset
<1>4. Cardinality(C) \in Nat
  BY <1>3, FS_CardinalityType
<1> QED
  BY <1>4 DEF TradesLastHour

LEMMA RateBeat ==
  ASSUME TrailTypeOK, TrailTypeOK', QuietInv, RateInv, scene # "talk", scene' = scene,
         script' = script, Offset <= 0, NEW p \in Procs, Beat(p)
  PROVE  RateInv'
<1>0. p \in Traders /\ cfg[p] = Risk /\ DataOK /\ Risk.max_trades_per_hour \in Nat
  BY BeatFacts, RateFacts DEF QuietInv, TrailTypeOK, TypeOK
<1>1. \A x : p \in AtStep(x) <=> pc[p] = x
  <2>1. p # "script"
    BY CrewFacts
  <2> QED
    BY <1>0, <2>1 DEF AtStep, StepOf
<1>2. ASSUME NEW step, pc' = [pc EXCEPT ![p] = step]
      PROVE  \A x : AtStep(x)' = IF x = step THEN AtStep(x) \cup {p} ELSE AtStep(x) \ {p}
  BY <1>0, <1>2, ProcMoves
<1>3. CASE Begin(p)
  <2>1. pc[p] = "begin" /\ pc' = [pc EXCEPT ![p] = "pair"] /\ UNCHANGED <<now, trades, ledger>>
    BY <1>3 DEF Begin, Go, seen
  <2> QED
    BY <1>0, <2>1, RateMove, Zenon
<1>4. ASSUME NEW a \in Amounts, NEW listed \in BOOLEAN, Decide(p, a, listed)
      PROVE  RateInv'
  <2>1. pc[p] = "pair" /\ UNCHANGED <<now, trades, ledger>>
    BY <1>4 DEF Decide, shared, seen
  <2>2. CASE pc' = [pc EXCEPT ![p] = "pair"]
    BY <1>0, <2>1, <2>2, RateMove
  <2>3. CASE ~Refused(p, listed) /\ pc' = [pc EXCEPT ![p] = "trade"]
    <3>1. TradesLastHour < Risk.max_trades_per_hour
      BY <1>0, <2>3, RateCount DEF Refused
    <3>2. p \notin AtStep("trade") /\ p \notin AtStep("record")
      BY <1>1, <2>1
    <3>3. AtStep("record")' = AtStep("record") /\ AtStep("trade")' = AtStep("trade") \cup {p}
      <4>1. AtStep("record")' = AtStep("record") \ {p}
            /\ AtStep("trade")' = AtStep("trade") \cup {p}
        BY <1>2, <2>3
      <4> QED
        BY <3>2, <4>1
    <3> QED
      BY <1>0, <2>1, <3>1, <3>2, <3>3, RateApprove
  <2> QED
    BY <1>4, <2>2, <2>3 DEF Decide, NextPair, Go
<1>5. CASE Execute(p)
  <2>1. pc[p] = "trade" /\ pc' = [pc EXCEPT ![p] = "record"] /\ UNCHANGED <<now, ledger>>
        /\ Happens(p)
    BY <1>5 DEF Execute, Go, shared
  <2>2. PICK q \in TradeRecord : trades' = Append(trades, q) /\ q.at = now
    BY <1>0, <2>1, HappensFacts
  <2>3. p \in AtStep("trade") /\ p \notin AtStep("record")
    BY <1>1, <2>1
  <2>4. AtStep("record")' = AtStep("record") \cup {p} /\ AtStep("trade")' = AtStep("trade") \ {p}
    BY <1>2, <2>1
  <2> QED
    BY <2>1, <2>2, <2>3, <2>4, RateExecute
<1>6. CASE Attempt(p)
  <2>1. pc[p] = "trade" /\ pc' = [pc EXCEPT ![p] = "pair"] /\ UNCHANGED <<now, trades, ledger>>
    BY <1>6 DEF Attempt, NextPair, Go, shared, seen
  <2> QED
    BY <1>0, <2>1, RateMove, Zenon
<1>7. CASE Record(p)
  <2>1. pc[p] = "record" /\ pc' = [pc EXCEPT ![p] = "pair"] /\ UNCHANGED <<now, trades>>
        /\ ledger' = Append(ledger, now)
    BY <1>7 DEF Record, NextPair, Go, seen
  <2>2. p \in AtStep("record") /\ p \notin AtStep("trade")
    BY <1>1, <2>1
  <2>3. AtStep("record")' = AtStep("record") \ {p} /\ AtStep("trade")' = AtStep("trade")
    <3>1. AtStep("record")' = AtStep("record") \ {p} /\ AtStep("trade")' = AtStep("trade") \ {p}
      BY <1>2, <2>1
    <3> QED
      BY <2>2, <3>1
  <2> QED
    BY <2>1, <2>2, <2>3, RateRecord
<1>8. CASE TickEnd(p) \/ TickError(p)
  <2>1. pc[p] \in {"pair", "trade"} /\ pc' = [pc EXCEPT ![p] = "idle"]
        /\ UNCHANGED <<now, trades, ledger>>
    BY <1>8 DEF TickEnd, TickError, Return, Go, shared, seen
  <2> QED
    BY <1>0, <2>1, RateMove, Zenon
<1> QED
  BY <1>3, <1>4, <1>5, <1>6, <1>7, <1>8 DEF Beat

LEMMA RateScript ==
  ASSUME TrailTypeOK, TrailTypeOK', QuietInv, RateInv, scene = "crowd", scene' = scene,
         Script, Offset <= 0
  PROVE  RateInv'
<1>0. /\ script \in ScriptStates /\ (script.at # "off" => script.left > 0)
      /\ script.caps = Risk /\ Risk.max_trades_per_hour \in Nat
      /\ pc' = pc /\ now' = now /\ scene # "talk"
  BY RateFacts, ScriptFrame DEF QuietInv, TrailTypeOK, ScriptStates
<1>1. /\ \A x : "script" \in AtStep(x) <=> script.at = x
      /\ "script" \in Traders
  BY DEF AtStep, StepOf, Traders
<1>2. ASSUME NEW step, script'.at = step
      PROVE  \A x : AtStep(x)' = IF x = step THEN AtStep(x) \cup {"script"}
                                 ELSE AtStep(x) \ {"script"}
  BY <1>0, <1>2, ScriptMoves
<1>3. ASSUME script.at # "record", script'.at \notin {"trade", "record"},
             UNCHANGED <<trades, ledger>>
      PROVE  RateInv'
  <2>1. "script" \notin AtStep("record")
    BY <1>1, <1>3
  <2>2. AtStep("record")' = AtStep("record") /\ AtStep("trade")' \subseteq AtStep("trade")
    BY <1>2, <1>3, <2>1
  <2> QED
    BY <1>0, <1>3, <2>2, RateQuiet
<1>4. script.at # "off" => NextTick(script).at \in {"off", "brain"}
  BY <1>0, NextTickFacts
<1>5. CASE ScriptStart
  <2>1. script.at = "off" /\ script'.at = "brain" /\ UNCHANGED <<trades, ledger>>
    BY <1>0, <1>5 DEF ScriptStart, ScriptStates, seen
  <2> QED
    BY <1>3, <2>1
<1>6. CASE BrainDown
  <2>1. script.at = "brain" /\ script'.at \in {"off", "brain"} /\ UNCHANGED <<trades, ledger>>
    BY <1>0, <1>4, <1>6 DEF BrainDown, ScriptStates, seen
  <2> QED
    BY <1>3, <2>1
<1>7. ASSUME NEW a \in Amounts, NEW listed \in BOOLEAN, ScriptDecide(a, listed)
      PROVE  RateInv'
  <2> DEFINE m == IF a > ScriptCap /\ ScriptCap # 0 THEN ScriptCap ELSE a
  <2>1. /\ script.at = "brain" /\ UNCHANGED <<trades, ledger>>
        /\ \/ script' = NextTick(script)
           \/ /\ ~(TradesLastHour >= script.caps.max_trades_per_hour)
              /\ script' = [script EXCEPT !.at = "trade", !.amount = m]
    BY <1>7 DEF ScriptDecide, seen
  <2> HIDE DEF m
  <2>2. CASE script' = NextTick(script)
    BY <1>3, <1>4, <2>1, <2>2
  <2>3. CASE /\ ~(TradesLastHour >= script.caps.max_trades_per_hour)
             /\ script' = [script EXCEPT !.at = "trade", !.amount = m]
    <3>1. TradesLastHour < Risk.max_trades_per_hour
      BY <1>0, <2>3, RateCount
    <3>2. script'.at = "trade"
      BY <1>0, <2>3 DEF ScriptStates
    <3>3. "script" \notin AtStep("trade") /\ "script" \notin AtStep("record")
      BY <1>1, <2>1
    <3>4. AtStep("record")' = AtStep("record")
          /\ AtStep("trade")' = AtStep("trade") \cup {"script"}
      BY <1>2, <3>2, <3>3
    <3> QED
      BY <1>0, <1>1, <2>1, <3>1, <3>3, <3>4, RateApprove
  <2> QED
    BY <2>1, <2>2, <2>3
<1>8. CASE ScriptExecute
  <2>1. script.at = "trade" /\ script'.at = "record" /\ ledger' = ledger
    BY <1>0, <1>8 DEF ScriptExecute, ScriptStates
  <2>2. PICK q \in TradeRecord : trades' = Append(trades, q) /\ q.at = now
    BY <1>8, ScriptTrade
  <2>3. "script" \in AtStep("trade") /\ "script" \notin AtStep("record")
    BY <1>1, <2>1
  <2>4. AtStep("record")' = AtStep("record") \cup {"script"}
        /\ AtStep("trade")' = AtStep("trade") \ {"script"}
    BY <1>2, <2>1
  <2> QED
    BY <1>0, <2>1, <2>2, <2>3, <2>4, RateExecute
<1>9. CASE ScriptAttempt
  <2>1. /\ script.at = "trade" /\ UNCHANGED <<trades, ledger>>
        /\ script' = NextTick(script) \/ script' = [Off EXCEPT !.left = 0]
    BY <1>9 DEF ScriptAttempt, seen
  <2>2. [Off EXCEPT !.left = 0].at = "off"
    BY DEF Off
  <2>3. script'.at \in {"off", "brain"}
    BY <1>4, <2>1, <2>2
  <2> QED
    BY <1>3, <2>1, <2>3
<1>10. CASE ScriptRecord
  <2>1. script.at = "record" /\ ledger' = Append(ledger, now) /\ trades' = trades
        /\ script'.at \in {"off", "brain"}
    BY <1>4, <1>10 DEF ScriptRecord, seen
  <2>2. "script" \in AtStep("record") /\ "script" \notin AtStep("trade")
    BY <1>1, <2>1
  <2>3. AtStep("record")' = AtStep("record") \ {"script"} /\ AtStep("trade")' = AtStep("trade")
    <3>1. AtStep("record")' = AtStep("record") \ {"script"}
          /\ AtStep("trade")' = AtStep("trade") \ {"script"}
      BY <1>2, <2>1
    <3> QED
      BY <2>2, <3>1
  <2> QED
    BY <1>0, <2>1, <2>2, <2>3, RateRecord
<1> QED
  BY <1>5, <1>6, <1>7, <1>8, <1>9, <1>10 DEF Script

LEMMA RateStep ==
  ASSUME TrailTypeOK, TrailTypeOK', QuietInv, RateInv, [TrailNext]_trailVars, Offset <= 0
  PROVE  RateInv'
<1>0. CASE scene = "talk"
  <2>1. scene' = scene
    BY <1>0 DEF TrailNext, trailVars
  <2> QED
    BY <1>0, <2>1 DEF RateInv
<1> SUFFICES ASSUME scene # "talk" PROVE RateInv'
  BY <1>0
<1>1. scene' = scene /\ Traders' = Traders /\ "loop" \in Traders /\ "loop" \in Procs
  BY QuietCases, CrewFacts DEF Traders, Procs
<1>2. ASSUME script' = script, pc' = pc
      PROVE  \A x : AtStep(x)' = AtStep(x)
  BY <1>1, <1>2 DEF AtStep, StepOf
<1>3. CASE UNCHANGED trailVars
  <2>1. script' = script /\ pc' = pc /\ UNCHANGED <<now, trades, ledger>>
    BY <1>3 DEF trailVars, vars, shared, seen
  <2>2. AtStep("record")' = AtStep("record") /\ AtStep("trade")' \subseteq AtStep("trade")
    BY <1>2, <2>1
  <2> QED
    BY <1>1, <2>1, <2>2, RateQuiet
<1>4. CASE LoopTop /\ script' = script
  <2>1. pc["loop"] = "idle" /\ pc' = [pc EXCEPT !["loop"] = "begin"]
        /\ UNCHANGED <<now, trades, ledger>>
    BY <1>4 DEF LoopTop, Go, shared, seen
  <2> QED
    BY <1>1, <1>4, <2>1, RateMove, Zenon
<1>5. ASSUME NEW p \in Procs, Beat(p), script' = script PROVE RateInv'
  BY <1>1, <1>5, RateBeat
<1>6. CASE Clock /\ script' = script
  <2>1. pc' = pc /\ now' = now + 1 /\ UNCHANGED <<trades, ledger>>
    BY <1>6 DEF Clock, seen
  <2>2. AtStep("record")' = AtStep("record") /\ AtStep("trade")' = AtStep("trade")
    BY <1>2, <1>6, <2>1
  <2> QED
    BY <1>1, <2>1, <2>2, RateClock
<1>7. CASE (\E w \in Worths : Market(w)) /\ script' = script
  <2>1. pc' = pc /\ UNCHANGED <<now, trades, ledger>>
    BY <1>7 DEF Market, shared
  <2>2. AtStep("record")' = AtStep("record") /\ AtStep("trade")' \subseteq AtStep("trade")
    BY <1>2, <1>7, <2>1
  <2> QED
    BY <1>1, <2>1, <2>2, RateQuiet
<1>8. ASSUME scene = "crowd", NEW c \in Chats, ChatTick(c), script' = script PROVE RateInv'
  <2>1. pc[c] = "idle" /\ pc' = [pc EXCEPT ![c] = "begin"] /\ UNCHANGED <<now, trades, ledger>>
    BY <1>8 DEF ChatTick, Go, shared, seen
  <2>2. c \in Traders /\ c \in Procs
    BY <1>8 DEF Traders, Procs
  <2> QED
    BY <1>1, <1>8, <2>1, <2>2, RateMove, Zenon
<1>9. CASE scene = "crowd" /\ Script
  BY <1>1, <1>9, RateScript
<1> QED
  BY <1>3, <1>4, <1>5, <1>6, <1>7, <1>8, <1>9, QuietCases

(* However many processes trade beside each other and however slow any of  *)
(* them is between its check and its record, an hour holds at most n - 1   *)
(* trades more than the limit where n of them trade, and the loop alone    *)
(* keeps it exactly.  The window is read as the code reads it, so local    *)
(* time must not be ahead of UTC: where it is, old events are missed.      *)
THEOREM RateTheorem ==
  ASSUME Offset <= 0
  PROVE  TrailSpec => []RateBound
<1>1. TrailInit => QuietInv
  <2> SUFFICES ASSUME TrailInit PROVE QuietInv
    OBVIOUS
  <2> QED
    BY DEF TrailInit, Init, Off, QuietInv
<1>2. TrailInit => RateInv
  <2> SUFFICES ASSUME TrailInit PROVE RateInv
    OBVIOUS
  <2>1. trades = <<>> /\ now = 0 /\ script.at = "off" /\ pc = [p \in Procs |-> "idle"]
    BY DEF TrailInit, Init, Off
  <2>2. TrailTypeOK
    BY TrailInitType
  <2>3. AtStep("trade") = {}
    BY <2>1, CrewFacts DEF AtStep, StepOf
  <2>4. ASSUME NEW t
        PROVE  Cardinality(TradedSince(t))
                 <= Cardinality(LoggedSince(t)) + Cardinality(AtStep("record"))
    <3>1. TradedSince(t) = {}
      BY <2>1 DEF TradedSince
    <3>2. Cardinality(TradedSince(t)) = 0
      BY <3>1, FS_EmptySet
    <3>3. Cardinality(LoggedSince(t)) \in Nat
      BY <2>2, RateFacts, SinceFacts
    <3>4. Cardinality(AtStep("record")) \in Nat
      BY CrewSizes
    <3> QED
      BY <3>2, <3>3, <3>4
  <2> QED
    BY <2>1, <2>3, <2>4 DEF RateInv, RateBound
<1>3. TrailTypeOK /\ QuietInv /\ [TrailNext]_trailVars => QuietInv'
  BY QuietStep
<1>4. TrailTypeOK /\ TrailTypeOK' /\ QuietInv /\ RateInv /\ [TrailNext]_trailVars => RateInv'
  BY RateStep
<1>5. RateInv => RateBound
  BY DEF RateInv, RateBound
<1> QED
  BY <1>1, <1>2, <1>3, <1>4, <1>5, TrailTypeCorrect, PTL DEF TrailSpec
=============================================================================
