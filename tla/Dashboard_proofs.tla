-------------------------- MODULE Dashboard_proofs --------------------------
(***************************************************************************)
(* Proofs about the audit trail and the dashboard that shows it, for any   *)
(* number of writers, any decisions and every way an append can fail.  The *)
(* hash is expanded only to show that it has a type, and for the dashboard *)
(* that it tells how many receipts it commits to, and which one is last:   *)
(* no argument about the chain looks inside it.                            *)
(*                                                                         *)
(* The last part is about the container both run in (Deployment), for any  *)
(* environments, any number of deployments and restarts, and a kill after  *)
(* every command.                                                          *)
(***************************************************************************)
EXTENDS Dashboard, Deployment, SequenceTheorems, TLAPS

-----------------------------------------------------------------------------
(* Files of lines *)

(* Appending, whole or in part, makes a file. *)
LEMMA FileType ==
  ASSUME NEW S, NEW f \in Files(S), NEW x \in S, NEW kind
  PROVE  AppendLine(f, x) \in Files(S) /\ AppendPart(f, x, kind) \in Files(S)
<1>1. /\ f.lines \in Seq(S \cup {JUNK}) /\ f.ended \in BOOLEAN
      /\ f.lines = <<>> => f.ended
  BY DEF Files
<1>2. ASSUME NEW y \in S \cup {JUNK}, NEW e \in BOOLEAN
      PROVE  [lines |-> Append(f.lines, y), ended |-> e] \in Files(S)
  <2>1. Append(f.lines, y) \in Seq(S \cup {JUNK}) /\ Append(f.lines, y) # <<>>
    BY <1>1
  <2> QED
    BY <2>1 DEF Files
<1>3. ASSUME f.lines # <<>>, NEW e \in BOOLEAN PROVE Joined(f, e) \in Files(S)
  <2> DEFINE g == [f.lines EXCEPT ![Len(f.lines)] = JUNK]
  <2>0. Len(f.lines) \in 1 .. Len(f.lines)
    BY <1>1, <1>3
  <2>1. g \in Seq(S \cup {JUNK}) /\ Len(g) = Len(f.lines)
    BY <1>1, <2>0, ExceptSeq
  <2>2. g # <<>>
    BY <1>1, <1>3, <2>1
  <2> HIDE DEF g
  <2>3. [lines |-> g, ended |-> e] \in Files(S)
    BY <2>1, <2>2 DEF Files
  <2> QED
    BY <2>3 DEF Joined, g
<1> QED
  BY <1>1, <1>2, <1>3 DEF AppendLine, AppendPart

(* If the result can be read, the file could be read before, and the       *)
(* record is its new last line.                                            *)
LEMMA Readable ==
  ASSUME NEW S, NEW f \in Files(S), NEW x \in S, NEW g, NEW kind,
         g = AppendLine(f, x) \/ g = AppendPart(f, x, kind),
         Parses(g)
  PROVE  Parses(f) /\ g.lines = Append(f.lines, x)
<1>1. /\ f.lines \in Seq(S \cup {JUNK}) /\ f.ended \in BOOLEAN
      /\ f.lines = <<>> => f.ended
  BY DEF Files
<1>2. f.ended
  <2> SUFFICES ASSUME ~f.ended PROVE FALSE
    OBVIOUS
  <2>1. f.lines # <<>> /\ Len(f.lines) \in DOMAIN f.lines
    BY <1>1
  <2>2. g.lines = [f.lines EXCEPT ![Len(f.lines)] = JUNK]
    BY DEF AppendLine, AppendPart, Joined
  <2>3. Len(f.lines) \in DOMAIN g.lines /\ g.lines[Len(f.lines)] = JUNK
    BY <2>1, <2>2
  <2> QED
    BY <2>3 DEF Parses
<1>3. g.lines = Append(f.lines, x) \/ g.lines = Append(f.lines, JUNK)
  BY <1>2 DEF AppendLine, AppendPart
<1>4. g.lines # Append(f.lines, JUNK)
  <2> SUFFICES ASSUME g.lines = Append(f.lines, JUNK) PROVE FALSE
    OBVIOUS
  <2>1. Len(f.lines) + 1 \in DOMAIN g.lines /\ g.lines[Len(f.lines) + 1] = JUNK
    BY <1>1
  <2> QED
    BY <2>1 DEF Parses
<1>5. Parses(f)
  <2> SUFFICES ASSUME NEW i \in DOMAIN f.lines PROVE f.lines[i] # JUNK
    BY DEF Parses
  <2>1. i \in DOMAIN g.lines /\ g.lines[i] = f.lines[i]
    BY <1>1, <1>3, <1>4
  <2> QED
    BY <2>1 DEF Parses
<1> QED
  BY <1>3, <1>4, <1>5

(* The line after the last. *)
LEMMA AppendFacts ==
  ASSUME NEW S, NEW s \in Seq(S), NEW x \in S, NEW t, t = Append(s, x)
  PROVE  /\ t \in Seq(S) /\ Len(s) \in Nat /\ Len(t) = Len(s) + 1
         /\ DOMAIN s = 1 .. Len(s) /\ DOMAIN t = 1 .. Len(s) + 1
         /\ \A i \in DOMAIN s : t[i] = s[i]
         /\ t[Len(s) + 1] = x
OBVIOUS

(* The types of what append() makes. *)
LEMMA ReceiptType ==
  ASSUME TypeOK, Parses(receipts), NEW w \in Writers, NEW verdict \in Verdicts,
         NEW note \in Notes
  PROVE  LET r == MakeReceipt(w, ChainHead(receipts.lines), verdict, note)
         IN /\ r \in Receipts /\ r.hash = ComputeHash(r.prev_hash, Body(r))
            /\ r.prev_hash = ChainHead(receipts.lines).hash
            /\ r.seq = ChainHead(receipts.lines).seq
<1>1. receipts.lines \in Seq(Receipts \cup {JUNK})
  BY DEF TypeOK, Files
<1>2. ChainHead(receipts.lines).seq \in Nat /\ ChainHead(receipts.lines).hash \in Hashes
  <2>1. CASE receipts.lines = <<>>
    BY <2>1 DEF ChainHead, GENESIS, Hashes
  <2>2. CASE receipts.lines # <<>>
    <3>1. Len(receipts.lines) \in DOMAIN receipts.lines
      BY <1>1, <2>2
    <3>2. receipts.lines[Len(receipts.lines)] \in Receipts
      BY <1>1, <3>1 DEF Parses
    <3> QED
      BY <2>2, <3>2 DEF ChainHead, Receipts
  <2> QED
    BY <2>1, <2>2
<1> DEFINE h == ChainHead(receipts.lines)
           b == [seq |-> h.seq, policy_hash |-> Config[w], verdict |-> verdict,
                 note |-> note]
<1>3. h.seq \in Nat /\ h.hash \in Hashes
  BY <1>2
<1> HIDE DEF h
<1>4. b \in Bodies
  BY <1>3 DEF Bodies
<1>5. ComputeHash(h.hash, b) \in Hashes
  <2> HIDE DEF b
  <2> QED
    BY <1>3, <1>4 DEF ComputeHash, Hashes
<1>6. MakeReceipt(w, h, verdict, note) =
        [seq |-> h.seq, policy_hash |-> Config[w], verdict |-> verdict,
         note |-> note, prev_hash |-> h.hash, hash |-> ComputeHash(h.hash, b)]
  BY DEF MakeReceipt
<1>7. Body(MakeReceipt(w, h, verdict, note)) = b
  BY <1>6 DEF Body
<1>8. MakeReceipt(w, h, verdict, note) \in Receipts
  BY <1>3, <1>5, <1>6 DEF Receipts
<1> QED
  BY <1>6, <1>7, <1>8 DEF h

-----------------------------------------------------------------------------
(* The type invariant *)

(* A tick that is over leaves the types as they are. *)
LEMMA DoneType ==
  ASSUME TypeOK, NEW w \in Writers, Done(w)
  PROVE  /\ pc' \in [Writers -> Steps]
         /\ draft' \in [Writers -> Receipts \cup {NoDraft}]
         /\ \A v \in Writers :
              /\ pc'[v] = IF v = w THEN "idle" ELSE pc[v]
              /\ v # w => draft'[v] = draft[v]
BY DEF TypeOK, Done, Go, Steps

(* What a report consists of. *)
LEMMA ReportType ==
  ASSUME NEW recs, NEW execs PROVE VerifyLive(recs, execs) \in Reports
BY DEF VerifyLive, Reports, ChainOk, Bound

(* Who is there does not change, and those who write are writers. *)
LEMMA SceneStep ==
  ASSUME TypeOK, [Next]_vars
  PROVE  scene' = scene /\ scene.crew \subseteq Writers
BY TrailAssumption DEF TypeOK, Next, vars

(* Every step keeps the types. *)
LEMMA TypeStep == TypeOK /\ [Next]_vars => TypeOK'
<1> SUFFICES ASSUME TypeOK, [Next]_vars PROVE TypeOK'
  OBVIOUS
<1>a. scene' = scene /\ scene.crew \subseteq Writers
  BY SceneStep
<1> USE <1>a
<1>0. /\ receipts \in Files(Receipts) /\ executions \in Files(Records)
      /\ pc \in [Writers -> Steps] /\ draft \in [Writers -> Receipts \cup {NoDraft}]
      /\ orders \subseteq Hashes
  BY DEF TypeOK
<1>1. CASE UNCHANGED vars
  BY <1>1 DEF vars, TypeOK
<1>2. ASSUME NEW w \in Writers, NEW verdict \in Verdicts, NEW note \in Notes,
             Decide(w, verdict, note)
      PROVE  TypeOK'
  <2> DEFINE r == MakeReceipt(w, ChainHead(receipts.lines), verdict, note)
  <2>1. r \in Receipts /\ r.hash = ComputeHash(r.prev_hash, Body(r))
    BY <1>2, ReceiptType DEF Decide
  <2>2. draft' = [draft EXCEPT ![w] = r] /\ pc' = [pc EXCEPT ![w] = "append"]
    BY <1>2 DEF Decide, Go
  <2>3. UNCHANGED <<receipts, executions, orders, half, report, wiped>>
    BY <1>2 DEF Decide, verifier
  <2> HIDE DEF r
  <2>4. /\ draft' \in [Writers -> Receipts \cup {NoDraft}] /\ pc' \in [Writers -> Steps]
        /\ \A v \in Writers : v # w => draft'[v] = draft[v] /\ pc'[v] = pc[v]
        /\ draft'[w] = r
    BY <1>0, <2>1, <2>2 DEF Steps
  <2> QED
    BY <2>1, <2>3, <2>4 DEF TypeOK
<1>3. ASSUME NEW w \in Writers, AppendReceipt(w) PROVE TypeOK'
  <2>1. draft[w] \in Receipts
    BY <1>3 DEF AppendReceipt, TypeOK
  <2>2. receipts' \in Files(Receipts)
    BY <1>0, <1>3, <2>1, FileType DEF AppendReceipt
  <2>3. UNCHANGED <<executions, orders, half, report, wiped>>
    BY <1>3 DEF AppendReceipt, verifier
  <2>4. CASE Done(w)
    BY <2>2, <2>3, <2>4, DoneType DEF TypeOK
  <2>5. CASE Go(w, "execute") /\ UNCHANGED draft
    <3>1. /\ pc' \in [Writers -> Steps]
          /\ \A v \in Writers : v # w => pc'[v] = pc[v]
      BY <1>0, <2>5 DEF Go, Steps
    <3>2. pc[w] # "idle"
      BY <1>3 DEF AppendReceipt
    <3> QED
      BY <2>2, <2>3, <2>5, <3>1, <3>2 DEF TypeOK
  <2> QED
    BY <1>3, <2>4, <2>5 DEF AppendReceipt
<1>4. ASSUME NEW w \in Writers, NEW kind, TornAppend(w, kind) PROVE TypeOK'
  <2>1. draft[w] \in Receipts
    BY <1>4 DEF TornAppend, TypeOK
  <2>2. receipts' \in Files(Receipts)
    BY <1>0, <1>4, <2>1, FileType DEF TornAppend
  <2>3. Done(w) /\ UNCHANGED <<executions, orders, half, report, wiped>>
    BY <1>4 DEF TornAppend, verifier
  <2> QED
    BY <2>2, <2>3, DoneType DEF TypeOK
<1>5. ASSUME NEW w \in Writers, NEW accepted \in BOOLEAN, Execute(w, accepted) PROVE TypeOK'
  <2>1. pc[w] # "idle" /\ draft[w] \in Receipts
    BY <1>5 DEF Execute, TypeOK
  <2>2. draft[w].hash \in Hashes
    BY <2>1 DEF Receipts
  <2>3. orders' \subseteq Hashes
    BY <1>0, <1>5, <2>2 DEF Execute
  <2>4. pc' \in [Writers -> Steps] /\ \A v \in Writers : v # w => pc'[v] = pc[v]
    BY <1>0, <1>5 DEF Execute, Go, Steps
  <2>5. UNCHANGED <<receipts, executions, draft, half, report, wiped>>
    BY <1>5 DEF Execute, verifier
  <2> QED
    BY <2>1, <2>3, <2>4, <2>5 DEF TypeOK
<1>6. ASSUME NEW w \in Writers, NEW kind, Log(w) \/ TornLog(w, kind) PROVE TypeOK'
  <2>1. draft[w] \in Receipts
    BY <1>6 DEF Log, TornLog, TypeOK
  <2>2. ExecutionRecord(w) \in Records
    BY <2>1 DEF ExecutionRecord, Records, Receipts, ReceiptCid
  <2>3. executions' \in Files(Records)
    BY <1>0, <1>6, <2>2, FileType DEF Log, TornLog
  <2>4. Done(w) /\ UNCHANGED <<receipts, orders, half, report, wiped>>
    BY <1>6 DEF Log, TornLog, verifier
  <2> QED
    BY <2>3, <2>4, DoneType DEF TypeOK
<1>7. ASSUME NEW w \in Writers, Lose(w) PROVE TypeOK'
  <2>1. Done(w) /\ UNCHANGED <<receipts, executions, orders, half, report, wiped>>
    BY <1>7 DEF Lose, verifier
  <2> QED
    BY <2>1, DoneType DEF TypeOK
<1>8. CASE Reset
  <2>1. Empty \in Files(Receipts)
    BY DEF Empty, Files
  <2> QED
    BY <1>8, <2>1 DEF Reset, TypeOK, verifier
<1>9. CASE ReadReceipts
  <2>1. half' \in [recs : Seq(Receipts \cup {JUNK})]
    BY <1>9 DEF ReadReceipts, TypeOK, Files
  <2> QED
    BY <1>9, <2>1 DEF ReadReceipts, TypeOK
<1>10. CASE ReadExecutions
  <2>1. report' \in Reports \cup {NoReport}
    BY <1>10, ReportType DEF ReadExecutions
  <2> QED
    BY <1>10, <2>1 DEF ReadExecutions, TypeOK
<1> QED
  BY <1>1, <1>2, <1>3, <1>4, <1>5, <1>6, <1>7, <1>8, <1>9, <1>10 DEF Next, Tick

(* Both files stay files of whole records with at most a broken line, and  *)
(* a writer's receipt is complete, with its hash, before anything is done  *)
(* with it.                                                                *)
THEOREM TrailTypeCorrect == Spec => []TypeOK
<1>1. Init => TypeOK
  <2>1. Empty \in Files(Receipts) /\ Empty \in Files(Records)
    BY DEF Empty, Files
  <2> QED
    BY <2>1 DEF Init, TypeOK, Steps
<1> QED
  BY <1>1, TypeStep, PTL DEF Spec

-----------------------------------------------------------------------------
(* The steps, seen from the receipts *)

(* A step that writes a receipt leaves an unreadable file, or the receipt  *)
(* is its new last line.                                                   *)
LEMMA WriteStep ==
  ASSUME TypeOK, TypeOK', NEW w \in Writers, NEW kind,
         AppendReceipt(w) \/ TornAppend(w, kind), Parses(receipts')
  PROVE  /\ Parses(receipts) /\ pc[w] = "append" /\ draft[w] \in Receipts
         /\ draft[w].hash = ComputeHash(draft[w].prev_hash, Body(draft[w]))
         /\ receipts'.lines = Append(receipts.lines, draft[w])
         /\ receipts.lines \in Seq(Receipts \cup {JUNK})
         /\ \A v \in Writers \ {w} : pc'[v] = pc[v] /\ draft'[v] = draft[v]
         /\ pc'[w] # "append"
         /\ pc'[w] \in {"execute", "log"} => draft'[w] = draft[w] /\ draft[w].verdict \in Allowed
<1>1. /\ receipts \in Files(Receipts) /\ receipts.lines \in Seq(Receipts \cup {JUNK})
      /\ pc \in [Writers -> Steps] /\ draft \in [Writers -> Receipts \cup {NoDraft}]
  BY DEF TypeOK, Files
<1>2. pc[w] = "append"
  BY DEF AppendReceipt, TornAppend
<1>3. /\ draft[w] \in Receipts
      /\ draft[w].hash = ComputeHash(draft[w].prev_hash, Body(draft[w]))
  BY <1>2 DEF TypeOK
<1>4. receipts' = AppendLine(receipts, draft[w]) \/ receipts' = AppendPart(receipts, draft[w], kind)
  BY DEF AppendReceipt, TornAppend
<1>5. Parses(receipts) /\ receipts'.lines = Append(receipts.lines, draft[w])
  <2>1. \A f \in Files(Receipts), x \in Receipts : \A g :
          (g = AppendLine(f, x) \/ g = AppendPart(f, x, kind)) /\ Parses(g) =>
            Parses(f) /\ g.lines = Append(f.lines, x)
    <3> TAKE f \in Files(Receipts), x \in Receipts
    <3> TAKE g
    <3> HAVE (g = AppendLine(f, x) \/ g = AppendPart(f, x, kind)) /\ Parses(g)
    <3> QED
      BY Readable
  <2> QED
    BY <1>1, <1>3, <1>4, <2>1, Zenon
<1>6. \/ Done(w)
      \/ draft[w].verdict \in Allowed /\ Go(w, "execute") /\ UNCHANGED draft
  BY DEF AppendReceipt, TornAppend
<1>7. CASE Done(w)
  <2>1. /\ \A v \in Writers \ {w} : pc'[v] = pc[v] /\ draft'[v] = draft[v]
        /\ pc'[w] = "idle"
    BY <1>1, <1>7 DEF Done, Go
  <2> QED
    BY <1>1, <1>2, <1>3, <1>5, <2>1
<1>8. CASE draft[w].verdict \in Allowed /\ Go(w, "execute") /\ UNCHANGED draft
  <2>1. /\ \A v \in Writers \ {w} : pc'[v] = pc[v] /\ draft'[v] = draft[v]
        /\ pc'[w] = "execute" /\ draft'[w] = draft[w]
    BY <1>1, <1>8 DEF Go
  <2> QED
    BY <1>1, <1>2, <1>3, <1>5, <1>8, <2>1
<1> QED
  BY <1>6, <1>7, <1>8

(* A step that is neither a decision, nor a write, nor a deletion leaves   *)
(* the receipts alone and nobody starts to append.                         *)
LEMMA OtherStep ==
  ASSUME TypeOK, [Next]_vars,
         ~\E w \in Writers, verdict \in Verdicts, note \in Notes : Decide(w, verdict, note),
         ~\E w \in Writers : AppendReceipt(w) \/ \E kind \in Torn : TornAppend(w, kind),
         ~Reset
  PROVE  /\ receipts' = receipts /\ wiped' = wiped
         /\ \A w \in Writers : pc'[w] = "append" => pc[w] = "append" /\ draft'[w] = draft[w]
         /\ \A w \in Writers : pc'[w] \in {"execute", "log"} =>
                                 pc[w] \in {"execute", "log"} /\ draft'[w] = draft[w]
<1>0. pc \in [Writers -> Steps] /\ draft \in [Writers -> Receipts \cup {NoDraft}]
  BY DEF TypeOK
<1>1. CASE UNCHANGED vars
  BY <1>1 DEF vars
<1>2. CASE ReadReceipts \/ ReadExecutions
  BY <1>2 DEF ReadReceipts, ReadExecutions
<1>3. ASSUME NEW w \in Writers, NEW accepted \in BOOLEAN, Execute(w, accepted)
      PROVE  /\ receipts' = receipts /\ wiped' = wiped /\ draft' = draft
             /\ pc[w] = "execute" /\ pc' = [pc EXCEPT ![w] = "log"]
  BY <1>3 DEF Execute, Go
<1>4. ASSUME NEW w \in Writers,
             Log(w) \/ Lose(w) \/ \E kind \in Torn : TornLog(w, kind)
      PROVE  /\ receipts' = receipts /\ wiped' = wiped
             /\ pc' = [pc EXCEPT ![w] = "idle"]
             /\ draft' = [draft EXCEPT ![w] = NoDraft]
  BY <1>4 DEF Log, Lose, TornLog, Done, Go
<1>5. CASE \E w \in Writers : \E accepted \in BOOLEAN : Execute(w, accepted)
  BY <1>0, <1>3, <1>5
<1>6. CASE \E w \in Writers : Log(w) \/ Lose(w) \/ \E kind \in Torn : TornLog(w, kind)
  BY <1>0, <1>4, <1>6
<1> QED
  BY <1>1, <1>2, <1>5, <1>6, SceneStep DEF Next, Tick

(* What a decision puts into a writer's hand. *)
LEMMA DecideStep ==
  ASSUME TypeOK, NEW w \in Writers, NEW verdict \in Verdicts, NEW note \in Notes,
         Decide(w, verdict, note)
  PROVE  /\ UNCHANGED <<receipts, executions, orders, half, report, wiped>>
         /\ pc[w] = "idle" /\ pc'[w] = "append"
         /\ draft'[w].prev_hash = ChainHead(receipts.lines).hash
         /\ draft'[w].seq = ChainHead(receipts.lines).seq
         /\ \A v \in Writers \ {w} : pc'[v] = pc[v] /\ draft'[v] = draft[v]
<1>1. pc \in [Writers -> Steps] /\ draft \in [Writers -> Receipts \cup {NoDraft}]
  BY DEF TypeOK
<1> DEFINE r == MakeReceipt(w, ChainHead(receipts.lines), verdict, note)
<1>2. r.prev_hash = ChainHead(receipts.lines).hash /\ r.seq = ChainHead(receipts.lines).seq
  BY ReceiptType DEF Decide
<1>3. draft' = [draft EXCEPT ![w] = r] /\ pc' = [pc EXCEPT ![w] = "append"] /\ pc[w] = "idle"
  BY DEF Decide, Go
<1>4. UNCHANGED <<receipts, executions, orders, half, report, wiped>>
  BY DEF Decide, verifier
<1> HIDE DEF r
<1> QED
  BY <1>1, <1>2, <1>3, <1>4

-----------------------------------------------------------------------------
(* The tree of receipts *)

(* Every step keeps the tree. *)
LEMMA RootStep == TypeOK /\ TypeOK' /\ RootInv /\ [Next]_vars => RootInv'
<1> SUFFICES ASSUME TypeOK, TypeOK', RootInv, [Next]_vars,
                    wiped' # "caught", Parses(receipts')
             PROVE  /\ Tree(receipts'.lines)
                    /\ \A w \in Writers :
                         pc'[w] = "append" =>
                            HasRoot(receipts'.lines, draft'[w], Len(receipts'.lines))
  BY Zenon DEF RootInv, Rooted
<1> DEFINE L == receipts.lines
           M == receipts'.lines
<1>0. L \in Seq(Receipts \cup {JUNK})
  BY DEF TypeOK, Files
<1>1. CASE \E w \in Writers, verdict \in Verdicts, note \in Notes : Decide(w, verdict, note)
  <2>1. PICK w \in Writers, verdict \in Verdicts, note \in Notes : Decide(w, verdict, note)
    BY <1>1
  <2>2. /\ UNCHANGED <<receipts, wiped>> /\ pc'[w] = "append"
        /\ draft'[w].prev_hash = ChainHead(L).hash /\ draft'[w].seq = ChainHead(L).seq
        /\ \A v \in Writers \ {w} : pc'[v] = pc[v] /\ draft'[v] = draft[v]
    BY <2>1, DecideStep
  <2>3. HasRoot(L, draft'[w], Len(L))
    <3>1. CASE L = <<>>
      BY <2>2, <3>1 DEF ChainHead, HasRoot
    <3>2. CASE L # <<>>
      <4>1. Len(L) \in 1 .. Len(L)
        BY <1>0, <3>2
      <4>2. ChainHead(L).hash = L[Len(L)].hash /\ ChainHead(L).seq = L[Len(L)].seq + 1
        BY <3>2 DEF ChainHead
      <4> QED
        BY <2>2, <4>1, <4>2 DEF HasRoot
    <3> QED
      BY <3>1, <3>2
  <2>4. Tree(L) /\ \A v \in Writers : pc[v] = "append" => HasRoot(L, draft[v], Len(L))
    BY <2>2 DEF RootInv, Rooted
  <2>5. \A v \in Writers : pc'[v] = "append" => HasRoot(L, draft'[v], Len(L))
    BY <2>2, <2>3, <2>4
  <2> QED
    BY <2>2, <2>4, <2>5
<1>2. CASE \E w \in Writers : AppendReceipt(w) \/ \E kind \in Torn : TornAppend(w, kind)
  <2>1. PICK w \in Writers : AppendReceipt(w) \/ \E kind \in Torn : TornAppend(w, kind)
    BY <1>2
  <2>2. /\ Parses(receipts) /\ pc[w] = "append" /\ draft[w] \in Receipts
        /\ draft[w].hash = ComputeHash(draft[w].prev_hash, Body(draft[w]))
        /\ M = Append(L, draft[w])
        /\ \A v \in Writers \ {w} : pc'[v] = pc[v] /\ draft'[v] = draft[v]
        /\ pc'[w] # "append"
    BY <2>1, WriteStep
  <2>3. wiped' = wiped
    BY <2>1 DEF AppendReceipt, TornAppend
  <2>4. /\ Tree(L)
        /\ \A v \in Writers : pc[v] = "append" => HasRoot(L, draft[v], Len(L))
    BY <2>2, <2>3 DEF RootInv, Rooted
  <2> HIDE DEF L, M
  <2>5. /\ Len(L) \in Nat /\ Len(M) = Len(L) + 1 /\ DOMAIN L = 1 .. Len(L)
        /\ DOMAIN M = 1 .. Len(L) + 1
        /\ \A i \in DOMAIN L : M[i] = L[i]
        /\ M[Len(L) + 1] = draft[w]
    BY <1>0, <2>2, AppendFacts
  <2>6. ASSUME NEW r, NEW n \in 0 .. Len(L), NEW m \in n .. Len(L) + 1, HasRoot(L, r, n)
        PROVE  HasRoot(M, r, m)
    BY <2>5, <2>6 DEF HasRoot
  <2>7. Tree(M)
    <3> SUFFICES ASSUME NEW i \in DOMAIN M
                 PROVE  /\ M[i].hash = ComputeHash(M[i].prev_hash, Body(M[i]))
                        /\ HasRoot(M, M[i], i - 1)
      BY DEF Tree
    <3>1. CASE i \in DOMAIN L
      <4>1. i - 1 \in 0 .. Len(L) /\ i - 1 \in (i - 1) .. Len(L) + 1 /\ M[i] = L[i]
        BY <2>5, <3>1
      <4>2. HasRoot(L, L[i], i - 1) /\ L[i].hash = ComputeHash(L[i].prev_hash, Body(L[i]))
        BY <2>4, <3>1 DEF Tree
      <4> QED
        BY <2>6, <4>1, <4>2
    <3>2. CASE i = Len(L) + 1
      <4>1. Len(L) \in 0 .. Len(L) /\ Len(L) \in Len(L) .. Len(L) + 1 /\ i - 1 = Len(L)
        BY <2>5, <3>2
      <4>2. HasRoot(L, draft[w], Len(L)) /\ M[i] = draft[w]
        BY <2>2, <2>4, <2>5, <3>2
      <4> QED
        BY <2>2, <2>6, <4>1, <4>2
    <3> QED
      BY <2>5, <3>1, <3>2
  <2>8. ASSUME NEW v \in Writers, pc'[v] = "append" PROVE HasRoot(M, draft'[v], Len(M))
    <3>1. v # w /\ pc[v] = "append" /\ draft'[v] = draft[v]
      BY <2>2, <2>8
    <3>2. Len(L) \in 0 .. Len(L) /\ Len(M) \in Len(L) .. Len(L) + 1
      BY <2>5
    <3> QED
      BY <2>4, <2>6, <3>1, <3>2
  <2> QED
    BY <2>7, <2>8 DEF M
<1>3. CASE Reset
  <2>1. receipts' = Empty /\ pc' = pc /\ \A w \in Writers : pc[w] # "append"
    BY <1>3 DEF Reset
  <2> QED
    BY <2>1 DEF Empty, Tree
<1>4. CASE ~(\/ \E w \in Writers, verdict \in Verdicts, note \in Notes : Decide(w, verdict, note)
             \/ \E w \in Writers : AppendReceipt(w) \/ \E kind \in Torn : TornAppend(w, kind)
             \/ Reset)
  <2>1. /\ receipts' = receipts /\ wiped' = wiped
        /\ \A w \in Writers : pc'[w] = "append" => pc[w] = "append" /\ draft'[w] = draft[w]
    BY <1>4, OtherStep
  <2>2. Tree(L) /\ \A v \in Writers : pc[v] = "append" => HasRoot(L, draft[v], Len(L))
    BY <2>1 DEF RootInv, Rooted
  <2> QED
    BY <2>1, <2>2
<1> QED
  BY <1>1, <1>2, <1>3, <1>4

(* For any number of writers, whenever receipts.jsonl can be read it is a  *)
(* tree of receipts, each sealed over its own body: without a lock around  *)
(* append the chain may fork, and nothing worse.                           *)
THEOREM RootedTheorem == Spec => []Rooted
<1>1. Init => RootInv
  BY DEF Init, Empty, RootInv, Rooted, Tree
<1>2. RootInv => Rooted
  BY DEF RootInv
<1>3. TypeOK /\ TypeOK' /\ RootInv /\ [Next]_vars => RootInv'
  BY RootStep
<1>4. Spec => []TypeOK
  BY TrailTypeCorrect
<1> QED
  BY <1>1, <1>2, <1>3, <1>4, PTL DEF Spec

-----------------------------------------------------------------------------
(* The chain of a single writer *)

(* A chain stays one when a sealed receipt that names its head is added. *)
LEMMA ChainGrows ==
  ASSUME NEW L \in Seq(Receipts \cup {JUNK}), NEW r \in Receipts, ChainOk(L),
         r.prev_hash = ChainHead(L).hash, r.hash = ComputeHash(r.prev_hash, Body(r))
  PROVE  ChainOk(Append(L, r))
<1> DEFINE M == Append(L, r)
<1>1. /\ Len(L) \in Nat /\ DOMAIN L = 1 .. Len(L) /\ DOMAIN M = 1 .. Len(L) + 1
      /\ \A i \in DOMAIN L : M[i] = L[i]
      /\ M[Len(L) + 1] = r
  OBVIOUS
<1> HIDE DEF M
<1>2. ASSUME NEW i \in DOMAIN L PROVE Linked(M, i)
  <2>1. Linked(L, i) /\ M[i] = L[i] /\ i \in Nat /\ i >= 1
    BY <1>1 DEF ChainOk
  <2>2. PrevHash(M, i) = PrevHash(L, i)
    <3>1. CASE i = 1
      BY <3>1 DEF PrevHash
    <3>2. CASE i # 1
      <4>1. i - 1 \in DOMAIN L
        BY <1>1, <2>1, <3>2
      <4> QED
        BY <1>1, <3>2, <4>1 DEF PrevHash
    <3> QED
      BY <3>1, <3>2
  <2> QED
    BY <2>1, <2>2 DEF Linked
<1>3. Linked(M, Len(L) + 1)
  <2>1. PrevHash(M, Len(L) + 1) = ChainHead(L).hash
    <3>1. CASE L = <<>>
      BY <1>1, <3>1 DEF PrevHash, ChainHead
    <3>2. CASE L # <<>>
      <4>1. Len(L) \in DOMAIN L /\ Len(L) + 1 # 1 /\ Len(L) + 1 - 1 = Len(L)
        BY <1>1, <3>2
      <4>2. PrevHash(M, Len(L) + 1) = L[Len(L)].hash
        BY <1>1, <4>1 DEF PrevHash
      <4> QED
        BY <3>2, <4>2 DEF ChainHead
    <3> QED
      BY <3>1, <3>2
  <2> QED
    BY <1>1, <2>1 DEF Linked
<1>4. ChainOk(M)
  BY <1>1, <1>2, <1>3 DEF ChainOk
<1> QED
  BY <1>4 DEF M

(* Only a process that is there has a step to take. *)
LEMMA CrewStep == TypeOK /\ CrewInv /\ [Next]_vars => CrewInv'
<1> SUFFICES ASSUME TypeOK, CrewInv, [Next]_vars PROVE CrewInv'
  OBVIOUS
<1>1. scene' = scene /\ scene.crew \subseteq Writers /\ pc \in [Writers -> Steps]
  BY SceneStep DEF TypeOK
<1>2. ASSUME NEW w \in scene.crew, Tick(w)
      PROVE  \A v \in Writers : v # w => pc'[v] = pc[v]
  BY <1>1, <1>2 DEF Tick, Decide, AppendReceipt, TornAppend, Execute, Log, TornLog, Lose,
                    Done, Go
<1>3. CASE \E w \in scene.crew : Tick(w)
  BY <1>1, <1>2, <1>3 DEF CrewInv
<1>4. CASE ~\E w \in scene.crew : Tick(w)
  <2>1. pc' = pc
    BY <1>4 DEF Next, vars, Reset, ReadReceipts, ReadExecutions
  <2> QED
    BY <1>1, <2>1 DEF CrewInv
<1> QED
  BY <1>3, <1>4

(* Every step keeps the chain, and what the verifier has read of it. *)
LEMMA ChainStep ==
  TypeOK /\ TypeOK' /\ CrewInv /\ CrewInv' /\ ChainInv /\ [Next]_vars => ChainInv'
<1>a. ASSUME TypeOK, [Next]_vars PROVE OneWriter' <=> OneWriter
  BY <1>a, SceneStep DEF OneWriter
<1> SUFFICES ASSUME TypeOK, TypeOK', CrewInv, CrewInv', ChainInv, [Next]_vars, OneWriter,
                    wiped' # "caught"
             PROVE  /\ Parses(receipts') =>
                         /\ ChainOk(receipts'.lines)
                         /\ \A w \in Writers :
                              pc'[w] = "append" =>
                                 draft'[w].prev_hash = ChainHead(receipts'.lines).hash
                    /\ half' # NotReading => ChainOk(half'.recs)
                    /\ report' # NoReport => report'.chain_intact
  BY <1>a, Zenon DEF ChainInv
<1>b. scene' = scene
  BY SceneStep
<1> DEFINE L == receipts.lines
<1>0. L \in Seq(Receipts \cup {JUNK})
  BY DEF TypeOK, Files
<1>1. wiped # "caught"
  BY DEF Next, Tick, Decide, AppendReceipt, TornAppend, Execute, Log, TornLog, Lose, Reset,
         ReadReceipts, ReadExecutions, vars
<1>2. /\ Parses(receipts) =>
           /\ ChainOk(L)
           /\ \A w \in Writers : pc[w] = "append" => draft[w].prev_hash = ChainHead(L).hash
      /\ half # NotReading => ChainOk(half.recs)
      /\ report # NoReport => report.chain_intact
  BY <1>1 DEF ChainInv
<1>3. CASE \E w \in Writers, verdict \in Verdicts, note \in Notes : Decide(w, verdict, note)
  <2>1. PICK w \in Writers, verdict \in Verdicts, note \in Notes : Decide(w, verdict, note)
    BY <1>3
  <2>2. /\ UNCHANGED <<receipts, half, report>>
        /\ draft'[w].prev_hash = ChainHead(L).hash
        /\ pc'[w] # "idle"
    BY <2>1, DecideStep
  <2>3. \A v \in Writers : pc'[v] = "append" => v = w
    BY <1>b, <2>2 DEF OneWriter, CrewInv
  <2> QED
    BY <1>2, <2>2, <2>3
<1>4. CASE \E w \in Writers : AppendReceipt(w) \/ \E kind \in Torn : TornAppend(w, kind)
  <2>1. PICK w \in Writers : AppendReceipt(w) \/ \E kind \in Torn : TornAppend(w, kind)
    BY <1>4
  <2>2. half' = half /\ report' = report
    BY <2>1 DEF AppendReceipt, TornAppend, verifier
  <2>3. ASSUME Parses(receipts')
        PROVE  /\ ChainOk(receipts'.lines)
               /\ \A v \in Writers : pc'[v] # "append"
    <3>1. /\ Parses(receipts) /\ pc[w] = "append" /\ draft[w] \in Receipts
          /\ draft[w].hash = ComputeHash(draft[w].prev_hash, Body(draft[w]))
          /\ receipts'.lines = Append(L, draft[w])
          /\ pc'[w] # "append"
      BY <2>1, <2>3, WriteStep
    <3>2. ChainOk(L) /\ draft[w].prev_hash = ChainHead(L).hash
      BY <1>2, <3>1
    <3>3. ChainOk(Append(L, draft[w]))
      BY <1>0, <3>1, <3>2, ChainGrows
    <3>4. \A v \in Writers : pc'[v] = "append" => v = w
      BY <1>b, <3>1 DEF OneWriter, CrewInv
    <3> QED
      BY <3>1, <3>3, <3>4
  <2> QED
    BY <1>2, <2>2, <2>3
<1>5. CASE Reset
  <2>1. /\ receipts' = Empty /\ half' = half /\ report' = report /\ pc' = pc
        /\ \A w \in Writers : pc[w] # "append"
    BY <1>5 DEF Reset, verifier
  <2> QED
    BY <1>2, <2>1 DEF Empty, ChainOk
<1>6. CASE ~(\/ \E w \in Writers, verdict \in Verdicts, note \in Notes : Decide(w, verdict, note)
             \/ \E w \in Writers : AppendReceipt(w) \/ \E kind \in Torn : TornAppend(w, kind)
             \/ Reset)
  <2>1. /\ receipts' = receipts
        /\ \A w \in Writers : pc'[w] = "append" => pc[w] = "append" /\ draft'[w] = draft[w]
    BY <1>6, OtherStep
  <2>2. CASE ReadReceipts
    <3>1. /\ Parses(receipts) /\ half' = [recs |-> L] /\ report' = report
      BY <2>2 DEF ReadReceipts
    <3> QED
      BY <1>2, <2>1, <3>1
  <2>3. CASE ReadExecutions
    <3>1. /\ half # NotReading /\ half' = NotReading
          /\ report' = NoReport \/ report' = VerifyLive(half.recs, executions.lines)
      BY <2>3 DEF ReadExecutions
    <3>2. VerifyLive(half.recs, executions.lines).chain_intact
      BY <1>2, <3>1 DEF VerifyLive
    <3> QED
      BY <1>2, <2>1, <3>1, <3>2
  <2>4. CASE ~ReadReceipts /\ ~ReadExecutions
    <3>1. half' = half /\ report' = report
      BY <1>6, <2>4, SceneStep DEF Next, Tick, Execute, Log, TornLog, Lose, verifier, vars
    <3> QED
      BY <1>2, <2>1, <3>1
  <2> QED
    BY <2>2, <2>3, <2>4
<1> QED
  BY <1>3, <1>4, <1>5, <1>6

(* A single writer's chain verifies after any sequence of crashes and torn *)
(* writes that leaves it readable ...                                      *)
THEOREM ChainTheorem == Spec => []ChainIntact
<1>1. Init => ChainInv
  BY DEF Init, Empty, ChainInv, ChainOk
<1>2. ChainInv => ChainIntact
  BY DEF ChainInv, ChainIntact
<1>3. TypeOK /\ TypeOK' /\ CrewInv /\ CrewInv' /\ ChainInv /\ [Next]_vars => ChainInv'
  BY ChainStep
<1>4. Spec => []TypeOK
  BY TrailTypeCorrect
<1>5. Init => CrewInv
  BY DEF Init, CrewInv
<1> QED
  BY <1>1, <1>2, <1>3, <1>4, <1>5, CrewStep, PTL DEF Spec

(* ... and no verifier that runs beside it says otherwise.                 *)
THEOREM AlarmTheorem == Spec => []NoFalseAlarm
<1>1. Init => ChainInv
  BY DEF Init, Empty, ChainInv, ChainOk
<1>2. ChainInv => NoFalseAlarm
  BY DEF ChainInv, NoFalseAlarm
<1>3. TypeOK /\ TypeOK' /\ CrewInv /\ CrewInv' /\ ChainInv /\ [Next]_vars => ChainInv'
  BY ChainStep
<1>4. Spec => []TypeOK
  BY TrailTypeCorrect
<1>5. Init => CrewInv
  BY DEF Init, CrewInv
<1> QED
  BY <1>1, <1>2, <1>3, <1>4, <1>5, CrewStep, PTL DEF Spec

-----------------------------------------------------------------------------
(* Orders and their receipts *)

(* A backed hash stays backed when the file grows. *)
LEMMA BackedGrows ==
  ASSUME NEW L \in Seq(Receipts \cup {JUNK}), NEW r \in Receipts, NEW hash
  PROVE  /\ Backed(L, hash) => Backed(Append(L, r), hash)
         /\ r.verdict \in Allowed => Backed(Append(L, r), r.hash)
<1> DEFINE M == Append(L, r)
<1>1. /\ Len(L) + 1 \in DOMAIN M /\ M[Len(L) + 1] = r
      /\ \A i \in DOMAIN L : i \in DOMAIN M /\ M[i] = L[i]
  OBVIOUS
<1> HIDE DEF M
<1>2. /\ Backed(L, hash) => Backed(M, hash)
      /\ r.verdict \in Allowed => Backed(M, r.hash)
  BY <1>1 DEF Backed
<1> QED
  BY <1>2 DEF M

BoundLine(lines, e) ==
    e # JUNK => e.cid = ReceiptCid(e.receipt_hash) /\ Backed(lines, e.receipt_hash)

(* A line of a file that was appended to is an old one, not readable, or   *)
(* the record.                                                             *)
LEMMA LogLines ==
  ASSUME NEW S, NEW f \in Files(S), NEW x \in S, NEW kind, NEW g,
         g = AppendLine(f, x) \/ g = AppendPart(f, x, kind),
         NEW i \in DOMAIN g.lines
  PROVE  \/ g.lines[i] = JUNK \/ g.lines[i] = x
         \/ i \in DOMAIN f.lines /\ g.lines[i] = f.lines[i]
<1>1. f.lines \in Seq(S \cup {JUNK}) /\ f.ended \in BOOLEAN
  BY DEF Files
<1>2. \/ g.lines = [f.lines EXCEPT ![Len(f.lines)] = JUNK]
      \/ g.lines = Append(f.lines, x) \/ g.lines = Append(f.lines, JUNK)
  BY DEF AppendLine, AppendPart, Joined
<1>3. CASE g.lines = [f.lines EXCEPT ![Len(f.lines)] = JUNK]
  BY <1>1, <1>3
<1>4. CASE g.lines = Append(f.lines, x)
  BY <1>1, <1>4
<1>5. CASE g.lines = Append(f.lines, JUNK)
  BY <1>1, <1>5
<1> QED
  BY <1>2, <1>3, <1>4, <1>5

(* Every step keeps orders and records bound to receipts. *)
LEMMA OrderStep == TypeOK /\ TypeOK' /\ OrderInv /\ [Next]_vars => OrderInv'
<1> SUFFICES ASSUME TypeOK, TypeOK', OrderInv, [Next]_vars, wiped' = "no", Parses(receipts')
             PROVE  /\ \A hash \in orders' : Backed(receipts'.lines, hash)
                    /\ \A w \in Writers :
                         pc'[w] \in {"execute", "log"} =>
                            Backed(receipts'.lines, draft'[w].hash)
                    /\ \A i \in DOMAIN executions'.lines :
                         BoundLine(receipts'.lines, executions'.lines[i])
  BY Zenon DEF OrderInv, BoundLine
<1> DEFINE L == receipts.lines
<1>0. L \in Seq(Receipts \cup {JUNK})
  BY DEF TypeOK, Files
<1>1. wiped = "no" /\ ~Reset
  BY DEF Next, Tick, Decide, AppendReceipt, TornAppend, Execute, Log, TornLog, Lose, Reset,
         ReadReceipts, ReadExecutions, vars
<1>2. Parses(receipts) =>
        /\ \A hash \in orders : Backed(L, hash)
        /\ \A w \in Writers : pc[w] \in {"execute", "log"} => Backed(L, draft[w].hash)
        /\ \A i \in DOMAIN executions.lines : BoundLine(L, executions.lines[i])
  BY <1>1 DEF OrderInv, BoundLine
<1>3. CASE \E w \in Writers, verdict \in Verdicts, note \in Notes : Decide(w, verdict, note)
  <2>1. PICK w \in Writers, verdict \in Verdicts, note \in Notes : Decide(w, verdict, note)
    BY <1>3
  <2>2. /\ UNCHANGED <<receipts, executions, orders>> /\ pc'[w] = "append"
        /\ \A v \in Writers \ {w} : pc'[v] = pc[v] /\ draft'[v] = draft[v]
    BY <2>1, DecideStep
  <2> QED
    BY <1>2, <2>2
<1>4. CASE \E w \in Writers : AppendReceipt(w) \/ \E kind \in Torn : TornAppend(w, kind)
  <2>1. PICK w \in Writers : AppendReceipt(w) \/ \E kind \in Torn : TornAppend(w, kind)
    BY <1>4
  <2>2. /\ Parses(receipts) /\ draft[w] \in Receipts
        /\ receipts'.lines = Append(L, draft[w])
        /\ \A v \in Writers \ {w} : pc'[v] = pc[v] /\ draft'[v] = draft[v]
        /\ pc'[w] \in {"execute", "log"} => draft'[w] = draft[w] /\ draft[w].verdict \in Allowed
    BY <2>1, WriteStep
  <2>3. UNCHANGED <<executions, orders>>
    BY <2>1 DEF AppendReceipt, TornAppend
  <2> DEFINE M == Append(L, draft[w])
  <2>4. /\ \A hash : Backed(L, hash) => Backed(M, hash)
        /\ draft[w].verdict \in Allowed => Backed(M, draft[w].hash)
    BY <1>0, <2>2, BackedGrows
  <2> HIDE DEF M
  <2>5. /\ \A hash \in orders' : Backed(M, hash)
        /\ \A i \in DOMAIN executions'.lines : BoundLine(M, executions'.lines[i])
    BY <1>2, <2>2, <2>3, <2>4 DEF BoundLine
  <2>6. \A v \in Writers : pc'[v] \in {"execute", "log"} => Backed(M, draft'[v].hash)
    BY <1>2, <2>2, <2>4
  <2> QED
    BY <2>2, <2>5, <2>6 DEF M
<1>5. CASE ~(\/ \E w \in Writers, verdict \in Verdicts, note \in Notes : Decide(w, verdict, note)
             \/ \E w \in Writers : AppendReceipt(w) \/ \E kind \in Torn : TornAppend(w, kind))
  <2>1. /\ receipts' = receipts
        /\ \A w \in Writers : pc'[w] \in {"execute", "log"} =>
                                pc[w] \in {"execute", "log"} /\ draft'[w] = draft[w]
    BY <1>1, <1>5, OtherStep
  <2>2. /\ \A hash \in orders : Backed(L, hash)
        /\ \A w \in Writers : pc[w] \in {"execute", "log"} => Backed(L, draft[w].hash)
        /\ \A i \in DOMAIN executions.lines : BoundLine(L, executions.lines[i])
    BY <1>2, <2>1
  <2>3. \A w \in Writers : pc'[w] \in {"execute", "log"} => Backed(L, draft'[w].hash)
    BY <2>1, <2>2
  <2>4. CASE \E w \in Writers : \E accepted \in BOOLEAN : Execute(w, accepted)
    <3>1. PICK w \in Writers : \E accepted \in BOOLEAN : Execute(w, accepted)
      BY <2>4
    <3>2. /\ pc[w] = "execute" /\ executions' = executions
          /\ orders' \subseteq orders \cup {draft[w].hash}
      BY <3>1 DEF Execute
    <3> QED
      BY <2>1, <2>2, <2>3, <3>2
  <2>5. CASE \E w \in Writers : Log(w) \/ \E kind \in Torn : TornLog(w, kind)
    <3>1. PICK w \in Writers : Log(w) \/ \E kind \in Torn : TornLog(w, kind)
      BY <2>5
    <3>2. PICK kind : \/ executions' = AppendLine(executions, ExecutionRecord(w))
                      \/ executions' = AppendPart(executions, ExecutionRecord(w), kind)
      BY <3>1 DEF Log, TornLog
    <3>3. pc[w] = "log" /\ orders' = orders
      BY <3>1 DEF Log, TornLog
    <3>4. draft[w] \in Receipts /\ Backed(L, draft[w].hash) /\ executions \in Files(Records)
      BY <2>2, <3>3 DEF TypeOK
    <3>5. ExecutionRecord(w) \in Records /\ BoundLine(L, ExecutionRecord(w))
      BY <3>4 DEF ExecutionRecord, Records, Receipts, ReceiptCid, BoundLine
    <3>6. BoundLine(L, JUNK)
      BY DEF BoundLine
    <3>7. \A f \in Files(Records), x \in Records : \A g :
            g = AppendLine(f, x) \/ g = AppendPart(f, x, kind) =>
              \A i \in DOMAIN g.lines :
                \/ g.lines[i] = JUNK \/ g.lines[i] = x
                \/ i \in DOMAIN f.lines /\ g.lines[i] = f.lines[i]
      <4> TAKE f \in Files(Records), x \in Records
      <4> TAKE g
      <4> HAVE g = AppendLine(f, x) \/ g = AppendPart(f, x, kind)
      <4> TAKE i \in DOMAIN g.lines
      <4> QED
        BY LogLines
    <3>8. \A i \in DOMAIN executions'.lines :
             \/ executions'.lines[i] = JUNK \/ executions'.lines[i] = ExecutionRecord(w)
             \/ i \in DOMAIN executions.lines /\ executions'.lines[i] = executions.lines[i]
      BY <3>2, <3>4, <3>5, <3>7, Zenon
    <3>9. \A i \in DOMAIN executions'.lines : BoundLine(L, executions'.lines[i])
      BY <2>2, <3>5, <3>6, <3>8, Zenon
    <3> QED
      BY <2>1, <2>2, <2>3, <3>3, <3>9
  <2>6. CASE ~(\/ \E w \in Writers : \E accepted \in BOOLEAN : Execute(w, accepted)
               \/ \E w \in Writers : Log(w) \/ \E kind \in Torn : TornLog(w, kind))
    <3>1. UNCHANGED <<executions, orders>>
      BY <1>1, <1>5, <2>6, SceneStep DEF Next, Tick, Lose, ReadReceipts, ReadExecutions, vars
    <3> QED
      BY <2>1, <2>2, <2>3, <3>1
  <2> QED
    BY <2>4, <2>5, <2>6
<1> QED
  BY <1>3, <1>4, <1>5

(* For any number of writers and through any failure: an order the chain   *)
(* knows about has a receipt that allowed it, as long as the receipts can  *)
(* be read and were not deleted ...                                        *)
THEOREM OrdersTheorem == Spec => []OrdersBacked
<1>1. Init => OrderInv
  BY DEF Init, Empty, OrderInv
<1>2. OrderInv => OrdersBacked
  BY DEF OrderInv, OrdersBacked
<1>3. TypeOK /\ TypeOK' /\ OrderInv /\ [Next]_vars => OrderInv'
  BY OrderStep
<1>4. Spec => []TypeOK
  BY TrailTypeCorrect
<1> QED
  BY <1>1, <1>2, <1>3, <1>4, PTL DEF Spec

(* ... and the execution log agrees with the receipts at every moment.     *)
THEOREM BoundTheorem == Spec => []ExecutionsBound
<1>1. Init => OrderInv
  BY DEF Init, Empty, OrderInv
<1>2. OrderInv => ExecutionsBound
  BY DEF OrderInv, ExecutionsBound, Bound, Backed, Parses
<1>3. TypeOK /\ TypeOK' /\ OrderInv /\ [Next]_vars => OrderInv'
  BY OrderStep
<1>4. Spec => []TypeOK
  BY TrailTypeCorrect
<1> QED
  BY <1>1, <1>2, <1>3, <1>4, PTL DEF Spec

-----------------------------------------------------------------------------
(* The dashboard *)

(* The dashboard only reads: beside it the trail is still the trail. *)
THEOREM BoardTheorem == BoardSpec => Spec
<1>1. BoardInit => Init
  BY DEF BoardInit
<1>2. [BoardNext]_<<vars, boardVars>> => [Next]_vars
  BY DEF BoardNext, EquityPoint, OpenExecutions, ShowExecutions, OpenOverview, ShowOverview
<1> QED
  BY <1>1, <1>2, PTL DEF BoardSpec, Spec

(* Its hash tells a receipt's number and, in its last place, the receipt. *)
LEMMA HashFacts ==
  ASSUME NEW r \in Receipts, WellMade(r)
  PROVE  /\ r.hash # GENESIS /\ Len(r.hash) = r.seq + 1
         /\ r.hash[Len(r.hash)].verdict = r.verdict
<1>1. r.prev_hash \in Seq(Bodies) /\ r.seq \in Nat
  BY DEF Receipts, Hashes
<1>2. Body(r) \in Bodies /\ Body(r).verdict = r.verdict
  BY DEF Receipts, Bodies, Body
<1>3. r.hash = Append(r.prev_hash, Body(r)) /\ Len(r.prev_hash) = r.seq
  BY DEF WellMade, ComputeHash
<1> HIDE DEF WellMade
<1>4. Len(r.hash) = r.seq + 1 /\ r.hash[r.seq + 1] = Body(r)
  BY <1>1, <1>2, <1>3
<1>5. r.hash # GENESIS
  BY <1>1, <1>4 DEF GENESIS
<1> QED
  BY <1>2, <1>4, <1>5

LineOK(r) == r # JUNK => WellMade(r)

RecordOK(e) ==
    e # JUNK => e.cid = ReceiptCid(e.receipt_hash) /\ SignedFor(e.receipt_hash)

(* What append() makes of the head is well made. *)
LEMMA HeadFacts ==
  ASSUME TypeOK, LineInv, Parses(receipts)
  PROVE  ChainHead(receipts.lines).seq = Len(ChainHead(receipts.lines).hash)
<1> DEFINE L == receipts.lines
<1>1. L \in Seq(Receipts \cup {JUNK})
  BY DEF TypeOK, Files
<1>2. CASE L = <<>>
  BY <1>2 DEF ChainHead, GENESIS
<1>3. CASE L # <<>>
  <2>1. Len(L) \in DOMAIN L
    BY <1>1, <1>3
  <2>2. L[Len(L)] \in Receipts /\ WellMade(L[Len(L)])
    BY <1>1, <2>1 DEF Parses, LineInv
  <2>3. Len(L[Len(L)].hash) = L[Len(L)].seq + 1
    BY <2>2, HashFacts
  <2> QED
    BY <1>3, <2>3 DEF ChainHead
<1> QED
  BY <1>2, <1>3

(* Every step of the trail keeps lines, receipts in hand and records in    *)
(* order.                                                                  *)
LEMMA LineStep == TypeOK /\ TypeOK' /\ LineInv /\ [Next]_vars => LineInv'
<1> SUFFICES ASSUME TypeOK, TypeOK', LineInv, [Next]_vars
             PROVE  /\ \A i \in DOMAIN receipts'.lines : LineOK(receipts'.lines[i])
                    /\ \A w \in Writers :
                         /\ pc'[w] # "idle" => WellMade(draft'[w])
                         /\ pc'[w] \in {"execute", "log"} => draft'[w].verdict \in Allowed
                    /\ \A i \in DOMAIN executions'.lines : RecordOK(executions'.lines[i])
  BY Zenon DEF LineInv, LineOK, RecordOK
<1>0. /\ receipts \in Files(Receipts) /\ executions \in Files(Records)
      /\ pc \in [Writers -> Steps] /\ draft \in [Writers -> Receipts \cup {NoDraft}]
  BY DEF TypeOK
<1>1. /\ \A i \in DOMAIN receipts.lines : LineOK(receipts.lines[i])
      /\ \A w \in Writers :
           /\ pc[w] # "idle" => WellMade(draft[w])
           /\ pc[w] \in {"execute", "log"} => draft[w].verdict \in Allowed
      /\ \A i \in DOMAIN executions.lines : RecordOK(executions.lines[i])
  BY DEF LineInv, LineOK, RecordOK
<1>2. LineOK(JUNK) /\ RecordOK(JUNK)
  BY DEF LineOK, RecordOK
<1>4. CASE \E w \in Writers, verdict \in Verdicts, note \in Notes : Decide(w, verdict, note)
  <2>1. PICK w \in Writers, verdict \in Verdicts, note \in Notes : Decide(w, verdict, note)
    BY <1>4
  <2>2. /\ UNCHANGED <<receipts, executions>> /\ pc'[w] = "append"
        /\ draft'[w].prev_hash = ChainHead(receipts.lines).hash
        /\ draft'[w].seq = ChainHead(receipts.lines).seq
        /\ \A v \in Writers \ {w} : pc'[v] = pc[v] /\ draft'[v] = draft[v]
    BY <2>1, DecideStep
  <2>3. draft'[w].hash = ComputeHash(draft'[w].prev_hash, Body(draft'[w]))
    BY <2>2 DEF TypeOK
  <2>4. Parses(receipts)
    BY <2>1 DEF Decide
  <2>5. WellMade(draft'[w])
    BY <2>2, <2>3, <2>4, HeadFacts DEF WellMade
  <2> QED
    BY <1>1, <2>2, <2>5
<1>5. CASE \E w \in Writers : AppendReceipt(w) \/ \E kind \in Torn : TornAppend(w, kind)
  <2>1. PICK w \in Writers : AppendReceipt(w) \/ \E kind \in Torn : TornAppend(w, kind)
    BY <1>5
  <2>2. PICK kind : \/ receipts' = AppendLine(receipts, draft[w])
                    \/ receipts' = AppendPart(receipts, draft[w], kind)
    BY <2>1 DEF AppendReceipt, TornAppend
  <2>3. pc[w] = "append" /\ executions' = executions
    BY <2>1 DEF AppendReceipt, TornAppend
  <2>4. draft[w] \in Receipts /\ LineOK(draft[w])
    BY <1>1, <2>3 DEF TypeOK, LineOK
  <2>5. \A i \in DOMAIN receipts'.lines :
           \/ receipts'.lines[i] = JUNK \/ receipts'.lines[i] = draft[w]
           \/ i \in DOMAIN receipts.lines /\ receipts'.lines[i] = receipts.lines[i]
    <3>1. \A f \in Files(Receipts), x \in Receipts : \A g :
            g = AppendLine(f, x) \/ g = AppendPart(f, x, kind) =>
              \A i \in DOMAIN g.lines :
                \/ g.lines[i] = JUNK \/ g.lines[i] = x
                \/ i \in DOMAIN f.lines /\ g.lines[i] = f.lines[i]
      <4> TAKE f \in Files(Receipts), x \in Receipts
      <4> TAKE g
      <4> HAVE g = AppendLine(f, x) \/ g = AppendPart(f, x, kind)
      <4> TAKE i \in DOMAIN g.lines
      <4> QED
        BY LogLines
    <3>2. receipts \in Files(Receipts) /\ draft[w] \in Receipts
      BY <1>0, <2>4
    <3>3. \A g : g = AppendLine(receipts, draft[w]) \/ g = AppendPart(receipts, draft[w], kind) =>
              \A i \in DOMAIN g.lines :
                \/ g.lines[i] = JUNK \/ g.lines[i] = draft[w]
                \/ i \in DOMAIN receipts.lines /\ g.lines[i] = receipts.lines[i]
      BY <3>1, <3>2, Zenon
    <3> QED
      BY <2>2, <3>3, Zenon
  <2>6. \A i \in DOMAIN receipts'.lines : LineOK(receipts'.lines[i])
    BY <1>1, <1>2, <2>4, <2>5, Zenon
  <2>7. \/ Done(w)
        \/ draft[w].verdict \in Allowed /\ Go(w, "execute") /\ UNCHANGED draft
    BY <2>1 DEF AppendReceipt, TornAppend
  <2>8. /\ \A v \in Writers \ {w} : pc'[v] = pc[v] /\ draft'[v] = draft[v]
        /\ pc'[w] # "idle" => draft'[w] = draft[w] /\ draft[w].verdict \in Allowed
    BY <1>0, <2>7 DEF Done, Go
  <2> QED
    BY <1>1, <2>3, <2>6, <2>8
<1>6. CASE Reset
  BY <1>1, <1>6 DEF Reset, Empty
<1>7. CASE \E w \in Writers : Log(w) \/ \E kind \in Torn : TornLog(w, kind)
  <2>1. PICK w \in Writers : Log(w) \/ \E kind \in Torn : TornLog(w, kind)
    BY <1>7
  <2>2. PICK kind : \/ executions' = AppendLine(executions, ExecutionRecord(w))
                    \/ executions' = AppendPart(executions, ExecutionRecord(w), kind)
    BY <2>1 DEF Log, TornLog
  <2>3. pc[w] = "log" /\ receipts' = receipts /\ Done(w)
    BY <2>1 DEF Log, TornLog
  <2>4. draft[w] \in Receipts /\ WellMade(draft[w]) /\ draft[w].verdict \in Allowed
    BY <1>1, <2>3 DEF TypeOK
  <2>5. SignedFor(draft[w].hash)
    BY <2>4, HashFacts DEF SignedFor
  <2>6. ExecutionRecord(w) \in Records /\ RecordOK(ExecutionRecord(w))
    BY <2>4, <2>5 DEF ExecutionRecord, Records, Receipts, ReceiptCid, RecordOK
  <2>7. \A i \in DOMAIN executions'.lines :
           \/ executions'.lines[i] = JUNK \/ executions'.lines[i] = ExecutionRecord(w)
           \/ i \in DOMAIN executions.lines /\ executions'.lines[i] = executions.lines[i]
    <3>1. \A f \in Files(Records), x \in Records : \A g :
            g = AppendLine(f, x) \/ g = AppendPart(f, x, kind) =>
              \A i \in DOMAIN g.lines :
                \/ g.lines[i] = JUNK \/ g.lines[i] = x
                \/ i \in DOMAIN f.lines /\ g.lines[i] = f.lines[i]
      <4> TAKE f \in Files(Records), x \in Records
      <4> TAKE g
      <4> HAVE g = AppendLine(f, x) \/ g = AppendPart(f, x, kind)
      <4> TAKE i \in DOMAIN g.lines
      <4> QED
        BY LogLines
    <3> QED
      BY <1>0, <2>2, <2>6, <3>1, Zenon
  <2>8. \A i \in DOMAIN executions'.lines : RecordOK(executions'.lines[i])
    BY <1>1, <1>2, <2>6, <2>7, Zenon
  <2>9. \A v \in Writers : pc'[v] # "idle" => pc'[v] = pc[v] /\ draft'[v] = draft[v]
    BY <1>0, <2>3 DEF Done, Go
  <2> QED
    BY <1>1, <2>3, <2>8, <2>9
<1>8. CASE \E w \in Writers : Lose(w) \/ \E accepted \in BOOLEAN : Execute(w, accepted)
  <2>1. PICK w \in Writers : Lose(w) \/ \E accepted \in BOOLEAN : Execute(w, accepted)
    BY <1>8
  <2>2. UNCHANGED <<receipts, executions>>
    BY <2>1 DEF Lose, Execute
  <2>3. CASE Lose(w)
    <3>1. \A v \in Writers : pc'[v] # "idle" => pc'[v] = pc[v] /\ draft'[v] = draft[v]
      BY <1>0, <2>3 DEF Lose, Done, Go
    <3> QED
      BY <1>1, <2>2, <3>1
  <2>4. CASE \E accepted \in BOOLEAN : Execute(w, accepted)
    <3>1. /\ draft' = draft /\ pc[w] = "execute"
          /\ \A v \in Writers \ {w} : pc'[v] = pc[v]
      BY <1>0, <2>4 DEF Execute, Go
    <3> QED
      BY <1>1, <2>2, <3>1
  <2> QED
    BY <2>1, <2>3, <2>4
<1>9. CASE ReadReceipts \/ ReadExecutions \/ UNCHANGED vars
  BY <1>1, <1>9 DEF ReadReceipts, ReadExecutions, vars
<1> QED
  BY <1>4, <1>5, <1>6, <1>7, <1>8, <1>9, SceneStep DEF Next, Tick

(* A verified chain grows by the next number. *)
LEMMA NumberStep ==
  TypeOK /\ TypeOK' /\ LineInv /\ NumberInv /\ [Next]_vars => NumberInv'
<1> SUFFICES ASSUME TypeOK, TypeOK', LineInv, NumberInv, [Next]_vars,
                    Parses(receipts'), ChainOk(receipts'.lines)
             PROVE  \A i \in DOMAIN receipts'.lines : receipts'.lines[i].seq = i - 1
  BY Zenon DEF NumberInv
<1> DEFINE L == receipts.lines
           M == receipts'.lines
<1>1. CASE receipts' = receipts
  BY <1>1 DEF NumberInv
<1>2. CASE Reset
  BY <1>2 DEF Reset, Empty
<1>3. CASE \E w \in Writers : AppendReceipt(w) \/ \E kind \in Torn : TornAppend(w, kind)
  <2>1. PICK w \in Writers : AppendReceipt(w) \/ \E kind \in Torn : TornAppend(w, kind)
    BY <1>3
  <2>2. /\ Parses(receipts) /\ pc[w] = "append" /\ draft[w] \in Receipts
        /\ M = Append(L, draft[w]) /\ L \in Seq(Receipts \cup {JUNK})
    BY <2>1, WriteStep
  <2>3. draft[w].seq = Len(draft[w].prev_hash)
    BY <2>2 DEF LineInv, WellMade
  <2>4. \A i \in DOMAIN L : L[i] \in Receipts /\ WellMade(L[i])
    BY <2>2 DEF Parses, LineInv
  <2> HIDE DEF L, M
  <2>5. /\ Len(L) \in Nat /\ DOMAIN L = 1 .. Len(L) /\ DOMAIN M = 1 .. Len(L) + 1
        /\ \A i \in DOMAIN L : M[i] = L[i]
        /\ M[Len(L) + 1] = draft[w]
    BY <2>2, AppendFacts
  <2>6. \A i \in DOMAIN M : Linked(M, i)
    BY DEF ChainOk, M
  <2>7. ChainOk(L)
    <3> SUFFICES ASSUME NEW i \in DOMAIN L PROVE Linked(L, i)
      BY DEF ChainOk
    <3>1. i \in DOMAIN M /\ M[i] = L[i] /\ (i # 1 => M[i - 1] = L[i - 1])
      BY <2>5
    <3> QED
      BY <2>6, <3>1 DEF Linked, PrevHash
  <2>8. \A i \in DOMAIN L : L[i].seq = i - 1
    BY <2>2, <2>7 DEF NumberInv, L
  <2>9. draft[w].prev_hash = PrevHash(M, Len(L) + 1)
    <3>1. Len(L) + 1 \in DOMAIN M
      BY <2>5
    <3> QED
      BY <2>5, <2>6, <3>1 DEF Linked
  <2>10. draft[w].seq = Len(L)
    <3>1. CASE Len(L) = 0
      BY <2>3, <2>9, <3>1 DEF PrevHash, GENESIS
    <3>2. CASE Len(L) # 0
      <4>1. Len(L) \in DOMAIN L /\ Len(L) + 1 # 1 /\ (Len(L) + 1) - 1 = Len(L)
        BY <2>5, <3>2
      <4>2. draft[w].prev_hash = L[Len(L)].hash
        BY <2>5, <2>9, <4>1 DEF PrevHash
      <4>3. Len(L[Len(L)].hash) = L[Len(L)].seq + 1
        BY <2>4, <4>1, HashFacts
      <4>4. L[Len(L)].seq = Len(L) - 1
        BY <2>8, <4>1
      <4> QED
        BY <2>3, <2>5, <4>2, <4>3, <4>4
    <3> QED
      BY <3>1, <3>2
  <2>11. \A i \in DOMAIN M : M[i].seq = i - 1
    <3> SUFFICES ASSUME NEW i \in DOMAIN M PROVE M[i].seq = i - 1
      OBVIOUS
    <3>1. CASE i \in DOMAIN L
      BY <2>5, <2>8, <3>1
    <3>2. CASE i = Len(L) + 1
      BY <2>5, <2>10, <3>2
    <3> QED
      BY <2>5, <3>1, <3>2
  <2> QED
    BY <2>11 DEF M
<1>4. CASE \E w \in Writers, verdict \in Verdicts, note \in Notes : Decide(w, verdict, note)
  BY <1>1, <1>4 DEF Decide
<1> QED
  BY <1>1, <1>2, <1>3, <1>4, OtherStep

(* What the page holds of the receipts, and of the equity curve, stays     *)
(* true until it is shown.                                                 *)
LEMMA PageStep ==
  ASSUME BoardInv, [BoardNext]_<<vars, boardVars>>
  PROVE  PageInv' /\ BoardHonest'
<1> USE DEF BoardInv
<1>1. CASE UNCHANGED boardVars
  BY <1>1 DEF boardVars, PageInv, BoardHonest
<1>2. ASSUME NEW w, EquityPoint(w) PROVE PageInv' /\ BoardHonest'
  BY <1>2 DEF EquityPoint, PageInv, BoardHonest
<1>3. CASE OpenExecutions
  <2>1. /\ page' = [recs |-> receipts.lines] /\ Parses(receipts)
        /\ live' = live /\ answer' = answer
    BY <1>3 DEF OpenExecutions
  <2>2. receipts.lines \in Seq(Receipts)
    <3>1. receipts.lines \in Seq(Receipts \cup {JUNK})
      BY DEF TypeOK, Files
    <3>2. \A i \in 1 .. Len(receipts.lines) : receipts.lines[i] \in Receipts
      BY <2>1, <3>1 DEF Parses
    <3> QED
      BY <3>1, <3>2
  <2>3. \A i \in DOMAIN receipts.lines : WellMade(receipts.lines[i])
    BY <2>1 DEF Parses, LineInv
  <2>4. PageInv'
    BY <2>1, <2>2, <2>3 DEF PageInv
  <2> QED
    BY <2>1, <2>4 DEF BoardHonest
<1>4. CASE OpenOverview
  BY <1>4 DEF OpenOverview, PageInv, BoardHonest
<1>5. CASE ShowOverview
  <2>1. page' = NoPage /\ answer' = [curve |-> page.curve, base |-> Base]
    BY <1>5 DEF ShowOverview
  <2>2. PageInv'
    BY <2>1 DEF PageInv, NoPage
  <2>3. page.curve = "live" /\ StartNav => Base = "funded"
    BY <1>5 DEF ShowOverview, PageInv, Base
  <2> QED
    BY <2>1, <2>2, <2>3 DEF BoardHonest
<1>6. CASE ShowExecutions
  <2>1. /\ page' = NoPage /\ "recs" \in DOMAIN page
        /\ answer' = IF Parses(executions)
                     THEN [rows |-> Rows(executions.lines, page.recs)] ELSE NoAnswer
    BY <1>6 DEF ShowExecutions
  <2>2. PageInv'
    BY <2>1 DEF PageInv, NoPage
  <2>3. /\ page.recs \in Seq(Receipts)
        /\ \A j \in DOMAIN page.recs : page.recs[j] \in Receipts /\ WellMade(page.recs[j])
    <3>1. page \in [recs : Seq(Receipts)]
      BY <2>1 DEF PageInv, NoPage
    <3> QED
      BY <2>1, <3>1 DEF PageInv
  <2>4. ASSUME NEW hash, SignedFor(hash)
        PROVE  Verdict(page.recs, hash) \in Allowed \cup {""}
    <3>1. CASE ~\E j \in DOMAIN page.recs : page.recs[j].hash = hash
      BY <3>1 DEF Verdict
    <3>2. CASE \E j \in DOMAIN page.recs : page.recs[j].hash = hash
      <4> DEFINE j == CHOOSE k \in DOMAIN page.recs : page.recs[k].hash = hash
      <4>1. j \in DOMAIN page.recs /\ page.recs[j].hash = hash
        BY <3>2
      <4>2. Verdict(page.recs, hash) = page.recs[j].verdict
        BY <3>2 DEF Verdict
      <4> HIDE DEF j
      <4>3. hash[Len(hash)].verdict = page.recs[j].verdict
        BY <2>3, <4>1, HashFacts
      <4> QED
        BY <2>4, <4>2, <4>3 DEF SignedFor
    <3> QED
      BY <3>1, <3>2
  <2>5. ASSUME Parses(executions), NEW row \in Rows(executions.lines, page.recs)
        PROVE  row.cid_ok /\ row.verdict \in Allowed \cup {""}
    <3>1. PICK i \in DOMAIN executions.lines :
            row = [cid_ok |-> executions.lines[i].cid
                                = ReceiptCid(executions.lines[i].receipt_hash),
                   verdict |-> Verdict(page.recs, executions.lines[i].receipt_hash)]
      BY <2>5 DEF Rows
    <3>2. /\ executions.lines[i].cid = ReceiptCid(executions.lines[i].receipt_hash)
          /\ SignedFor(executions.lines[i].receipt_hash)
      BY <2>5 DEF Parses, LineInv
    <3> QED
      BY <2>4, <3>1, <3>2
  <2> QED
    BY <2>1, <2>2, <2>5 DEF BoardHonest, NoAnswer
<1> QED
  BY <1>1, <1>2, <1>3, <1>4, <1>5, <1>6 DEF BoardNext

LEMMA BoardInvariant == BoardSpec => []BoardInv
<1>1. BoardInit => BoardInv
  <2> SUFFICES ASSUME BoardInit PROVE BoardInv
    OBVIOUS
  <2>1. Init /\ page = NoPage /\ answer = NoAnswer
    BY DEF BoardInit
  <2>2. TypeOK
    <3>1. Empty \in Files(Receipts) /\ Empty \in Files(Records)
      BY DEF Empty, Files
    <3> QED
      BY <2>1, <3>1 DEF Init, TypeOK, Steps
  <2>3. LineInv /\ NumberInv
    BY <2>1 DEF Init, LineInv, NumberInv, Empty
  <2>4. PageInv /\ BoardHonest
    BY <2>1 DEF PageInv, BoardHonest, NoPage, NoAnswer
  <2> QED
    BY <2>2, <2>3, <2>4 DEF BoardInv
<1>2. BoardInv /\ [BoardNext]_<<vars, boardVars>> => BoardInv'
  <2> SUFFICES ASSUME BoardInv, [BoardNext]_<<vars, boardVars>> PROVE BoardInv'
    OBVIOUS
  <2>1. [Next]_vars
    BY DEF BoardNext, EquityPoint, OpenExecutions, ShowExecutions, OpenOverview,
           ShowOverview
  <2>2. TypeOK'
    BY <2>1, TypeStep DEF BoardInv
  <2>3. LineInv' /\ NumberInv'
    BY <2>1, <2>2, LineStep, NumberStep DEF BoardInv
  <2> QED
    BY <2>2, <2>3, PageStep DEF BoardInv
<1> QED
  BY <1>1, <1>2, PTL DEF BoardSpec

(* Whenever verify_chain accepts the receipts, whoever wrote them and      *)
(* whatever was torn or deleted, the replay page is green for every one.   *)
THEOREM ReplayTheorem == BoardSpec => []ReplayAgrees
<1>1. ASSUME BoardInv PROVE ReplayAgrees
  <2> DEFINE L == receipts.lines
  <2> SUFFICES ASSUME Parses(receipts), ChainOk(L), NEW i \in DOMAIN L
               PROVE  /\ Replay(L, L[i].seq).hash_match
                      /\ Replay(L, L[i].seq).prev_link_ok
    BY DEF ReplayAgrees
  <2>1. L \in Seq(Receipts \cup {JUNK})
    BY <1>1 DEF BoardInv, TypeOK, Files
  <2>2. \A j \in DOMAIN L : L[j].seq = j - 1
    BY <1>1 DEF BoardInv, NumberInv
  <2>3. Linked(L, i)
    BY DEF ChainOk
  <2> HIDE DEF L
  <2> DEFINE seq == L[i].seq
             P(k) == L[k].seq = seq /\ \A j \in 1 .. k - 1 : L[j].seq # seq
             first == CHOOSE k \in DOMAIN L : P(k)
  <2>4. DOMAIN L = 1 .. Len(L) /\ Len(L) \in Nat /\ i \in 1 .. Len(L) /\ seq = i - 1
    BY <2>1, <2>2
  <2>5. P(i)
    <3>1. ASSUME NEW j \in 1 .. i - 1 PROVE L[j].seq # seq
      <4>1. j \in DOMAIN L /\ j # i
        BY <2>4
      <4>2. L[j].seq = j - 1
        BY <2>2, <4>1
      <4> QED
        BY <2>4, <4>1, <4>2
    <3> QED
      BY <3>1
  <2>6. \A k \in DOMAIN L : P(k) => k = i
    BY <2>2, <2>4
  <2>7. first = i
    <3> HIDE DEF P
    <3> QED
      BY <2>5, <2>6
  <2>8. Replay(L, seq) = [hash_match |-> L[first].hash = ComputeHash(L[first].prev_hash,
                                                                     Body(L[first])),
                          prev_link_ok |-> L[first].prev_hash = PrevLine(L, seq)]
    BY DEF Replay
  <2>9. PrevLine(L, seq) = PrevHash(L, i)
    BY <2>4 DEF PrevLine, PrevHash
  <2> HIDE DEF first, seq
  <2> DEFINE a == L[i].hash = ComputeHash(L[i].prev_hash, Body(L[i]))
             b == L[i].prev_hash = PrevLine(L, seq)
  <2>10. a /\ b
    BY <2>3, <2>9 DEF Linked
  <2>11. Replay(L, seq) = [hash_match |-> a, prev_link_ok |-> b]
    BY <2>7, <2>8
  <2> HIDE DEF a, b
  <2>12. Replay(L, seq).hash_match /\ Replay(L, seq).prev_link_ok
    BY <2>10, <2>11
  <2> QED
    BY <2>12 DEF seq
<1> QED
  BY <1>1, BoardInvariant, PTL

(* No order is shown unbound or under a receipt that did not allow it, and *)
(* the return on the live curve is measured against the funded amount,     *)
(* whatever the loop writes between the handler's two reads.               *)
THEOREM HonestTheorem == BoardSpec => []BoardHonest
<1>1. BoardInv => BoardHonest
  BY DEF BoardInv
<1> QED
  BY <1>1, BoardInvariant, PTL

-----------------------------------------------------------------------------
(* The container that runs the loop and the dashboard *)

(* A step of the script, the children, the platform or the operator keeps  *)
(* the types, whatever it writes to the volume.                            *)
LEMMA DeployTypeStep == DeployTypeOK /\ [DeployNext]_deployVars => DeployTypeOK'
<1> SUFFICES ASSUME DeployTypeOK, [DeployNext]_deployVars PROVE DeployTypeOK'
  OBVIOUS
<1> USE DeploymentAssumption DEF DeployTypeOK, volume, ghosts, Script, Goto, Stopped
<1>1. CASE Keys
  BY <1>1 DEF Keys
<1>2. CASE Reseed
  <2>1. vol' \in [Seeded -> Contents]
    BY <1>2 DEF Reseed, Seeded, Contents, Copied
  <2>2. lost' \in Nat
    BY <1>2 DEF Reseed
  <2> QED
    BY <1>2, <2>1, <2>2 DEF Reseed
<1>3. CASE Mark
  BY <1>3 DEF Mark
<1>4. CASE Seed
  BY <1>4 DEF Seed
<1>5. CASE SeedState
  <2>1. state' \in {"absent", "bad", "carried", "fresh"}
    BY <1>5 DEF SeedState
  <2>2. seedWanted' \in BOOLEAN
    BY <1>5 DEF SeedState
  <2> QED
    BY <1>5, <2>1, <2>2 DEF SeedState
<1>6. CASE Spawn
  BY <1>6 DEF Spawn
<1>7. CASE WaitExit
  BY <1>7 DEF WaitExit
<1>8. CASE Restart
  BY <1>8 DEF Restart
<1>9. CASE LoopTick
  <2>1. vol' \in [Seeded -> Contents]
    BY <1>9 DEF LoopTick, Contents
  <2>2. state' \in {"absent", "bad", "carried", "fresh"}
    BY <1>9 DEF LoopTick, Load
  <2> QED
    BY <1>9, <2>1, <2>2 DEF LoopTick
<1>10. CASE LoopDies
  BY <1>10 DEF LoopDies
<1>11. CASE DashDies
  BY <1>11 DEF DashDies
<1>12. CASE Kill
  BY <1>12 DEF Kill
<1>13. CASE TouchStop
  BY <1>13 DEF TouchStop
<1>14. CASE Publish
  BY <1>14 DEF Publish
<1>15. ASSUME NEW e \in Envs, Deploy(e) PROVE DeployTypeOK'
  <2>1. deploys + 1 \in 0 .. MaxDeploys /\ 0 \in 0 .. MaxRetries
    BY <1>15 DEF Deploy
  <2>2. env' \in Envs /\ phase' = "keys" /\ retries' = 0 /\ deploys' = deploys + 1
    BY <1>15 DEF Deploy
  <2>3. dash' = "none" /\ loop' = "none" /\ stop' = FALSE /\ told' = FALSE /\ lost' = 0
    BY <1>15 DEF Deploy
  <2>4. UNCHANGED <<vol, state, marker, seedWanted>>
    BY <1>15 DEF Deploy
  <2> QED
    BY <2>1, <2>2, <2>3, <2>4
<1>16. CASE UNCHANGED deployVars
  BY <1>16 DEF deployVars
<1> QED
  BY <1>1, <1>2, <1>3, <1>4, <1>5, <1>6, <1>7, <1>8, <1>9, <1>10, <1>11,
     <1>12, <1>13, <1>14, <1>15, <1>16 DEF DeployNext, EntryPoint

(* The children are started by Spawn only, and ended with the script. *)
LEMMA ChildStep ==
  DeployTypeOK /\ ChildInv /\ [DeployNext]_deployVars => ChildInv'
BY DEF DeployTypeOK, ChildInv, DeployNext, EntryPoint, deployVars, volume, ghosts,
       Script, Goto, Stopped, Keys, Reseed, Mark, Seed, SeedState, Spawn, WaitExit,
       Restart, LoopTick, LoopDies, DashDies, Kill, TouchStop, Publish, Deploy

(* The script decides on the seed and on the state file in one step, and   *)
(* the loop makes a file only where there is none.                         *)
LEMMA SeedStep ==
  DeployTypeOK /\ SeedInv /\ [DeployNext]_deployVars => SeedInv'
<1> SUFFICES ASSUME DeployTypeOK, SeedInv, [DeployNext]_deployVars PROVE SeedInv'
  OBVIOUS
<1>1. CASE SeedState
  BY <1>1 DEF SeedState, SeedInv, DeployTypeOK
<1>2. CASE LoopTick
  BY <1>2 DEF LoopTick, Load, SeedInv, DeployTypeOK
<1>3. CASE UNCHANGED <<state, seedWanted>>
  BY <1>3 DEF SeedInv
<1>4. SeedState \/ LoopTick \/ UNCHANGED <<state, seedWanted>>
  BY DEF DeployNext, EntryPoint, deployVars, volume, ghosts, Keys, Reseed, Mark, Seed,
         Spawn, WaitExit, Restart, LoopDies, DashDies, Kill, TouchStop, Publish, Deploy
<1> QED
  BY <1>1, <1>2, <1>3, <1>4

(* A second overwrite needs live receipts, these a tick of the loop, and   *)
(* that a way through the script, which leaves the marker.                 *)
LEMMA ReseedStep ==
  DeployTypeOK /\ ChildInv /\ ReseedInv /\ [DeployNext]_deployVars => ReseedInv'
<1> SUFFICES ASSUME DeployTypeOK, ChildInv, ReseedInv, [DeployNext]_deployVars
             PROVE  ReseedInv'
  OBVIOUS
<1> USE DEF DeployTypeOK, ReseedInv, volume, ghosts, Script, Goto, Stopped
<1>1. CASE Keys
  BY <1>1 DEF Keys
<1>2. CASE Reseed
  <2>1. CASE env.force /\ ~marker /\ vol["receipts"] = "live"
    <3>1. lost = 0
      BY <2>1
    <3> QED
      BY <1>2, <2>1, <3>1 DEF Reseed, Copied, Seeded
  <2>2. CASE env.force /\ ~marker /\ vol["receipts"] # "live"
    BY <1>2, <2>2 DEF Reseed, Copied, Seeded
  <2>3. CASE ~env.force \/ marker
    BY <1>2, <2>3 DEF Reseed
  <2> QED
    BY <2>1, <2>2, <2>3
<1>3. CASE Mark
  BY <1>3 DEF Mark
<1>4. CASE Seed \/ SeedState \/ Spawn \/ WaitExit
  BY <1>4 DEF Seed, SeedState, Spawn, WaitExit
<1>5. CASE Restart
  BY <1>5 DEF Restart
<1>6. CASE LoopTick
  <2>1. phase = "up"
    BY <1>6 DEF LoopTick, ChildInv
  <2> QED
    BY <1>6, <2>1 DEF LoopTick
<1>7. CASE LoopDies \/ DashDies \/ TouchStop \/ Publish
  BY <1>7 DEF LoopDies, DashDies, TouchStop, Publish
<1>8. CASE Kill
  BY <1>8 DEF Kill
<1>9. ASSUME NEW e \in Envs, Deploy(e) PROVE ReseedInv'
  BY <1>9 DEF Deploy
<1>10. CASE UNCHANGED deployVars
  BY <1>10 DEF deployVars
<1> QED
  BY <1>1, <1>2, <1>3, <1>4, <1>5, <1>6, <1>7, <1>8, <1>9, <1>10
     DEF DeployNext, EntryPoint

(* A deployment forgets what another environment ran and published. *)
LEMMA ConfigStep ==
  DeployTypeOK /\ ConfigInv /\ [DeployNext]_deployVars => ConfigInv'
<1> SUFFICES ASSUME DeployTypeOK, ConfigInv, [DeployNext]_deployVars PROVE ConfigInv'
  OBVIOUS
<1>1. CASE LoopTick
  BY <1>1 DEF LoopTick, ConfigInv
<1>2. CASE Publish
  <2>1. PICK asked \in Chains :
           /\ published' = published \cup
                 {[chain |-> ResolveChain(env, asked),
                   config |-> PublishedConfig(env, ResolveChain(env, asked))]}
           /\ env' = env /\ ran' = ran
    BY <1>2 DEF Publish, ghosts
  <2>2. ResolveChain(env, asked) \in {"injective", "bsc"}
    BY DEF ResolveChain
  <2> QED
    BY <2>1, <2>2 DEF ConfigInv
<1>3. ASSUME NEW e \in Envs, Deploy(e) PROVE ConfigInv'
  BY <1>3 DEF Deploy, ConfigInv
<1>4. CASE UNCHANGED <<env, ran, published>>
  BY <1>4 DEF ConfigInv
<1>5. LoopTick \/ Publish \/ (\E e \in Envs : Deploy(e)) \/ UNCHANGED <<env, ran, published>>
  BY DEF DeployNext, EntryPoint, deployVars, volume, ghosts, Keys, Reseed, Mark, Seed,
         SeedState, Spawn, WaitExit, Restart, LoopDies, DashDies, Kill, TouchStop
<1> QED
  BY <1>1, <1>2, <1>3, <1>4, <1>5

(* The inductive invariant of entrypoint.railway.sh on its platform. *)
THEOREM DeployInvariant == DeploySpec => []DeployInv
<1>1. DeployInit => DeployInv
  <2> SUFFICES ASSUME DeployInit PROVE DeployInv
    OBVIOUS
  <2>1. vol \in [Seeded -> Contents]
    BY DEF DeployInit, Contents
  <2>2. retries \in 0 .. MaxRetries /\ deploys \in 0 .. MaxDeploys
    BY DeploymentAssumption DEF DeployInit
  <2>3. DeployTypeOK
    BY <2>1, <2>2 DEF DeployInit, DeployTypeOK, Script
  <2>4. ChildInv /\ SeedInv /\ ReseedInv /\ ConfigInv
    BY DEF DeployInit, ChildInv, SeedInv, ReseedInv, ConfigInv
  <2> QED
    BY <2>3, <2>4 DEF DeployInv
<1>2. DeployInv /\ [DeployNext]_deployVars => DeployInv'
  BY DeployTypeStep, ChildStep, SeedStep, ReseedStep, ConfigStep DEF DeployInv
<1> QED
  BY <1>1, <1>2, PTL DEF DeploySpec

(* entrypoint.railway.sh, SEED_LIVE_STATE_B64: with a snapshot configured  *)
(* when the script found no state file, nothing is ever traded on a fresh  *)
(* state, through any number of kills, restarts and later deployments.  A  *)
(* snapshot that comes after the file was made is not meant.               *)
THEOREM CarriedTheorem == DeploySpec => []CarriedOver
<1>1. DeployInv => CarriedOver
  BY DEF DeployInv, SeedInv, CarriedOver
<1> QED
  BY <1>1, DeployInvariant, PTL

(* entrypoint.railway.sh, FORCE_RESEED and its marker: live receipts are   *)
(* overwritten once per deployment at most, wherever the script is killed. *)
THEOREM ReseedTheorem == DeploySpec => []ReseededOnce
<1>1. DeployInv => ReseededOnce
  BY DEF DeployInv, ReseedInv, ReseededOnce
<1> QED
  BY <1>1, DeployInvariant, PTL

(* canonical.CONFIG_PATH, web._cfg and commit_publish._chain_profile: the  *)
(* config that runs is the one that is shown and the one published, with   *)
(* or without --chain, but for the publisher that PublishedIsRun names.    *)
THEOREM ConfigTheorem == DeploySpec => []PublishedIsRun
<1>1. DeployInv => PublishedIsRun
  <2> SUFFICES ASSUME ConfigInv, env \in Env, NEW config \in ran
               PROVE  /\ config = WebConfig(env)
                      /\ \A p \in published :
                            p.config = config \/ (env.strategy = "unset" /\ p.chain = "injective")
    BY DeploymentAssumption DEF DeployInv, DeployTypeOK, PublishedIsRun
  <2>1. config = LoopConfig(env) /\ config # "empty"
    BY DEF ConfigInv, Loads
  <2>2. config = WebConfig(env)
    BY <2>1 DEF LoopConfig, WebConfig, Env
  <2>3. ASSUME NEW p \in published, env.strategy # "unset" \/ p.chain # "injective"
        PROVE  p.config = config
    <3>1. PICK c \in {"injective", "bsc"} :
             p = [chain |-> c, config |-> PublishedConfig(env, c)]
      BY DEF ConfigInv
    <3>2. PublishedConfig(env, c) = config
      BY <2>1, <2>3, <3>1 DEF LoopConfig, PublishedConfig, Env
    <3> QED
      BY <3>1, <3>2
  <2> QED
    BY <2>2, <2>3
<1> QED
  BY <1>1, DeployInvariant, PTL

=============================================================================
