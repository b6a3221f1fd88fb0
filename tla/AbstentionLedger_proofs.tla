---------------------- MODULE AbstentionLedger_proofs ----------------------
(***************************************************************************)
(* Proof that the lines of the ledger are genuine, for any number of       *)
(* processes that write, die and overwrite each other.  The argument is    *)
(* carried by sets: a file is a sequence over the genuine records and      *)
(* JUNK, a draft one over the genuine records, and what the steps build    *)
(* from such sequences are sequences over the same sets.                   *)
(*                                                                         *)
(* The ledger's summary and the portfolio of the backtest are sums, so the *)
(* proofs about the backtest follow here too, after the lemmas on sums.    *)
(***************************************************************************)
EXTENDS AbstentionLedger, Backtest, Sums, SequenceTheorems

-----------------------------------------------------------------------------
Records(mk) == {r \in Abstention : Genuine(r, mk)}
GoodLines(mk) == Records(mk) \cup {JUNK}

(* A sequence all of whose elements are in T is a sequence over T. *)
LEMMA Narrow ==
    ASSUME NEW S, NEW T, NEW s \in Seq(S), \A i \in 1 .. Len(s) : s[i] \in T
    PROVE  s \in Seq(T)
  <1>1. Len(s) \in Nat /\ s \in [1 .. Len(s) -> S]
    BY LenProperties
  <1>2. s \in [1 .. Len(s) -> T]
    BY <1>1
  <1> QED
    BY <1>1, <1>2

LEMMA Widen ==
    ASSUME NEW S, NEW T, S \subseteq T, NEW s \in Seq(S)
    PROVE  s \in Seq(T)
  <1>1. \A i \in 1 .. Len(s) : s[i] \in T
    BY ElementOfSeq
  <1> QED
    BY <1>1, Narrow

(* An abstention that was made stays made. *)
LEMMA RecordsGrow ==
    ASSUME NEW mk \in Seq(Refs), NEW ref \in Refs
    PROVE  Records(mk) \subseteq Records(Append(mk, ref))
  <1> SUFFICES ASSUME NEW r \in Records(mk) PROVE r \in Records(Append(mk, ref))
    OBVIOUS
  <1> DEFINE more == Append(mk, ref)
  <1>1. /\ Len(mk) \in Nat /\ Len(more) = Len(mk) + 1
        /\ \A i \in 1 .. Len(mk) : more[i] = mk[i]
    BY AppendProperties, LenProperties
  <1>2. r \in Abstention /\ Genuine(r, mk)
    BY DEF Records
  <1>3. r.id \in 1 .. Len(more) /\ r.ref = more[r.id]
    BY <1>1, <1>2 DEF Genuine
  <1> HIDE DEF more
  <1>4. Genuine(r, more)
    BY <1>2, <1>3 DEF Genuine
  <1> QED
    BY <1>2, <1>4 DEF Records, more

(* Records in a line or a draft, marked and aged. *)
LEMMA MarkRecord ==
    ASSUME NEW mk, NEW r \in Records(mk), NEW price \in Prices, Due(r)
    PROVE  [r EXCEPT !.marked = TRUE, !.pnl = Pnl(r.ref, price)] \in Records(mk)
  <1> DEFINE value == Pnl(r.ref, price)
             s == [r EXCEPT !.marked = TRUE, !.pnl = value]
  <1>1. r \in Abstention /\ Genuine(r, mk) /\ r.age >= MinAge
    BY DEF Records, Due
  <1>2. r.ref \in Nat \ {0} /\ price \in Nat /\ Size \in Nat /\ MinAge \in Nat
    BY <1>1, LedgerAssumption DEF Abstention
  <1>3. value \in Int
    BY <1>2 DEF Pnl
  <1>4. r.age = MinAge
    BY <1>1, <1>2 DEF Abstention
  <1>5. \E q \in Prices : value = Pnl(r.ref, q)
    OBVIOUS
  <1> HIDE DEF value
  <1>6. s \in Abstention /\ s.id = r.id /\ s.ref = r.ref /\ s.age = r.age
        /\ s.pnl = value
    BY <1>1, <1>3 DEF Abstention
  <1> HIDE DEF s
  <1>7. Genuine(s, mk)
    BY <1>1, <1>4, <1>5, <1>6 DEF Genuine
  <1> QED
    BY <1>6, <1>7 DEF Records, s, value

LEMMA AgeRecord ==
    ASSUME NEW mk, NEW r \in Records(mk), r.age < MinAge
    PROVE  [r EXCEPT !.age = @ + 1] \in Records(mk)
  <1> DEFINE older == r.age + 1
             s == [r EXCEPT !.age = older]
  <1>1. r \in Abstention /\ Genuine(r, mk)
    BY DEF Records
  <1>2. older \in 0 .. MinAge
    BY <1>1, LedgerAssumption DEF Abstention
  <1>3. r.age # MinAge
    BY <1>1, LedgerAssumption DEF Abstention
  <1>4. ~r.marked
    BY <1>1, <1>3 DEF Genuine
  <1> HIDE DEF older
  <1>5. s \in Abstention /\ s.id = r.id /\ s.ref = r.ref /\ s.marked = r.marked
    BY <1>1, <1>2 DEF Abstention
  <1> HIDE DEF s
  <1>6. Genuine(s, mk)
    BY <1>1, <1>4, <1>5 DEF Genuine
  <1> QED
    BY <1>5, <1>6 DEF Records, s, older

LEMMA JunkIsNoRecord == JUNK \notin Abstention
  <1>1. DOMAIN JUNK = {"junk"}
    BY DEF JUNK
  <1>2. \A r \in Abstention : "id" \in DOMAIN r
    BY DEF Abstention
  <1> QED
    BY <1>1, <1>2

(* mark_to_market and the clock work line by line. *)
LEMMA MarkDraft ==
    ASSUME NEW mk, NEW ls \in Seq(Records(mk)), NEW price \in Prices
    PROVE  MarkAll(ls, price) \in Seq(Records(mk))
  <1>1. Len(ls) \in Nat /\ DOMAIN ls = 1 .. Len(ls)
        /\ \A i \in 1 .. Len(ls) : ls[i] \in Records(mk)
    BY LenProperties, ElementOfSeq
  <1>2. \A i \in DOMAIN ls : MarkAll(ls, price)[i] \in Records(mk)
    BY <1>1, MarkRecord DEF MarkAll
  <1>3. DOMAIN MarkAll(ls, price) = 1 .. Len(ls)
        /\ MarkAll(ls, price) = [i \in 1 .. Len(ls) |-> MarkAll(ls, price)[i]]
    BY <1>1 DEF MarkAll
  <1>4. MarkAll(ls, price) \in [1 .. Len(ls) -> Records(mk)]
    BY <1>1, <1>2, <1>3
  <1> QED
    BY <1>1, <1>4

LEMMA AgeLines ==
    ASSUME NEW mk, NEW T, T = Records(mk) \/ T = GoodLines(mk), NEW ls \in Seq(T)
    PROVE  Older(ls) \in Seq(T)
  <1>1. Len(ls) \in Nat /\ DOMAIN ls = 1 .. Len(ls)
        /\ \A i \in 1 .. Len(ls) : ls[i] \in T
    BY LenProperties, ElementOfSeq
  <1>2. \A i \in DOMAIN ls : Older(ls)[i] \in T
    <2> SUFFICES ASSUME NEW i \in DOMAIN ls PROVE Older(ls)[i] \in T
      OBVIOUS
    <2>1. CASE ls[i] # JUNK /\ ls[i].age < MinAge
      <3>1. ls[i] \in Records(mk)
        BY <1>1, <2>1 DEF GoodLines
      <3>2. [ls[i] EXCEPT !.age = @ + 1] \in Records(mk)
        BY <2>1, <3>1, AgeRecord
      <3> QED
        BY <2>1, <3>2 DEF Older, GoodLines
    <2>2. CASE ~(ls[i] # JUNK /\ ls[i].age < MinAge)
      BY <1>1, <2>2 DEF Older
    <2> QED
      BY <2>1, <2>2
  <1>3. Older(ls) \in [1 .. Len(ls) -> T]
    BY <1>1, <1>2 DEF Older
  <1> QED
    BY <1>1, <1>3

(* A line appended, ended or not, and lines left by another writer. *)
LEMMA ExtendLines ==
    ASSUME NEW S, JUNK \in S, NEW f, f.lines \in Seq(S), ~f.ended => f.lines # <<>>,
           NEW line \in S
    PROVE  Extended(f, line) \in Seq(S) /\ Extended(f, line) # <<>>
  <1>1. CASE f.ended
    BY <1>1, AppendProperties DEF Extended
  <1>2. CASE ~f.ended
    <2>1. Len(f.lines) \in 1 .. Len(f.lines)
      BY <1>2, EmptySeq
    <2>2. /\ [f.lines EXCEPT ![Len(f.lines)] = JUNK] \in Seq(S)
          /\ Len([f.lines EXCEPT ![Len(f.lines)] = JUNK]) = Len(f.lines)
      BY <2>1, ExceptSeq
    <2>3. [f.lines EXCEPT ![Len(f.lines)] = JUNK] # <<>>
      BY <2>1, <2>2
    <2> QED
      BY <1>2, <2>2, <2>3 DEF Extended
  <1> QED
    BY <1>1, <1>2

LEMMA AppendOne ==
    ASSUME NEW S, NEW s \in Seq(S), NEW x \in S
    PROVE  Append(s, x) \in Seq(S) /\ Append(s, x) # <<>>
  <1>1. Append(s, x) \in Seq(S) /\ Len(Append(s, x)) = Len(s) + 1
    BY AppendProperties
  <1>2. Len(s) \in Nat /\ Len(<<>>) = 0
    BY LenProperties
  <1> QED
    BY <1>1, <1>2

LEMMA PartOf ==
    ASSUME NEW S, NEW s \in Seq(S), NEW m \in Nat \ {0}, NEW n \in Nat, n <= Len(s)
    PROVE  SubSeq(s, m, n) \in Seq(S)
  <1>1. \A i \in m .. n : s[i] \in S
    <2> SUFFICES ASSUME NEW i \in m .. n PROVE s[i] \in S
      OBVIOUS
    <2>1. i \in 1 .. Len(s)
      BY LenProperties
    <2> QED
      BY <2>1, ElementOfSeq
  <1> QED
    BY <1>1, SubSeqProperties

LEMMA OverwriteLines ==
    ASSUME NEW S, JUNK \in S, NEW f, f.lines \in Seq(S), NEW ls \in Seq(S),
           NEW new \in Overwritten(f, ls)
    PROVE  new \in Seq(S)
  <1>1. Len(ls) \in Nat /\ Len(f.lines) \in Nat
    BY LenProperties
  <1>2. ls \o SubSeq(f.lines, Len(ls) + 1, Len(f.lines)) \in Seq(S)
    BY <1>1, PartOf, ConcatProperties
  <1>3. Append(ls, JUNK) \in Seq(S)
    BY AppendProperties
  <1> QED
    BY <1>2, <1>3 DEF Overwritten

-----------------------------------------------------------------------------
(* The invariant in terms of these sets. *)

Rest ==
    /\ file.ended \in BOOLEAN /\ file = [lines |-> file.lines, ended |-> file.ended]
    /\ ~file.ended => file.lines # <<>>
    /\ pc \in [Procs -> {"idle", "append", "mark", "open", "write"}]
    /\ ordered \in [Procs -> BOOLEAN]
    /\ made \in Seq(Refs) /\ marks \subseteq Nat \X Int
    /\ active \subseteq Procs /\ cut \in BOOLEAN /\ unbooked \in BOOLEAN
    /\ deaths \in Nat

Sound ==
    /\ Rest
    /\ file.lines \in Seq(GoodLines(made))
    /\ draft \in [Procs -> Seq(Records(made))]

LEMMA SoundIsIInv == Sound => IInv
  <1> SUFFICES ASSUME Sound PROVE IInv
    OBVIOUS
  <1>1. Records(made) \subseteq Abstention /\ GoodLines(made) \subseteq Abstention \cup {JUNK}
    BY DEF Records, GoodLines
  <1>2. file.lines \in Lines
    BY <1>1, Widen DEF Sound, Lines
  <1>3. draft \in [Procs -> Seq(Abstention)]
    BY <1>1, Widen DEF Sound
  <1>4. TypeOK
    BY <1>2, <1>3 DEF Sound, Rest, TypeOK
  <1>5. LinesGenuine
    <2> SUFFICES ASSUME NEW i \in DOMAIN file.lines, file.lines[i] # JUNK
                 PROVE  Genuine(file.lines[i], made)
      BY DEF LinesGenuine
    <2>1. file.lines[i] \in GoodLines(made)
      BY LenProperties, ElementOfSeq DEF Sound
    <2> QED
      BY <2>1 DEF GoodLines, Records
  <1>6. DraftsGenuine
    <2> SUFFICES ASSUME NEW p \in Procs, NEW i \in DOMAIN draft[p]
                 PROVE  Genuine(draft[p][i], made)
      BY DEF DraftsGenuine
    <2>1. draft[p] \in Seq(Records(made))
      BY DEF Sound
    <2>2. draft[p][i] \in Records(made)
      BY <2>1, LenProperties, ElementOfSeq
    <2> QED
      BY <2>2 DEF Records
  <1> QED
    BY <1>4, <1>5, <1>6 DEF IInv

LEMMA InitSound == Init => Sound
  <1> SUFFICES ASSUME Init PROVE Sound
    OBVIOUS
  <1>1. <<>> \in Seq(GoodLines(made)) /\ <<>> \in Seq(Records(made)) /\ <<>> \in Seq(Refs)
    BY EmptySeq
  <1>2. file.lines = <<>> /\ file.ended = TRUE /\ file = [lines |-> file.lines, ended |-> file.ended]
    BY DEF Init, Empty
  <1> QED
    BY <1>1, <1>2 DEF Init, Sound, Rest

(* A file that parses holds records only. *)
LEMMA ParsedFile ==
    ASSUME Sound, Parses
    PROVE  file.lines \in Seq(Records(made))
  <1>1. \A i \in 1 .. Len(file.lines) : file.lines[i] \in Records(made)
    BY LenProperties, ElementOfSeq DEF Sound, Parses, GoodLines
  <1> QED
    BY <1>1, Narrow DEF Sound

LEMMA NewLineSound ==
    ASSUME Sound, NEW p \in Procs, NEW ref \in Refs
    PROVE  NewLine(p, ref) \in Records(Append(made, ref))
  <1> DEFINE n == Len(made) + 1
             k == NextSeq(draft[p])
             more == Append(made, ref)
             line == [id |-> n, seq |-> k, ref |-> ref, age |-> 0,
                      marked |-> FALSE, pnl |-> 0]
  <1>1. n \in Nat /\ Len(more) = n /\ more[n] = ref /\ n \in 1 .. Len(more)
    BY AppendProperties, LenProperties DEF Sound, Rest
  <1>2. k \in Nat
    <2>1. draft[p] \in Seq(Records(made))
      BY DEF Sound
    <2>2. CASE draft[p] = <<>>
      BY <2>2 DEF NextSeq
    <2>3. CASE draft[p] # <<>>
      <3>1. Len(draft[p]) \in 1 .. Len(draft[p])
        BY <2>1, <2>3, EmptySeq
      <3>2. draft[p][Len(draft[p])] \in Abstention
        BY <2>1, <3>1, ElementOfSeq DEF Records
      <3>3. draft[p][Len(draft[p])].seq \in Nat
        BY <3>2 DEF Abstention
      <3> QED
        BY <2>3, <3>3 DEF NextSeq
    <2> QED
      BY <2>2, <2>3
  <1>3. line = NewLine(p, ref)
    BY DEF NewLine
  <1>4. 0 \in 0 .. MinAge
    BY LedgerAssumption
  <1> HIDE DEF n, k, more
  <1>5. line \in Abstention /\ line.id = n /\ line.ref = ref /\ line.marked = FALSE
    BY <1>1, <1>2, <1>4 DEF Abstention
  <1> HIDE DEF line
  <1>6. Genuine(line, more)
    BY <1>1, <1>5 DEF Genuine
  <1> QED
    BY <1>3, <1>5, <1>6 DEF Records, more

(* Every record of a draft carries a whole number. *)
LEMMA DraftMarks ==
    ASSUME Sound, NEW p \in Procs
    PROVE  {<<r.id, r.pnl>> : r \in {draft[p][i] : i \in
                {j \in DOMAIN draft[p] : draft[p][j].marked}}} \subseteq Nat \X Int
  <1>1. draft[p] \in Seq(Records(made))
    BY DEF Sound
  <1>2. \A i \in DOMAIN draft[p] : draft[p][i] \in Abstention
    BY <1>1, LenProperties, ElementOfSeq DEF Records
  <1>3. \A r \in Abstention : r.id \in Nat /\ r.pnl \in Int
    BY DEF Abstention
  <1> QED
    BY <1>2, <1>3

(* Steps that leave what was made alone and write lines that are good. *)
LEMMA PlainStep ==
    ASSUME Sound, made' = made, file'.lines \in Seq(GoodLines(made)),
           file' = [lines |-> file'.lines, ended |-> file'.ended],
           file'.ended \in BOOLEAN, ~file'.ended => file'.lines # <<>>,
           draft' \in [Procs -> Seq(Records(made))],
           pc' \in [Procs -> {"idle", "append", "mark", "open", "write"}],
           ordered' \in [Procs -> BOOLEAN], marks' \subseteq Nat \X Int,
           active' \subseteq Procs, cut' \in BOOLEAN, unbooked' \in BOOLEAN,
           deaths' \in Nat
    PROVE  Sound'
  BY DEF Sound, Rest

(* Steps that record an abstention. *)
LEMMA RecordStep ==
    ASSUME Sound, NEW p \in Procs, NEW ref \in Refs, made' = Append(made, ref),
           NEW line \in GoodLines(Append(made, ref)), NEW e \in BOOLEAN,
           file' = [lines |-> Extended(file, line), ended |-> e],
           draft' = [draft EXCEPT ![p] = <<>>],
           pc' \in [Procs -> {"idle", "append", "mark", "open", "write"}],
           ordered' \in [Procs -> BOOLEAN], marks' = marks,
           active' = active, cut' \in BOOLEAN, unbooked' \in BOOLEAN,
           deaths' \in Nat
    PROVE  Sound'
  <1> DEFINE more == Append(made, ref)
  <1>1. more \in Seq(Refs) /\ Records(made) \subseteq Records(more)
    BY AppendProperties, RecordsGrow DEF Sound, Rest
  <1>2. GoodLines(made) \subseteq GoodLines(more) /\ JUNK \in GoodLines(more)
    BY <1>1 DEF GoodLines
  <1>3. file.lines \in Seq(GoodLines(more))
    BY <1>2, Widen DEF Sound
  <1>4. Extended(file, line) \in Seq(GoodLines(more)) /\ Extended(file, line) # <<>>
    BY <1>2, <1>3, ExtendLines DEF Sound, Rest
  <1>5. draft \in [Procs -> Seq(Records(more))] /\ <<>> \in Seq(Records(more))
    BY <1>1, Widen, EmptySeq DEF Sound
  <1>6. draft' \in [Procs -> Seq(Records(more))]
    BY <1>5
  <1> HIDE DEF more
  <1>7. file'.lines = Extended(file, line) /\ file'.ended = e
        /\ file' = [lines |-> file'.lines, ended |-> file'.ended]
    OBVIOUS
  <1>8. Rest'
    BY <1>1, <1>4, <1>7 DEF Sound, Rest, more
  <1> QED
    BY <1>4, <1>6, <1>7, <1>8 DEF Sound, more

LEMMA NextSound == ASSUME Sound, [Next]_vars PROVE Sound'
  <1> USE DEF Go, Read, Return, Die, seen
  <1>1. /\ file.lines \in Seq(GoodLines(made)) /\ draft \in [Procs -> Seq(Records(made))]
        /\ <<>> \in Seq(Records(made)) /\ <<>> \in Seq(GoodLines(made))
        /\ JUNK \in GoodLines(made) /\ Records(made) \subseteq GoodLines(made)
    BY EmptySeq DEF Sound, GoodLines
  <1>2. ASSUME NEW p \in Procs, BeginRecord(p) PROVE Sound'
    <2>1. file.lines \in Seq(Records(made))
      BY <1>2, ParsedFile DEF BeginRecord
    <2> QED
      BY <1>1, <1>2, <2>1, PlainStep DEF BeginRecord, Sound, Rest
  <1>3. ASSUME NEW p \in Procs, NEW ref \in Refs, AppendLine(p, ref) PROVE Sound'
    <2> PICK line \in GoodLines(Append(made, ref)) : line = NewLine(p, ref)
      BY NewLineSound DEF GoodLines
    <2> QED
      BY <1>3, RecordStep DEF AppendLine, Sound, Rest
  <1>4. ASSUME NEW p \in Procs, NEW sends \in Sends, Trade(p, sends) PROVE Sound'
    <2>1. sends \in BOOLEAN
      BY LedgerAssumption
    <2> QED
      BY <1>1, <1>4, <2>1, PlainStep DEF Trade, Sound, Rest
  <1>5. ASSUME NEW p \in Procs, NEW price \in Prices, MarkRead(p, price) PROVE Sound'
    <2>1. MarkAll(file.lines, price) \in Seq(Records(made))
      <3>1. file.lines \in Seq(Records(made))
        BY <1>5, ParsedFile DEF MarkRead
      <3>2. \A mk : \A ls \in Seq(Records(mk)) : MarkAll(ls, price) \in Seq(Records(mk))
        BY MarkDraft
      <3> QED
        BY <3>1, <3>2
    <2> QED
      BY <1>1, <1>5, <2>1, PlainStep DEF MarkRead, Sound, Rest
  <1>6. ASSUME NEW p \in Procs, MarkNothing(p) PROVE Sound'
    BY <1>1, <1>6, PlainStep DEF MarkNothing, Sound, Rest
  <1>7. ASSUME NEW p \in Procs, Raise(p) PROVE Sound'
    <2>1. unbooked' \in BOOLEAN
      BY <1>7 DEF Raise, Sound, Rest
    <2> QED
      BY <1>1, <1>7, <2>1, PlainStep DEF Raise, Sound, Rest
  <1>8. ASSUME NEW p \in Procs, OpenFile(p) PROVE Sound'
    <2>1. file'.lines = <<>> /\ file'.ended = TRUE
          /\ file' = [lines |-> file'.lines, ended |-> file'.ended]
      BY <1>8 DEF OpenFile, Empty
    <2> QED
      BY <1>1, <1>8, <2>1, PlainStep DEF OpenFile, Sound, Rest
  <1>9. ASSUME NEW p \in Procs, WriteFile(p) PROVE Sound'
    <2> PICK ls \in Overwritten(file, draft[p]) : file' = [lines |-> ls, ended |-> TRUE]
      BY <1>9 DEF WriteFile
    <2>1. draft[p] \in Seq(GoodLines(made))
      BY <1>1, Widen
    <2>2. ls \in Seq(GoodLines(made))
      BY <1>1, <2>1, OverwriteLines
    <2>3. file'.lines = ls /\ file'.ended = TRUE
          /\ file' = [lines |-> file'.lines, ended |-> file'.ended]
      OBVIOUS
    <2>4. marks' \subseteq Nat \X Int
      BY <1>9, DraftMarks DEF WriteFile, Sound, Rest
    <2> QED
      BY <1>1, <1>9, <2>2, <2>3, <2>4, PlainStep DEF WriteFile, Sound, Rest
  <1>10. ASSUME NEW p \in Procs, DieIdle(p) PROVE Sound'
    BY <1>1, <1>10, PlainStep DEF DieIdle, Sound, Rest
  <1>11. ASSUME NEW p \in Procs, NEW ref \in Refs, DieAppending(p, ref) PROVE Sound'
    <2>1. NewLine(p, ref) \in GoodLines(Append(made, ref))
          /\ JUNK \in GoodLines(Append(made, ref))
      BY NewLineSound DEF GoodLines
    <2> PICK line \in GoodLines(Append(made, ref)) :
               file' = [lines |-> Extended(file, line), ended |-> FALSE]
      BY <1>11, <2>1 DEF DieAppending
    <2>2. /\ made' = Append(made, ref) /\ draft' = [draft EXCEPT ![p] = <<>>]
          /\ pc' = [pc EXCEPT ![p] = "idle"] /\ ordered' = [ordered EXCEPT ![p] = FALSE]
          /\ marks' = marks /\ active' = active /\ cut' = TRUE
          /\ unbooked' = unbooked /\ deaths' = deaths + 1
      BY <1>11 DEF DieAppending
    <2>3. /\ pc' \in [Procs -> {"idle", "append", "mark", "open", "write"}]
          /\ ordered' \in [Procs -> BOOLEAN] /\ cut' \in BOOLEAN
          /\ unbooked' \in BOOLEAN /\ deaths' \in Nat
      BY <2>2 DEF Sound, Rest
    <2>4. FALSE \in BOOLEAN
      OBVIOUS
    <2> HIDE DEF Go, Read, Return, Die, seen
    <2> QED
      BY <2>2, <2>3, <2>4, RecordStep
  <1>12. ASSUME NEW p \in Procs, DieWriting(p) PROVE Sound'
    <2> PICK k \in 0 .. Len(draft[p]) :
          \/ file' = [lines |-> SubSeq(draft[p], 1, k), ended |-> TRUE]
          \/ file' = [lines |-> Append(SubSeq(draft[p], 1, k), JUNK), ended |-> FALSE]
      BY <1>12 DEF DieWriting
    <2> DEFINE part == SubSeq(draft[p], 1, k)
    <2>1. draft[p] \in Seq(GoodLines(made)) /\ k \in Nat /\ k <= Len(draft[p])
      BY <1>1, Widen, LenProperties
    <2>2. part \in Seq(GoodLines(made))
      BY <2>1, PartOf
    <2> DEFINE torn == Append(part, JUNK)
    <2> HIDE DEF part
    <2>3. torn \in Seq(GoodLines(made)) /\ torn # <<>>
      BY <1>1, <2>2, AppendOne
    <2>4. \/ file' = [lines |-> part, ended |-> TRUE]
          \/ file' = [lines |-> torn, ended |-> FALSE]
      BY DEF part
    <2> HIDE DEF torn
    <2>5. /\ file'.lines \in Seq(GoodLines(made)) /\ file'.ended \in BOOLEAN
          /\ file' = [lines |-> file'.lines, ended |-> file'.ended]
          /\ ~file'.ended => file'.lines # <<>>
      <3>1. CASE file' = [lines |-> part, ended |-> TRUE]
        <4>1. file'.lines = part /\ file'.ended = TRUE
              /\ file' = [lines |-> file'.lines, ended |-> file'.ended]
          BY <3>1
        <4> QED
          BY <2>2, <4>1
      <3>2. CASE file' = [lines |-> torn, ended |-> FALSE]
        <4>1. file'.lines = torn /\ file'.ended = FALSE
              /\ file' = [lines |-> file'.lines, ended |-> file'.ended]
          BY <3>2
        <4> QED
          BY <2>3, <4>1
      <3> QED
        BY <2>4, <3>1, <3>2
    <2>6. /\ made' = made /\ draft' = [draft EXCEPT ![p] = <<>>]
          /\ pc' = [pc EXCEPT ![p] = "idle"] /\ ordered' = [ordered EXCEPT ![p] = FALSE]
          /\ marks' = marks /\ active' = active /\ cut' = TRUE
          /\ unbooked' = unbooked /\ deaths' = deaths + 1
      BY <1>12 DEF DieWriting
    <2> HIDE DEF Go, Read, Return, Die, seen
    <2>7. /\ draft' \in [Procs -> Seq(Records(made))]
          /\ pc' \in [Procs -> {"idle", "append", "mark", "open", "write"}]
          /\ ordered' \in [Procs -> BOOLEAN] /\ marks' \subseteq Nat \X Int
          /\ active' \subseteq Procs /\ cut' \in BOOLEAN
          /\ unbooked' \in BOOLEAN /\ deaths' \in Nat
      BY <1>1, <2>6 DEF Sound, Rest
    <2> QED
      BY <2>5, <2>6, <2>7, PlainStep
  <1>13. CASE Reset
    <2>1. file'.lines = <<>> /\ file'.ended = TRUE
          /\ file' = [lines |-> file'.lines, ended |-> file'.ended]
      BY <1>13 DEF Reset, Empty
    <2> QED
      BY <1>1, <1>13, <2>1, PlainStep DEF Reset, Sound, Rest
  <1>14. CASE Clock
    <2>1. \A mk : \A ls \in Seq(Records(mk)) : Older(ls) \in Seq(Records(mk))
      BY AgeLines
    <2>2. \A mk : \A ls \in Seq(GoodLines(mk)) : Older(ls) \in Seq(GoodLines(mk))
      BY AgeLines
    <2>3. draft' \in [Procs -> Seq(Records(made))]
      BY <1>1, <1>14, <2>1 DEF Clock
    <2>4. Older(file.lines) \in Seq(GoodLines(made))
      BY <1>1, <2>2
    <2>5. file'.lines = Older(file.lines) /\ file'.ended = file.ended
          /\ file' = [lines |-> file'.lines, ended |-> file'.ended]
      BY <1>14 DEF Clock, Sound, Rest
    <2>6. file.lines # <<>> => Older(file.lines) # <<>>
      <3>1. DOMAIN Older(file.lines) = DOMAIN file.lines
        BY DEF Older
      <3>2. file.lines # <<>> => 1 \in DOMAIN file.lines
        BY <1>1, EmptySeq, LenProperties
      <3> QED
        BY <3>1, <3>2
    <2> QED
      BY <1>14, <2>3, <2>4, <2>5, <2>6, PlainStep DEF Clock, Sound, Rest
  <1>15. CASE UNCHANGED vars
    BY <1>15 DEF vars, Sound, Rest
  <1> QED
    BY <1>2, <1>3, <1>4, <1>5, <1>6, <1>7, <1>8, <1>9, <1>10, <1>11, <1>12,
       <1>13, <1>14, <1>15 DEF Next, Tick, Fault

-----------------------------------------------------------------------------

LEMMA LedgerSound == Spec => []Sound
  <1>1. Sound /\ [Next]_vars => Sound'
    BY NextSound
  <1> QED
    BY <1>1, InitSound, PTL DEF Spec

(* The types of the ledger's file and of what the processes hold.          *)
THEOREM LedgerTypeCorrect == Spec => []TypeOK
  <1>1. Sound => TypeOK
    BY SoundIsIInv DEF IInv
  <1> QED
    BY <1>1, LedgerSound, PTL

(* record() and mark_to_market() of any number of processes, with torn     *)
(* writes and overwritten files: a line that parses is an abstention that  *)
(* was made, and its mark, if any, is from a price after min_age_s.        *)
THEOREM GenuineTheorem == Spec => []LinesGenuine
  <1>1. Sound => LinesGenuine
    BY SoundIsIInv DEF IInv
  <1> QED
    BY <1>1, LedgerSound, PTL


-----------------------------------------------------------------------------
(* One process alone *)

(* A line that is rewritten as the same abstention with the same mark. *)
Same(r, s) ==
    /\ s # JUNK => r # JUNK
    /\ r.id = s.id /\ r.seq = s.seq /\ r.marked = s.marked /\ r.pnl = s.pnl

LEMMA SameLines ==
    ASSUME NEW ls, NEW ms, NEW n, DOMAIN ms = DOMAIN ls, Len(ms) = Len(ls),
           \A i \in DOMAIN ls : Same(ms[i], ls[i])
    PROVE  /\ Numbered(ls, n) => Numbered(ms, n)
           /\ MarksIn(ms) = MarksIn(ls)
  <1>1. Numbered(ls, n) => Numbered(ms, n)
    BY DEF Numbered, Same
  <1>2. MarksIn(ms) = MarksIn(ls)
    BY DEF MarksIn, Same
  <1> QED
    BY <1>1, <1>2

LEMMA OlderFacts ==
    ASSUME NEW mk, NEW ls \in Seq(GoodLines(mk))
    PROVE  /\ DOMAIN Older(ls) = DOMAIN ls /\ Len(Older(ls)) = Len(ls)
           /\ \A i \in DOMAIN ls : Same(Older(ls)[i], ls[i])
  <1>1. Len(ls) \in Nat /\ DOMAIN ls = 1 .. Len(ls)
        /\ \A i \in 1 .. Len(ls) : ls[i] \in GoodLines(mk)
    BY LenProperties, ElementOfSeq
  <1>2. DOMAIN Older(ls) = DOMAIN ls
    BY DEF Older
  <1>3. Older(ls) \in Seq(GoodLines(mk))
    BY AgeLines
  <1>4. Len(Older(ls)) = Len(ls)
    <2>1. Len(Older(ls)) \in Nat /\ DOMAIN Older(ls) = 1 .. Len(Older(ls))
      BY <1>3, LenProperties
    <2> QED
      BY <1>1, <1>2, <2>1
  <1>5. ASSUME NEW i \in DOMAIN ls PROVE Same(Older(ls)[i], ls[i])
    <2>1. CASE ls[i] # JUNK /\ ls[i].age < MinAge
      <3>1. ls[i] \in Abstention
        BY <1>1, <2>1 DEF GoodLines, Records
      <3>2. Older(ls)[i] = [ls[i] EXCEPT !.age = @ + 1]
        BY <2>1 DEF Older
      <3>3. Older(ls)[i] # JUNK
        <4>1. "id" \in DOMAIN Older(ls)[i]
          BY <3>1, <3>2 DEF Abstention
        <4>2. DOMAIN JUNK = {"junk"}
          BY DEF JUNK
        <4> QED
          BY <4>1, <4>2
      <3>4. /\ Older(ls)[i].id = ls[i].id /\ Older(ls)[i].seq = ls[i].seq
            /\ Older(ls)[i].marked = ls[i].marked /\ Older(ls)[i].pnl = ls[i].pnl
        BY <3>1, <3>2 DEF Abstention
      <3> QED
        BY <3>3, <3>4 DEF Same
    <2>2. CASE ~(ls[i] # JUNK /\ ls[i].age < MinAge)
      <3>1. Older(ls)[i] = ls[i]
        BY <2>2 DEF Older
      <3> QED
        BY <3>1 DEF Same
    <2> QED
      BY <2>1, <2>2
  <1> QED
    BY <1>2, <1>4, <1>5

(* mark_to_market leaves a mark that is there as it is. *)
LEMMA MarkFacts ==
    ASSUME NEW mk, NEW ls \in Seq(Records(mk)), NEW price \in Prices, NEW n, Numbered(ls, n)
    PROVE  /\ Numbered(MarkAll(ls, price), n)
           /\ MarksIn(ls) \subseteq MarksIn(MarkAll(ls, price))
  <1> DEFINE ms == MarkAll(ls, price)
  <1>1. Len(ls) \in Nat /\ DOMAIN ls = 1 .. Len(ls)
        /\ \A i \in 1 .. Len(ls) : ls[i] \in Records(mk)
    BY LenProperties, ElementOfSeq
  <1>2. DOMAIN ms = DOMAIN ls
    BY DEF MarkAll
  <1>3. ms \in Seq(Records(mk))
    BY MarkDraft
  <1>4. Len(ms) \in Nat /\ DOMAIN ms = 1 .. Len(ms)
        /\ \A i \in 1 .. Len(ms) : ms[i] \in Records(mk)
    BY <1>3, LenProperties, ElementOfSeq
  <1>5. Len(ms) = Len(ls)
    BY <1>1, <1>2, <1>4
  <1>6. ASSUME NEW i \in DOMAIN ls
        PROVE  /\ ms[i] # JUNK /\ ms[i].id = ls[i].id /\ ms[i].seq = ls[i].seq
               /\ ls[i].marked => ms[i] = ls[i]
    <2>1. ls[i] \in Abstention /\ ms[i] \in Abstention
      BY <1>1, <1>2, <1>4 DEF Records
    <2>2. ms[i] # JUNK
      BY <2>1, JunkIsNoRecord
    <2>3. CASE Due(ls[i])
      <3>1. ms[i] = [ls[i] EXCEPT !.marked = TRUE, !.pnl = Pnl(ls[i].ref, price)]
        BY <2>3 DEF MarkAll
      <3>2. ms[i].id = ls[i].id /\ ms[i].seq = ls[i].seq
        BY <2>1, <3>1 DEF Abstention
      <3>3. ~ls[i].marked
        BY <2>3 DEF Due
      <3> QED
        BY <2>2, <3>2, <3>3
    <2>4. CASE ~Due(ls[i])
      <3>1. ms[i] = ls[i]
        BY <2>4 DEF MarkAll
      <3> QED
        BY <2>2, <3>1
    <2> QED
      BY <2>3, <2>4
  <1> HIDE DEF ms
  <1>7. Numbered(ms, n)
    BY <1>2, <1>5, <1>6 DEF Numbered
  <1>8. MarksIn(ls) \subseteq MarksIn(ms)
    BY <1>2, <1>6 DEF MarksIn
  <1> QED
    BY <1>7, <1>8 DEF ms

(* record() numbers its line after the last. *)
LEMMA AppendFacts ==
    ASSUME NEW mk, NEW ls \in Seq(GoodLines(mk)), NEW line, NEW n \in Nat, Numbered(ls, n),
           line # JUNK, line.id = n + 1, line.seq = n, line.marked = FALSE
    PROVE  Numbered(Append(ls, line), n + 1) /\ MarksIn(Append(ls, line)) = MarksIn(ls)
  <1> DEFINE ms == Append(ls, line)
  <1>1. Len(ls) = n /\ DOMAIN ls = 1 .. n
    BY LenProperties DEF Numbered
  <1>2. /\ Len(ms) = n + 1 /\ DOMAIN ms = 1 .. n + 1 /\ ms[n + 1] = line
        /\ \A i \in 1 .. n : ms[i] = ls[i]
    <2>1. ls \in Seq(GoodLines(mk) \cup {line})
      BY Widen
    <2> QED
      BY <1>1, <2>1, AppendProperties, LenProperties
  <1> HIDE DEF ms
  <1>3. \A i \in DOMAIN ms : i = n + 1 \/ i \in 1 .. n
    BY <1>2
  <1>4. Numbered(ms, n + 1)
    <2> SUFFICES ASSUME NEW i \in DOMAIN ms
                 PROVE  ms[i] # JUNK /\ ms[i].id = i /\ ms[i].seq = i - 1
      BY <1>2 DEF Numbered
    <2>1. CASE i = n + 1
      <3>1. ms[i] = line /\ i - 1 = n
        BY <1>2, <2>1
      <3> QED
        BY <2>1, <3>1
    <2>2. CASE i \in 1 .. n
      BY <1>1, <1>2, <2>2 DEF Numbered
    <2> QED
      BY <1>3, <2>1, <2>2
  <1>5. MarksIn(ms) = MarksIn(ls)
    <2>1. {j \in DOMAIN ms : ms[j].marked} = {j \in DOMAIN ls : ls[j].marked}
      BY <1>1, <1>2, <1>3
    <2>2. \A j \in DOMAIN ls : ms[j] = ls[j]
      BY <1>1, <1>2
    <2> QED
      BY <2>1, <2>2 DEF MarksIn
  <1> QED
    BY <1>4, <1>5 DEF ms

LEMMA OneOnly ==
    ASSUME NEW S, IsFiniteSet(S), Cardinality(S) <= 1, NEW p \in S, NEW q \in S
    PROVE  p = q
  <1>1. Cardinality(S) \in Nat
    BY FS_CardinalityType
  <1>2. Cardinality(S) # 0
    BY FS_EmptySet
  <1>3. Cardinality(S) = 1
    BY <1>1, <1>2
  <1>4. \E x : S = {x}
    BY <1>3, FS_Singleton
  <1> QED
    BY <1>4

(* Who uses the ledger, and who is in a tick. *)
UsersInv == IsFiniteSet(active) /\ \A p \in Procs : pc[p] # "idle" => p \in active

LEMMA UsersStep ==
    ASSUME Sound, UsersInv, [Next]_vars
    PROVE  /\ UsersInv' /\ active \subseteq active'
           /\ cut => cut'
  <1> USE DEF Go, Read, Return, Die, seen
  <1>0. pc \in [Procs -> {"idle", "append", "mark", "open", "write"}] /\ IsFiniteSet(active)
    BY DEF Sound, Rest, UsersInv
  <1>1. ASSUME NEW p \in Procs, BeginRecord(p) \/ \E sends \in Sends : Trade(p, sends)
        PROVE  /\ active' = active \cup {p} /\ cut' = cut
               /\ \E step : pc' = [pc EXCEPT ![p] = step]
    BY <1>1 DEF BeginRecord, Trade
  <1>2. ASSUME NEW p \in Procs,
               \/ (\E ref \in Refs : AppendLine(p, ref))
               \/ (\E price \in Prices : MarkRead(p, price)) \/ MarkNothing(p) \/ Raise(p)
               \/ OpenFile(p) \/ WriteFile(p)
        PROVE  /\ active' = active /\ cut' = cut /\ pc[p] # "idle"
               /\ \E step : pc' = [pc EXCEPT ![p] = step]
    BY <1>2 DEF AppendLine, MarkRead, MarkNothing, Raise, OpenFile, WriteFile
  <1>3. ASSUME NEW p \in Procs, Fault(p)
        PROVE  /\ active' = active /\ (cut => cut') /\ pc[p] # "idle"
               /\ \E step : pc' = [pc EXCEPT ![p] = step]
    BY <1>3 DEF Fault, DieIdle, DieAppending, DieWriting
  <1>4. CASE Reset \/ Clock \/ UNCHANGED vars
    <2>1. active' = active /\ pc' = pc /\ (cut => cut')
      BY <1>4 DEF Reset, Clock, vars
    <2> QED
      BY <2>1 DEF UsersInv
  <1>5. ASSUME NEW p \in Procs, NEW step, pc' = [pc EXCEPT ![p] = step],
               \/ active' = active \cup {p}
               \/ active' = active /\ pc[p] # "idle"
        PROVE  UsersInv' /\ active \subseteq active'
    <2>1. p \in active' /\ active \subseteq active'
      BY <1>5 DEF UsersInv
    <2>2. IsFiniteSet(active')
      BY <1>0, <1>5, FS_AddElement
    <2>3. \A q \in Procs : pc'[q] # "idle" => q \in active'
      BY <1>0, <1>5, <2>1 DEF UsersInv
    <2> QED
      BY <2>1, <2>2, <2>3 DEF UsersInv
  <1>6. ASSUME NEW p \in Procs, Tick(p) \/ Fault(p)
        PROVE  UsersInv' /\ active \subseteq active' /\ (cut => cut')
    <2>1. CASE BeginRecord(p) \/ \E sends \in Sends : Trade(p, sends)
      BY <1>1, <1>5, <2>1
    <2>2. CASE Fault(p)
      BY <1>3, <1>5, <2>2
    <2>3. CASE \/ (\E ref \in Refs : AppendLine(p, ref))
               \/ (\E price \in Prices : MarkRead(p, price)) \/ MarkNothing(p) \/ Raise(p)
               \/ OpenFile(p) \/ WriteFile(p)
      BY <1>2, <1>5, <2>3
    <2> QED
      BY <1>6, <2>1, <2>2, <2>3 DEF Tick
  <1> QED
    BY <1>4, <1>6 DEF Next

(* Everybody else is idle: only what p has in hand matters. *)
LEMMA LonelyStep ==
    ASSUME Sound, NEW p \in Procs, NEW step, pc' = [pc EXCEPT ![p] = step],
           \A q \in Procs \ {p} : pc[q] = "idle",
           file'.ended,
           step # "write" => /\ Numbered(file'.lines, Len(made'))
                             /\ marks' = MarksIn(file'.lines),
           step = "append" => draft'[p] = file'.lines,
           step = "open" => /\ Numbered(draft'[p], Len(made'))
                            /\ MarksIn(file'.lines) \subseteq MarksIn(draft'[p]),
           step = "write" => /\ file' = Empty /\ Numbered(draft'[p], Len(made'))
                             /\ marks' \subseteq MarksIn(draft'[p])
    PROVE  (file.ended /\ LinesKept /\ \A q \in Procs : HandInv(q))'
  <1>1. pc'[p] = step /\ \A q \in Procs \ {p} : pc'[q] = "idle"
    BY DEF Sound, Rest
  <1>2. HandInv(p)'
    BY <1>1 DEF HandInv
  <1>3. \A q \in Procs \ {p} : HandInv(q)'
    BY <1>1 DEF HandInv
  <1>4. LinesKept'
    <2>1. CASE step = "write"
      <3>1. ~Settled'
        BY <1>1, <2>1 DEF Settled
      <3> QED
        BY <3>1 DEF LinesKept
    <2>2. CASE step # "write"
      BY <2>2 DEF LinesKept
    <2> QED
      BY <2>1, <2>2
  <1> QED
    BY <1>2, <1>3, <1>4

LEMMA KeptStep == ASSUME Sound, KeptInv, [Next]_vars PROVE KeptInv'
  <1>0. UsersInv' /\ active \subseteq active' /\ (cut => cut')
    <2>1. UsersInv
      BY DEF KeptInv, UsersInv
    <2> QED
      BY <2>1, UsersStep
  <1> SUFFICES ASSUME Alone' PROVE (file.ended /\ LinesKept /\ \A p \in Procs : HandInv(p))'
    BY <1>0 DEF KeptInv, UsersInv
  <1>1. IsFiniteSet(active') /\ Cardinality(active') <= 1 /\ ~cut'
    BY <1>0 DEF UsersInv, Alone
  <1>2. \A p, q \in active' : p = q
    BY <1>1, OneOnly
  <1>3. Alone
    <2>1. Cardinality(active) <= Cardinality(active') /\ IsFiniteSet(active)
      BY <1>0, <1>1, FS_Subset
    <2>2. Cardinality(active) \in Nat /\ Cardinality(active') \in Nat
      BY <1>1, <2>1, FS_CardinalityType
    <2> QED
      BY <1>0, <1>1, <2>1, <2>2 DEF Alone
  <1>4. file.ended /\ LinesKept /\ \A p \in Procs : HandInv(p)
    BY <1>3 DEF KeptInv
  <1>5. ASSUME NEW p \in active', p \in Procs
        PROVE  \A q \in Procs \ {p} : pc[q] = "idle"
    BY <1>0, <1>2, <1>5 DEF KeptInv
  <1>6. ASSUME NEW p \in active', p \in Procs, pc[p] # "write"
        PROVE  Numbered(file.lines, Len(made)) /\ marks = MarksIn(file.lines)
    <2>1. Settled
      BY <1>3, <1>5, <1>6 DEF Settled
    <2> QED
      BY <1>4, <2>1 DEF LinesKept
  <1>7. /\ file.lines \in Seq(GoodLines(made)) /\ draft \in [Procs -> Seq(Records(made))]
        /\ pc \in [Procs -> {"idle", "append", "mark", "open", "write"}]
        /\ made \in Seq(Refs) /\ Len(made) \in Nat
        /\ file = [lines |-> file.lines, ended |-> file.ended]
    BY LenProperties DEF Sound, Rest
  <1>8. ASSUME NEW p \in Procs, pc[p] # "idle" PROVE p \in active'
    BY <1>0, <1>8 DEF KeptInv
  <1> USE DEF Go, Read, Return, Die, seen
  <1>9. ASSUME NEW p \in Procs, BeginRecord(p)
        PROVE  (file.ended /\ LinesKept /\ \A q \in Procs : HandInv(q))'
    <2>1. /\ p \in active' /\ pc[p] = "idle" /\ pc' = [pc EXCEPT ![p] = "append"]
          /\ draft'[p] = file.lines /\ file' = file /\ made' = made /\ marks' = marks
      BY <1>7, <1>9 DEF BeginRecord
    <2>2. Numbered(file.lines, Len(made)) /\ marks = MarksIn(file.lines)
      BY <1>6, <2>1
    <2> HIDE DEF Go, Read, Return, Die, seen
    <2> QED
      BY <1>4, <1>5, <2>1, <2>2, LonelyStep
  <1>10. ASSUME NEW p \in Procs, NEW ref \in Refs, AppendLine(p, ref)
         PROVE  (file.ended /\ LinesKept /\ \A q \in Procs : HandInv(q))'
    <2> DEFINE line == NewLine(p, ref)
               n == Len(made)
    <2>1. /\ pc[p] = "append" /\ pc' = [pc EXCEPT ![p] = "mark"] /\ made' = Append(made, ref)
          /\ file' = [lines |-> Append(file.lines, line), ended |-> TRUE] /\ marks' = marks
      BY <1>4, <1>10 DEF AppendLine, Extended
    <2>2. p \in active' /\ draft[p] = file.lines
      BY <1>4, <1>8, <2>1 DEF HandInv
    <2>3. Numbered(file.lines, n) /\ marks = MarksIn(file.lines)
      BY <1>6, <2>1, <2>2
    <2>4. Len(made') = n + 1
      BY <1>7, <2>1, AppendProperties
    <2>5. NextSeq(file.lines) = n
      <3>1. Len(file.lines) = n /\ DOMAIN file.lines = 1 .. n
        BY <1>7, <2>3, LenProperties DEF Numbered
      <3>2. CASE file.lines = <<>>
        BY <3>1, <3>2 DEF NextSeq
      <3>3. CASE file.lines # <<>>
        <4>1. n \in 1 .. n
          BY <1>7, <3>1, <3>3, EmptySeq
        <4>2. file.lines[n].seq = n - 1
          BY <2>3, <3>1, <4>1 DEF Numbered
        <4> QED
          BY <1>7, <3>1, <3>3, <4>2 DEF NextSeq
      <3> QED
        BY <3>2, <3>3
    <2>6. line.id = n + 1 /\ line.seq = n /\ line.marked = FALSE
      BY <2>2, <2>5 DEF NewLine
    <2>7. line # JUNK
      BY NewLineSound, JunkIsNoRecord DEF Records
    <2> HIDE DEF line, Go, Read, Return, Die, seen
    <2>8. /\ Numbered(Append(file.lines, line), n + 1)
          /\ MarksIn(Append(file.lines, line)) = MarksIn(file.lines)
      BY <1>7, <2>3, <2>6, <2>7, AppendFacts
    <2>9. file'.ended /\ file'.lines = Append(file.lines, line)
      BY <2>1
    <2> QED
      BY <1>5, <2>1, <2>2, <2>3, <2>4, <2>8, <2>9, LonelyStep
  <1>11. ASSUME NEW p \in active', p \in Procs, pc[p] # "write",
                UNCHANGED <<file, made, marks>>,
                pc' = [pc EXCEPT ![p] = "idle"] \/ pc' = [pc EXCEPT ![p] = "mark"]
         PROVE  (file.ended /\ LinesKept /\ \A q \in Procs : HandInv(q))'
    <2>1. Numbered(file.lines, Len(made)) /\ marks = MarksIn(file.lines)
      BY <1>6, <1>11
    <2>2. CASE pc' = [pc EXCEPT ![p] = "idle"]
      BY <1>4, <1>5, <1>11, <2>1, <2>2, LonelyStep
    <2>3. CASE pc' = [pc EXCEPT ![p] = "mark"]
      BY <1>4, <1>5, <1>11, <2>1, <2>3, LonelyStep
    <2> QED
      BY <1>11, <2>2, <2>3
  <1>12. ASSUME NEW p \in Procs, NEW sends \in Sends, Trade(p, sends)
         PROVE  (file.ended /\ LinesKept /\ \A q \in Procs : HandInv(q))'
    BY <1>11, <1>12 DEF Trade
  <1>13. ASSUME NEW p \in Procs, NEW price \in Prices, MarkRead(p, price)
         PROVE  (file.ended /\ LinesKept /\ \A q \in Procs : HandInv(q))'
    <2> DEFINE ls == MarkAll(file.lines, price)
    <2>1. /\ pc[p] = "mark" /\ pc' = [pc EXCEPT ![p] = "open"] /\ draft'[p] = ls
          /\ UNCHANGED <<file, made, marks>> /\ Parses
      BY <1>7, <1>13 DEF MarkRead
    <2>2. p \in active'
      BY <1>8, <2>1
    <2>3. Numbered(file.lines, Len(made)) /\ marks = MarksIn(file.lines)
      BY <1>6, <2>1, <2>2
    <2>4. file.lines \in Seq(Records(made))
      BY <2>1, ParsedFile
    <2>5. Numbered(ls, Len(made)) /\ MarksIn(file.lines) \subseteq MarksIn(ls)
      BY <2>3, <2>4, MarkFacts
    <2> HIDE DEF ls, Go, Read, Return, Die, seen
    <2> QED
      BY <1>4, <1>5, <2>1, <2>2, <2>3, <2>5, LonelyStep
  <1>14. ASSUME NEW p \in Procs, MarkNothing(p) \/ Raise(p) \/ DieIdle(p)
         PROVE  (file.ended /\ LinesKept /\ \A q \in Procs : HandInv(q))'
    <2>1. pc[p] # "idle" /\ pc[p] # "write" /\ UNCHANGED <<file, made, marks>>
          /\ pc' = [pc EXCEPT ![p] = "idle"]
      BY <1>14 DEF MarkNothing, Raise, DieIdle
    <2> QED
      BY <1>8, <1>11, <2>1
  <1>15. ASSUME NEW p \in Procs, OpenFile(p)
         PROVE  (file.ended /\ LinesKept /\ \A q \in Procs : HandInv(q))'
    <2>1. /\ pc[p] = "open" /\ pc' = [pc EXCEPT ![p] = "write"] /\ file' = Empty
          /\ UNCHANGED <<draft, made, marks>>
      BY <1>15 DEF OpenFile
    <2>2. p \in active'
      BY <1>8, <2>1
    <2>3. marks = MarksIn(file.lines)
      BY <1>6, <2>1, <2>2
    <2>4. Numbered(draft[p], Len(made)) /\ MarksIn(file.lines) \subseteq MarksIn(draft[p])
      BY <1>4, <2>1 DEF HandInv
    <2>5. file'.ended
      BY <2>1 DEF Empty
    <2> HIDE DEF Go, Read, Return, Die, seen
    <2> QED
      BY <1>5, <2>1, <2>2, <2>3, <2>4, <2>5, LonelyStep
  <1>16. ASSUME NEW p \in Procs, WriteFile(p)
         PROVE  (file.ended /\ LinesKept /\ \A q \in Procs : HandInv(q))'
    <2>1. /\ pc[p] = "write" /\ pc' = [pc EXCEPT ![p] = "idle"] /\ made' = made
          /\ marks' = marks \cup {<<r.id, r.pnl>> : r \in {draft[p][i] : i \in
                         {j \in DOMAIN draft[p] : draft[p][j].marked}}}
      BY <1>16 DEF WriteFile
    <2>2. /\ p \in active' /\ file = Empty /\ Numbered(draft[p], Len(made))
          /\ marks \subseteq MarksIn(draft[p])
      BY <1>4, <1>8, <2>1 DEF HandInv
    <2>3. marks' = MarksIn(draft[p])
      <3>1. {<<r.id, r.pnl>> : r \in {draft[p][i] : i \in
                {j \in DOMAIN draft[p] : draft[p][j].marked}}} = MarksIn(draft[p])
        BY DEF MarksIn
      <3> QED
        BY <2>1, <2>2, <3>1
    <2>4. file' = [lines |-> draft[p], ended |-> TRUE]
      <3>1. file.lines = <<>> /\ DOMAIN file.lines = {} /\ Len(file.lines) = 0
        BY <2>2 DEF Empty
      <3>2. draft[p] \in Seq(Records(made)) /\ Len(draft[p]) \in Nat
        BY <1>7, LenProperties
      <3>3. SubSeq(<<>>, Len(draft[p]) + 1, 0) = <<>>
        BY <3>2
      <3>4. draft[p] \o <<>> = draft[p]
        BY <3>2, ConcatEmptySeq
      <3>5. Overwritten(file, draft[p]) = {draft[p]}
        BY <3>1, <3>3, <3>4 DEF Overwritten
      <3> QED
        BY <1>16, <3>5 DEF WriteFile
    <2>5. file'.lines = draft[p] /\ file'.ended
      BY <2>4
    <2> HIDE DEF Go, Read, Return, Die, seen
    <2> QED
      BY <1>5, <2>1, <2>2, <2>3, <2>5, LonelyStep
  <1>17. CASE Reset \/ \E p \in Procs : DieWriting(p) \/ \E ref \in Refs : DieAppending(p, ref)
    BY <1>1, <1>17 DEF Reset, DieWriting, DieAppending
  <1>18. CASE Clock
    <2>1. /\ file' = [file EXCEPT !.lines = Older(file.lines)]
          /\ draft' = [p \in Procs |-> Older(draft[p])]
          /\ UNCHANGED <<pc, made, marks>>
      BY <1>18 DEF Clock
    <2>2. file'.lines = Older(file.lines) /\ file'.ended = file.ended
      BY <1>7, <2>1
    <2>3. \A n : /\ Numbered(file.lines, n) => Numbered(file'.lines, n)
                 /\ MarksIn(file'.lines) = MarksIn(file.lines)
      BY <1>7, <2>2, OlderFacts, SameLines
    <2>4. ASSUME NEW p \in Procs
          PROVE  /\ draft'[p] = Older(draft[p])
                 /\ \A n : Numbered(draft[p], n) => Numbered(draft'[p], n)
                 /\ MarksIn(draft'[p]) = MarksIn(draft[p])
      <3>1. draft'[p] = Older(draft[p])
        BY <2>1
      <3>2. draft[p] \in Seq(GoodLines(made))
        BY <1>7, Widen DEF GoodLines
      <3> QED
        BY <3>1, <3>2, OlderFacts, SameLines
    <2>5. LinesKept'
      <3>1. Settled' => Settled
        BY <1>3, <2>1 DEF Settled
      <3> QED
        BY <1>4, <2>1, <2>3, <3>1 DEF LinesKept
    <2>6. file = Empty => file' = Empty
      BY <2>1 DEF Empty, Older
    <2>7. ASSUME NEW p \in Procs PROVE HandInv(p)'
      BY <1>4, <2>1, <2>2, <2>3, <2>4, <2>6, <2>7 DEF HandInv
    <2> QED
      BY <1>4, <2>2, <2>5, <2>7
  <1>19. CASE UNCHANGED vars
    BY <1>3, <1>4, <1>19 DEF vars, LinesKept, Settled, Alone, HandInv
  <1> HIDE DEF Go, Read, Return, Die, seen
  <1> QED
    BY <1>9, <1>10, <1>12, <1>13, <1>14, <1>15, <1>16, <1>17, <1>18, <1>19
       DEF Next, Tick, Fault

(* One process that does not die in a write, through any number of ticks:  *)
(* record() and the rewrites of mark_to_market keep every abstention in    *)
(* its place and every mark as it was made.                                *)
THEOREM KeptTheorem == Spec => []LinesKept
  <1>1. Init => KeptInv
    <2> SUFFICES ASSUME Init PROVE KeptInv
      OBVIOUS
    <2>1. file.lines = <<>> /\ file.ended /\ made = <<>> /\ marks = {} /\ active = {}
          /\ \A p \in Procs : pc[p] = "idle"
      BY DEF Init, Empty
    <2>2. Numbered(file.lines, Len(made)) /\ marks = MarksIn(file.lines)
      BY <2>1 DEF Numbered, MarksIn
    <2>3. IsFiniteSet(active)
      BY <2>1, FS_EmptySet
    <2> QED
      BY <2>1, <2>2, <2>3 DEF KeptInv, LinesKept, HandInv
  <1>2. Sound /\ KeptInv /\ [Next]_vars => KeptInv'
    BY KeptStep
  <1>3. KeptInv => LinesKept
    BY DEF KeptInv, LinesKept, Settled
  <1> QED
    BY <1>1, <1>2, <1>3, LedgerSound, PTL DEF Spec

-----------------------------------------------------------------------------
(* The net that is shown *)

(* What summary() nets, the losses avoided less the gains missed, is the   *)
(* sum over the marks themselves: no two lines share a mark.               *)
LEMMA NetOfMarks ==
  ASSUME NEW ls, IsFiniteSet(DOMAIN ls),
         \A i \in DOMAIN ls : ls[i].id = i /\ ls[i].pnl \in Int
  PROVE  NetRestraint(ls) = SumFunction([m \in MarksIn(ls) |-> -m[2]])
<1> DEFINE D == DOMAIN ls
           Marked == {i \in D : ls[i].marked}
           Down == {i \in D : ls[i].marked /\ ls[i].pnl < 0}
           Up == {i \in D : ls[i].marked /\ ls[i].pnl > 0}
           a == [i \in D |-> -ls[i].pnl]
           b == [i \in D |-> ls[i].pnl]
           Image(T) == {<<ls[i].id, ls[i].pnl>> : i \in T}
           c == [m \in Image(Marked) |-> -m[2]]
           Net(T) == SumFunctionOnSet(a, T \cap Down) - SumFunctionOnSet(b, T \cap Up)
           P == {T \in SUBSET Marked :
                   IsFiniteSet(Image(T)) /\ Net(T) = SumFunctionOnSet(c, Image(T))}
<1>1. IsFiniteSet(Marked)
  BY FS_Subset
<1>2. {} \in P
  <2>1. Image({}) = {} /\ {} \cap Down = {} /\ {} \cap Up = {}
    OBVIOUS
  <2>2. /\ SumFunctionOnSet(a, {}) = 0 /\ SumFunctionOnSet(b, {}) = 0
        /\ SumFunctionOnSet(c, {}) = 0
    BY SumEmpty
  <2>3. Net({}) = 0 /\ SumFunctionOnSet(c, Image({})) = 0
    <3> HIDE DEF Image, Down, Up, a, b, c
    <3> QED
      BY <2>1, <2>2
  <2>4. IsFiniteSet(Image({}))
    BY <2>1, FS_EmptySet
  <2> QED
    BY <2>3, <2>4
<1>3. ASSUME NEW T \in SUBSET Marked, T # {}, \A x \in T : T \ {x} \in P PROVE T \in P
  <2>1. PICK x : x \in T
    BY <1>3
  <2> DEFINE R == T \ {x}
             m == <<x, ls[x].pnl>>
  <2>2. IsFiniteSet(Image(R)) /\ Net(R) = SumFunctionOnSet(c, Image(R))
    BY <1>3, <2>1
  <2>3. x \in D /\ ls[x].marked /\ ls[x].id = x /\ ls[x].pnl \in Int
    BY <2>1
  <2>4. Image(T) = Image(R) \cup {m} /\ m \notin Image(R)
    BY <2>1, <2>3
  <2>5. IsFiniteSet(Image(T))
    <3> HIDE DEF Image, m
    <3>1. IsFiniteSet(Image(R) \cup {m})
      BY <2>2, FS_AddElement
    <3> QED
      BY <2>4, <3>1
  <2>6. SumFunctionOnSet(c, Image(T)) = -ls[x].pnl + SumFunctionOnSet(c, Image(R))
    <3>1. \A y \in Image(T) : c[y] \in Int
      BY <1>3
    <3>2. c[m] = -ls[x].pnl /\ m \in Image(T)
      BY <2>1, <2>3
    <3>3. Image(T) \ {m} = Image(R)
      BY <2>4
    <3>4. SumFunctionOnSet(c, Image(T)) = c[m] + SumFunctionOnSet(c, Image(T) \ {m})
      <4> HIDE DEF Image, c, m
      <4> QED
        BY <2>5, <3>1, <3>2, SumTake
    <3> HIDE DEF Image, c, m
    <3> QED
      BY <3>2, <3>3, <3>4
  <2>7. /\ IsFiniteSet(T \cap Down) /\ IsFiniteSet(T \cap Up)
        /\ IsFiniteSet(R \cap Down) /\ IsFiniteSet(R \cap Up)
    BY FS_Subset
  <2>8. /\ \A i \in T \cap Down : a[i] \in Int
        /\ \A i \in T \cap Up : b[i] \in Int
        /\ \A i \in R \cap Down : a[i] \in Int
        /\ \A i \in R \cap Up : b[i] \in Int
    OBVIOUS
  <2>9. SumFunctionOnSet(a, R \cap Down) \in Int /\ SumFunctionOnSet(b, R \cap Up) \in Int
    <3> HIDE DEF Down, Up, a, b, R
    <3> QED
      BY <2>7, <2>8, SumType
  <2>10. Net(T) = -ls[x].pnl + Net(R)
    <3>1. CASE ls[x].pnl < 0
      <4>1. x \in T \cap Down /\ (T \cap Down) \ {x} = R \cap Down /\ T \cap Up = R \cap Up
        BY <2>1, <2>3, <3>1
      <4>2. SumFunctionOnSet(a, T \cap Down) = a[x] + SumFunctionOnSet(a, (T \cap Down) \ {x})
        <5> HIDE DEF Down, Up, a, R
        <5> QED
          BY <4>1, <2>7, <2>8, SumTake
      <4>3. a[x] = -ls[x].pnl
        BY <2>3
      <4>4. SumFunctionOnSet(b, T \cap Up) = SumFunctionOnSet(b, R \cap Up)
        BY <4>1
      <4>5. SumFunctionOnSet(a, (T \cap Down) \ {x}) = SumFunctionOnSet(a, R \cap Down)
        BY <4>1
      <4> HIDE DEF Down, Up, a, b, R
      <4> QED
        BY <4>2, <4>3, <4>4, <4>5, <2>3, <2>9
    <3>2. CASE ls[x].pnl > 0
      <4>1. x \in T \cap Up /\ (T \cap Up) \ {x} = R \cap Up /\ T \cap Down = R \cap Down
        BY <2>1, <2>3, <3>2
      <4>2. SumFunctionOnSet(b, T \cap Up) = b[x] + SumFunctionOnSet(b, (T \cap Up) \ {x})
        <5> HIDE DEF Down, Up, b, R
        <5> QED
          BY <4>1, <2>7, <2>8, SumTake
      <4>3. b[x] = ls[x].pnl
        BY <2>3
      <4>4. SumFunctionOnSet(a, T \cap Down) = SumFunctionOnSet(a, R \cap Down)
        BY <4>1
      <4>5. SumFunctionOnSet(b, (T \cap Up) \ {x}) = SumFunctionOnSet(b, R \cap Up)
        BY <4>1
      <4> HIDE DEF Down, Up, a, b, R
      <4> QED
        BY <4>2, <4>3, <4>4, <4>5, <2>3, <2>9
    <3>3. CASE ls[x].pnl = 0
      <4>1. T \cap Up = R \cap Up /\ T \cap Down = R \cap Down
        BY <2>1, <2>3, <3>3
      <4>2. Net(T) = Net(R)
        BY <4>1
      <4> HIDE DEF Down, Up, a, b, R
      <4> QED
        BY <4>2, <2>9, <3>3
    <3> QED
      BY <2>3, <3>1, <3>2, <3>3
  <2>11. Net(T) = SumFunctionOnSet(c, Image(T))
    <3> HIDE DEF Net, Image, c, R
    <3> QED
      BY <2>2, <2>6, <2>10
  <2> QED
    BY <2>5, <2>11
<1>4. Marked \in P
  <2> HIDE DEF P, Marked
  <2>1. \A T \in SUBSET Marked : T \in P
    BY <1>1, <1>2, <1>3, SetInduction
  <2> QED
    BY <2>1
<1>5. Marked \cap Down = Down /\ Marked \cap Up = Up
  OBVIOUS
<1>6. MarksIn(ls) = Image(Marked)
  BY DEF MarksIn
<1>7. NetRestraint(ls) = SumFunctionOnSet(a, Down) - SumFunctionOnSet(b, Up)
  BY DEF NetRestraint, AvoidedLoss, MissedGain
<1>8. DOMAIN c = Image(Marked)
  OBVIOUS
<1>9. [m \in MarksIn(ls) |-> -m[2]] = c
  BY <1>6
<1>10. SumFunction([m \in MarksIn(ls) |-> -m[2]]) = SumFunctionOnSet(c, Image(Marked))
  <2> HIDE DEF c, Image, Marked
  <2> QED
    BY <1>8, <1>9 DEF SumFunction
<1>11. Net(Marked) = SumFunctionOnSet(c, Image(Marked))
  BY <1>4
<1>12. Net(Marked) = SumFunctionOnSet(a, Down) - SumFunctionOnSet(b, Up)
  BY <1>5
<1> HIDE DEF c, Image, Marked, a, b, Down, Up, Net
<1> QED
  BY <1>7, <1>10, <1>11, <1>12

(* AbstentionLedger.record, mark_to_market and summary, of one process     *)
(* that does not die in a write: no abstention and no mark is lost or      *)
(* changed, and the net that is shown is that of every mark ever made.     *)
THEOREM LedgerTheorem == Spec => []LedgerKept
<1>1. Sound /\ LinesKept => LedgerKept
  <2> SUFFICES ASSUME Sound, LinesKept, Settled
               PROVE  NetRestraint(file.lines) = SumFunction([m \in marks |-> -m[2]])
    BY DEF LedgerKept
  <2>1. Numbered(file.lines, Len(made)) /\ marks = MarksIn(file.lines)
    BY DEF LinesKept
  <2>2. file.lines \in Seq(Abstention \cup {JUNK})
    BY SoundIsIInv DEF IInv, TypeOK, Lines
  <2>3. IsFiniteSet(DOMAIN file.lines)
    <3>1. DOMAIN file.lines = 1 .. Len(file.lines) /\ Len(file.lines) \in Nat
      BY <2>2
    <3> QED
      BY <3>1, FS_Interval
  <2>4. \A i \in DOMAIN file.lines : file.lines[i].id = i /\ file.lines[i].pnl \in Int
    <3> SUFFICES ASSUME NEW i \in DOMAIN file.lines
                 PROVE  file.lines[i].id = i /\ file.lines[i].pnl \in Int
      OBVIOUS
    <3>1. file.lines[i] # JUNK /\ file.lines[i].id = i
      BY <2>1 DEF Numbered
    <3>2. file.lines[i] \in Abstention
      BY <2>2, <3>1
    <3> QED
      BY <3>1, <3>2 DEF Abstention
  <2>5. NetRestraint(file.lines) = SumFunction([m \in MarksIn(file.lines) |-> -m[2]])
    BY <2>3, <2>4, NetOfMarks
  <2> QED
    BY <2>1, <2>5
<1> QED
  BY <1>1, LedgerSound, KeptTheorem, PTL

-----------------------------------------------------------------------------
(* The portfolio of the backtest *)

(* Whole division. *)
LEMMA Quotient ==
  ASSUME NEW n \in Nat, NEW d \in Nat \ {0}
  PROVE  /\ n \div d \in Nat
         /\ (n \div d) * d <= n /\ n < (n \div d) * d + d
OBVIOUS

(* Products keep the order. *)
LEMMA Scaled ==
  ASSUME NEW x \in Int, NEW y \in Int, NEW k \in Nat
  PROVE  /\ x <= y => x * k <= y * k
         /\ x < y /\ k > 0 => x * k < y * k
OBVIOUS

(* A product of naturals. *)
LEMMA Product ==
  ASSUME NEW x \in Nat, NEW y \in Nat
  PROVE  x * y \in Nat
OBVIOUS

(* At most the whole is a part of it, and at least the whole is more. *)
LEMMA Portion ==
  ASSUME NEW g \in Nat, NEW f \in Nat, NEW d \in Nat \ {0}
  PROVE  /\ f <= d => (g * f) \div d \in 0 .. g
         /\ f >= d => (g * f) \div d \in Nat /\ (g * f) \div d >= g
<1> DEFINE q == (g * f) \div d
<1>1. g * f \in Nat
  BY Product
<1>2. q \in Nat /\ q * d <= g * f /\ g * f < q * d + d
  <2> DEFINE n == g * f
  <2>1. n \in Nat
    BY <1>1
  <2> HIDE DEF n
  <2>2. n \div d \in Nat /\ (n \div d) * d <= n /\ n < (n \div d) * d + d
    BY <2>1, Quotient
  <2> QED
    BY <2>2 DEF n
<1> HIDE DEF q
<1>3. ASSUME f <= d PROVE q <= g
  <2>1. g * f <= g * d
    BY <1>3, Scaled
  <2>2. q > g => (g + 1) * d <= q * d
    BY <1>2, Scaled
  <2>3. (g + 1) * d = g * d + d /\ g * d \in Nat /\ q * d \in Nat
    BY <1>2, Product
  <2> QED
    BY <1>1, <1>2, <2>1, <2>2, <2>3
<1>4. ASSUME f >= d PROVE q >= g
  <2>1. g * d <= g * f
    BY <1>4, Scaled
  <2>2. q < g => (q + 1) * d <= g * d
    BY <1>2, Scaled
  <2>3. (q + 1) * d = q * d + d /\ g * d \in Nat /\ q * d \in Nat
    BY <1>2, Product
  <2> QED
    BY <1>1, <1>2, <2>1, <2>2, <2>3
<1> QED
  BY <1>2, <1>3, <1>4 DEF q

(* The universe is finite. *)
LEMMA Universe == IsFiniteSet(Assets) /\ Cardinality(Assets) = N
<1>1. 1 \in Int /\ N \in Int /\ 1 <= N
  BY BacktestAssumption
<1> QED
  BY <1>1, FS_Interval DEF Assets

(* portfolio.nav: cash and what is held are worth something or nothing. *)
LEMMA Worth ==
  ASSUME BacktestTypeOK
  PROVE  /\ \A a \in Assets : Value(a) \in Nat
         /\ Held \subseteq Assets /\ IsFiniteSet(Held)
         /\ Risky \in Nat /\ Nav \in Nat
<1>1. ASSUME NEW a \in Assets PROVE Value(a) \in Nat
  <2>1. pos[a].qty \in Nat /\ px[a] \in Nat
    BY DEF BacktestTypeOK, Position
  <2> QED
    BY <2>1, Product DEF Value
<1>2. Held \subseteq Assets /\ IsFiniteSet(Held)
  BY Universe, FS_Subset DEF Held
<1>3. Risky \in Nat
  <2> DEFINE f == [a \in Assets |-> Value(a)]
  <2>1. \A a \in Held : f[a] \in Nat
    BY <1>1, <1>2
  <2> HIDE DEF f
  <2>2. SumFunctionOnSet(f, Held) \in Nat
    BY <1>2, <2>1, SumNat
  <2> QED
    BY <2>2 DEF f, Risky
<1>4. cash \in Nat
  BY DEF BacktestTypeOK
<1> QED
  BY <1>1, <1>2, <1>3, <1>4 DEF Nav

(* portfolio.sell and flatten: no sale costs money. *)
LEMMA SaleType ==
  ASSUME BacktestTypeOK, NEW S \in SUBSET Assets, Sell(S)
  PROVE  cash' \in Nat /\ pos' \in [Assets -> Position]
<1>1. ASSUME NEW a \in Assets PROVE Proceeds(a) \in Nat
  <2> DEFINE gross == (Value(a) * (Bps - Slip)) \div Bps
  <2>1. Value(a) \in Nat /\ Bps - Slip \in Nat /\ Bps - Slip <= Bps /\ Bps \in Nat \ {0}
        /\ Fee \in Nat /\ Fee <= Bps
    BY Worth, BacktestAssumption
  <2>2. gross \in Nat
    BY <2>1, Portion
  <2> HIDE DEF gross
  <2>3. (gross * Fee) \div Bps \in 0 .. gross
    BY <2>1, <2>2, Portion
  <2>4. gross - FeeOf(gross) \in Nat
    BY <2>2, <2>3 DEF FeeOf
  <2> QED
    BY <2>4 DEF gross, Proceeds
<1>2. SumFunctionOnSet([a \in Assets |-> Proceeds(a)], S) \in Nat
  <2> DEFINE f == [a \in Assets |-> Proceeds(a)]
  <2>1. \A a \in S : f[a] \in Nat
    BY <1>1
  <2>2. IsFiniteSet(S)
    BY Universe, FS_Subset
  <2> HIDE DEF f
  <2>3. SumFunctionOnSet(f, S) \in Nat
    BY <2>1, <2>2, SumNat
  <2> QED
    BY <2>3 DEF f
<1>3. cash' \in Nat
  BY <1>2 DEF Sell, BacktestTypeOK
<1>4. NoPosition \in Position
  BY DEF NoPosition, Position
<1> QED
  BY <1>3, <1>4 DEF Sell, BacktestTypeOK

(* A fill is no better than the price. *)
LEMMA FillType ==
  ASSUME BacktestTypeOK, NEW a \in Assets
  PROVE  Fill(a) \in Nat \ {0} /\ Fill(a) >= px[a] /\ Fill(a) * Bps <= px[a] * (Bps + Slip)
<1>1. px[a] \in Nat \ {0} /\ Bps \in Nat \ {0} /\ Bps + Slip \in Nat /\ Bps + Slip >= Bps
  BY BacktestAssumption DEF BacktestTypeOK
<1>2. Fill(a) \in Nat /\ Fill(a) >= px[a]
  BY <1>1, Portion DEF Fill
<1>3. Fill(a) * Bps <= px[a] * (Bps + Slip)
  <2> DEFINE n == px[a] * (Bps + Slip)
  <2>1. n \in Nat
    BY <1>1, Product
  <2> HIDE DEF n
  <2>2. (n \div Bps) * Bps <= n
    BY <1>1, <2>1, Quotient
  <2> QED
    BY <2>2 DEF n, Fill
<1> QED
  BY <1>1, <1>2, <1>3

(* What a purchase makes of a position. *)
Bought(a, q) ==
    LET old == pos[a]
    IN  IF old.qty > 0
        THEN [qty |-> old.qty + q, cost |-> old.cost + q * Fill(a), hour |-> old.hour]
        ELSE [qty |-> q, cost |-> q * Fill(a), hour |-> hour]

(* portfolio.buy: lots at their fill, and with the fee no more than there  *)
(* is cash.                                                                *)
LEMMA BuyType ==
  ASSUME BacktestTypeOK, NEW a \in Assets, NEW usd \in Nat, Buy(a, usd)
  PROVE  /\ cash' \in Nat
         /\ \E q \in Nat : /\ pos' = [pos EXCEPT ![a] = Bought(a, q)]
                           /\ pos' \in [Assets -> Position]
<1> DEFINE gross == Gross(usd)
           fee == FeeOf(gross)
           spend == Spend(usd)
           q == spend \div Fill(a)
<1>1. gross \in Nat /\ gross <= cash /\ cash \in Nat
  BY DEF Gross, BacktestTypeOK
<1>2. fee \in 0 .. gross
  <2>1. Fee \in Nat /\ Fee <= Bps /\ Bps \in Nat \ {0}
    BY BacktestAssumption
  <2> HIDE DEF gross
  <2> QED
    BY <1>1, <2>1, Portion DEF FeeOf
<1>3. spend \in Nat /\ spend + fee <= cash
  <2>1. spend = IF gross + fee > cash THEN cash - fee ELSE gross
    BY DEF Spend
  <2> HIDE DEF gross, fee, spend
  <2> QED
    BY <1>1, <1>2, <2>1
<1>4. Fill(a) \in Nat \ {0}
  BY FillType
<1>5. q \in Nat /\ q * Fill(a) <= spend /\ q * Fill(a) \in Nat
  <2> HIDE DEF spend
  <2>1. q \in Nat /\ q * Fill(a) <= spend
    BY <1>3, <1>4, Quotient
  <2> HIDE DEF q
  <2> QED
    BY <1>4, <2>1, Product
<1>6. pos' = [pos EXCEPT ![a] = Bought(a, q)]
  BY DEF Buy, Bought
<1>7. cash' = cash - q * Fill(a) - fee
  BY DEF Buy
<1> HIDE DEF gross, fee, spend, q
<1>8. cash' \in Nat
  BY <1>1, <1>2, <1>3, <1>5, <1>7
<1>9. Bought(a, q) \in Position
  <2>1. pos[a] \in Position /\ hour \in Nat
    BY DEF BacktestTypeOK
  <2>2. pos[a].qty + q \in Nat /\ pos[a].cost + q * Fill(a) \in Nat /\ pos[a].hour \in Nat
    BY <1>5, <2>1 DEF Position
  <2> QED
    BY <1>5, <2>1, <2>2 DEF Bought, Position
<1>10. pos' \in [Assets -> Position]
  BY <1>6, <1>9 DEF BacktestTypeOK
<1> QED
  BY <1>5, <1>6, <1>8, <1>10

Losses == [loss : Nat, of : Nat \ {0}]

(* The drawdown the ladder sees after the cooldown rule. *)
Seen == IF Rearms THEN NoLoss ELSE dd

(* portfolio.current_drawdown. *)
LEMMA DrawdownType == ASSUME BacktestTypeOK PROVE dd \in Losses /\ NoLoss \in Losses
<1>1. drawdown_history \in Seq(Losses)
  BY DEF BacktestTypeOK, Losses
<1>2. drawdown_history # <<>> =>
         drawdown_history[Len(drawdown_history)] \in Losses
  BY <1>1
<1> QED
  BY <1>2 DEF dd, Last, NoLoss, Losses

(* portfolio.rebaseline: the last drawdown is the one the rung was taken   *)
(* from, and only a book that holds nothing is re-based.                   *)
LEMMA RebaselineType ==
  ASSUME BacktestTypeOK, Rebaseline
  PROVE  /\ hwm' \in Nat /\ flat' \in {None} \cup 0 .. hour
         /\ drawdown_history' \in Seq(Losses)
         /\ dd' = Seen /\ (Held # {} => dd' = dd)
<1>1. hwm' \in Nat /\ flat' \in {None} \cup 0 .. hour
  BY DEF Rebaseline, FlatSince, BacktestTypeOK, None
<1>2. CASE Rearms
  <2> DEFINE h == drawdown_history
  <2>1. h \in Seq(Losses)
    BY DEF BacktestTypeOK, Losses
  <2>2. h # <<>>
    <3>1. dd.loss * 1000 > RearmAt * dd.of /\ RearmAt \in Nat
      BY <1>2, BacktestAssumption DEF Rearms
    <3>2. h = <<>> => dd.loss = 0 /\ dd.of = 1
      BY DEF dd, NoLoss
    <3> QED
      BY <3>1, <3>2
  <2>3. Front(h) \in Seq(Losses) /\ Len(Front(h)) = Len(h) - 1 /\ Len(h) \in Nat
    <3>1. Len(h) \in Nat \ {0} /\ Len(h) - 1 \in 0 .. Len(h)
      BY <2>1, <2>2
    <3>2. SubSeq(h, 1, Len(h) - 1) \in Seq(Losses)
          /\ Len(SubSeq(h, 1, Len(h) - 1)) = Len(h) - 1
      <4> DEFINE n == Len(h) - 1
      <4>1. n \in Nat /\ 1 \in Int /\ n \in Int /\ \A i \in 1 .. n : h[i] \in Losses
        BY <2>1, <3>1
      <4> HIDE DEF h, n
      <4>2. /\ SubSeq(h, 1, n) \in Seq(Losses)
            /\ Len(SubSeq(h, 1, n)) = IF 1 <= n THEN n - 1 + 1 ELSE 0
        BY <4>1, SubSeqProperties
      <4>3. Len(SubSeq(h, 1, n)) = n
        BY <4>1, <4>2
      <4> QED
        BY <4>2, <4>3 DEF n
    <3> QED
      BY <2>1, <3>1, <3>2 DEF Front
  <2>4. drawdown_history' = Front(h) \o <<NoLoss>>
    BY <1>2 DEF Rebaseline
  <2>5. NoLoss \in Losses
    BY DrawdownType
  <2> DEFINE f == Front(h)
  <2> HIDE DEF f
  <2>6. f \o <<NoLoss>> \in Seq(Losses) /\ Len(f \o <<NoLoss>>) = Len(f) + 1
        /\ (f \o <<NoLoss>>)[Len(f) + 1] = NoLoss
    BY <2>3, <2>5 DEF f
  <2>7. drawdown_history' \in Seq(Losses) /\ drawdown_history' # <<>>
        /\ drawdown_history'[Len(drawdown_history')] = NoLoss
    BY <2>4, <2>6 DEF f
  <2>8. dd' = NoLoss
    BY <2>7 DEF dd, Last
  <2>9. Held = {}
    BY <1>2 DEF Rearms
  <2> QED
    BY <1>1, <1>2, <2>7, <2>8, <2>9 DEF Seen
<1>3. CASE ~Rearms
  <2>1. drawdown_history' = drawdown_history
    BY <1>3 DEF Rebaseline
  <2>2. dd' = dd
    BY <2>1 DEF dd
  <2> QED
    BY <1>1, <1>3, <2>1, <2>2 DEF Seen, BacktestTypeOK, Losses
<1> QED
  BY <1>2, <1>3

(* What the history says, and the sizes that follow from it. *)
LEMMA ReadingType ==
  ASSUME BacktestTypeOK
  PROVE  /\ reading \in Signals /\ EntrySize \in Nat
         /\ Enters => reading.best \in Assets
         /\ Nudges => reading.pick \in Assets
         /\ Turn \in Assets
<1>1. reading \in Signals
  BY BacktestAssumption DEF BacktestTypeOK, Ranked, Signals
<1>2. EntrySize \in Nat
  <2> DEFINE n == reading.size * Nav
  <2>1. n \in Nat
    BY <1>1, Worth, Product DEF Signals
  <2> HIDE DEF n
  <2>2. n \div 2000 \in Nat /\ n \div 1000 \in Nat
    BY <2>1, Quotient
  <2> QED
    BY <2>2 DEF n, EntrySize
<1>3. Turn \in Assets
  <2>1. hour \div DcaCadence \in Nat
    BY BacktestAssumption, Quotient DEF BacktestTypeOK
  <2>2. (hour \div DcaCadence) % N \in 0 .. N - 1
    BY <2>1, BacktestAssumption
  <2> QED
    BY <2>2, BacktestAssumption DEF Turn, Assets
<1> QED
  BY <1>1, <1>2, <1>3 DEF Enters, Nudges, Signals

(* Every step of the runner and of both strategies keeps the types. *)
LEMMA BacktestTypeStep ==
  BacktestTypeOK /\ [BacktestNext]_backtestVars => BacktestTypeOK'
<1> SUFFICES ASSUME BacktestTypeOK, [BacktestNext]_backtestVars PROVE BacktestTypeOK'
  OBVIOUS
<1> USE DEF Losses
<1>1. ASSUME Decided, Rebaseline, cash' \in Nat, pos' \in [Assets -> Position]
      PROVE  BacktestTypeOK'
  <2>1. left' \in 0 .. MaxTrades /\ UNCHANGED <<who, hour, px, reading, nav_history>>
    <3>1. left \in 0 .. MaxTrades /\ left > 0 /\ left' = left - 1 /\ MaxTrades \in Nat
      BY <1>1, BacktestAssumption DEF Decided, BacktestTypeOK
    <3> QED
      BY <1>1, <3>1 DEF Decided, market
  <2>2. hwm' \in Nat /\ flat' \in {None} \cup 0 .. hour /\ drawdown_history' \in Seq(Losses)
    BY <1>1, RebaselineType
  <2> QED
    BY <1>1, <2>1, <2>2 DEF BacktestTypeOK
<1>2. CASE Flatten
  <2>1. cash' \in Nat /\ pos' \in [Assets -> Position]
    BY <1>2, Worth, SaleType DEF Flatten
  <2> QED
    BY <1>1, <1>2, <2>1 DEF Flatten
<1>3. CASE Exit
  <2>1. \E x \in Exits : \A y \in Exits : x <= y
    <3>1. Exits \subseteq Nat /\ Exits # {}
      BY <1>3 DEF Exit, Exits, Assets
    <3> QED
      BY <3>1, LeastOf
  <2>2. Min(Exits) \in Exits
    BY <2>1 DEF Min
  <2>3. {Min(Exits)} \in SUBSET Assets
    BY <2>2 DEF Exits
  <2>4. cash' \in Nat /\ pos' \in [Assets -> Position]
    BY <1>3, <2>3, SaleType DEF Exit
  <2> QED
    BY <1>1, <1>3, <2>4 DEF Exit
<1>4. CASE Enter
  <2>1. cash' \in Nat /\ pos' \in [Assets -> Position]
    BY <1>4, ReadingType, BuyType DEF Enter
  <2> QED
    BY <1>1, <1>4, <2>1 DEF Enter
<1>5. CASE MicroRebalance
  <2>1. Micro \in Nat
    BY BacktestAssumption
  <2>2. cash' \in Nat /\ pos' \in [Assets -> Position]
    BY <1>5, <2>1, ReadingType, BuyType DEF MicroRebalance
  <2> QED
    BY <1>1, <1>5, <2>2 DEF MicroRebalance
<1>6. CASE Hold
  <2>1. hwm' \in Nat /\ flat' \in {None} \cup 0 .. hour /\ drawdown_history' \in Seq(Losses)
    BY <1>6, RebaselineType DEF Hold
  <2>2. left' = 0 /\ UNCHANGED <<who, hour, px, reading, cash, pos, nav_history>>
    BY <1>6 DEF Hold, market
  <2> QED
    BY <2>1, <2>2, BacktestAssumption DEF BacktestTypeOK
<1>7. CASE Dca
  <2>1. DcaUsd \in Nat
    BY BacktestAssumption
  <2>2. cash' \in Nat /\ pos' \in [Assets -> Position]
    BY <1>7, <2>1, ReadingType, BuyType DEF Dca
  <2>3. /\ left' \in 0 .. MaxTrades
        /\ UNCHANGED <<who, hour, px, reading, nav_history, hwm, flat, drawdown_history>>
    <3>1. left \in 0 .. MaxTrades /\ left > 0 /\ left' = left - 1 /\ MaxTrades \in Nat
      BY <1>7, BacktestAssumption DEF Dca, Decided, BacktestTypeOK
    <3> QED
      BY <1>7, <3>1 DEF Dca, Decided, market
  <2> QED
    BY <2>2, <2>3 DEF BacktestTypeOK
<1>8. CASE Idle
  BY <1>8, BacktestAssumption DEF Idle, market, portfolio, history, BacktestTypeOK
<1>9. CASE NextHour
  <2>1. Nav \in Nat /\ hwm \in Nat
    BY Worth DEF BacktestTypeOK
  <2>2. hwm' \in Nat /\ nav_history' \in Seq(Nat) /\ drawdown_history' \in Seq(Losses)
    <3> DEFINE top == IF Nav > hwm THEN Nav ELSE hwm
    <3>1. top \in Nat /\ top >= Nav
      BY <2>1
    <3>2. (IF top = 0 THEN NoLoss ELSE Drop(top, Nav)) \in Losses
      BY <2>1, <3>1 DEF NoLoss, Drop
    <3>3. /\ hwm' = top /\ nav_history' = Append(nav_history, Nav)
          /\ drawdown_history' =
                Append(drawdown_history, IF top = 0 THEN NoLoss ELSE Drop(top, Nav))
      BY <1>9 DEF NextHour, Mark
    <3>4. nav_history \in Seq(Nat) /\ drawdown_history \in Seq(Losses)
      BY DEF BacktestTypeOK
    <3> QED
      BY <2>1, <3>1, <3>2, <3>3, <3>4
  <2>3. hour' \in Nat /\ hour' = hour + 1 /\ left' = MaxTrades /\ MaxTrades \in Nat
    BY <1>9, BacktestAssumption DEF NextHour, BacktestTypeOK
  <2>4. px' \in [Assets -> Nat \ {0}]
    <3>1. PICK m \in Moves :
             px' = [a \in Assets |->
                      LET p == (px[a] * (100 + m[a])) \div 100 IN IF p = 0 THEN 1 ELSE p]
      BY <1>9 DEF NextHour, Market
    <3>2. ASSUME NEW a \in Assets PROVE (px[a] * (100 + m[a])) \div 100 \in Nat
      <4>1. px[a] \in Nat /\ 100 + m[a] \in Nat
        <5>1. m \in [Assets -> -99 .. 99] /\ px[a] \in Nat
          BY BacktestAssumption DEF BacktestTypeOK
        <5>2. m[a] \in -99 .. 99
          BY <5>1
        <5> QED
          BY <5>1, <5>2
      <4>2. px[a] * (100 + m[a]) \in Nat
        BY <4>1, Product
      <4> DEFINE n == px[a] * (100 + m[a])
      <4> HIDE DEF n
      <4>3. n \div 100 \in Nat
        BY <4>2, Quotient DEF n
      <4> QED
        BY <4>3 DEF n
    <3> QED
      BY <3>1, <3>2
  <2>5. reading' \in UNION {Ranked(h) : h \in {0, Warm}}
    BY <1>9, BacktestAssumption DEF NextHour, Market, Ranked, BacktestTypeOK
  <2>6. UNCHANGED <<who, cash, pos, flat>>
    BY <1>9 DEF NextHour
  <2>7. flat' \in {None} \cup 0 .. hour'
    BY <2>3, <2>6 DEF BacktestTypeOK
  <2> QED
    BY <2>2, <2>3, <2>4, <2>5, <2>6, <2>7 DEF BacktestTypeOK
<1>10. CASE UNCHANGED backtestVars
  BY <1>10 DEF backtestVars, market, portfolio, history, BacktestTypeOK
<1> QED
  BY <1>2, <1>3, <1>4, <1>5, <1>6, <1>7, <1>8, <1>9, <1>10 DEF BacktestNext

(* The first hour of a run. *)
LEMMA BacktestInitType == BacktestInit => BacktestTypeOK
<1> SUFFICES ASSUME BacktestInit PROVE BacktestTypeOK
  OBVIOUS
<1>1. pos \in [Assets -> Position]
  BY DEF BacktestInit, NoPosition, Position
<1>2. reading \in UNION {Ranked(h) : h \in {0, Warm}} /\ hour \in Nat
  BY BacktestAssumption DEF BacktestInit, Ranked
<1>3. px \in [Assets -> Nat \ {0}] /\ cash \in Nat /\ hwm \in Nat /\ left \in 0 .. MaxTrades
  BY BacktestAssumption DEF BacktestInit
<1> QED
  BY <1>1, <1>2, <1>3 DEF BacktestInit, BacktestTypeOK

(* A price is between the stop and the target of a fill at it. *)
LEMMA FillSafe ==
  ASSUME BacktestTypeOK, NEW a \in Assets
  PROVE  /\ Fill(a) * (1000 - StopLoss) < 1000 * px[a]
         /\ 1000 * px[a] < Fill(a) * (1000 + TakeProfit)
<1> DEFINE F == Fill(a)
           P == px[a]
           low == 1000 - StopLoss
<1>1. /\ F \in Nat \ {0} /\ F >= P /\ F * Bps <= P * (Bps + Slip)
      /\ P \in Nat \ {0} /\ Bps \in Nat \ {0} /\ Slip \in Nat /\ low \in Int
      /\ TakeProfit \in Nat \ {0} /\ (Bps + Slip) * low < 1000 * Bps
  BY FillType, BacktestAssumption, StrategyAssumption DEF BacktestTypeOK
<1> HIDE DEF F, P, low
<1>2. F * low < 1000 * P
  <2>1. CASE low >= 0
    <3>1. (F * Bps) * low <= (P * (Bps + Slip)) * low
      <4>1. F * Bps \in Int /\ P * (Bps + Slip) \in Int /\ low \in Nat
        BY <1>1, <2>1
      <4> QED
        BY <1>1, <4>1, Scaled
    <3>2. ((Bps + Slip) * low) * P < (1000 * Bps) * P
      <4>1. (Bps + Slip) * low \in Int /\ 1000 * Bps \in Int
        BY <1>1
      <4> QED
        BY <1>1, <4>1, Scaled
    <3>3. /\ (F * Bps) * low = (F * low) * Bps
          /\ (P * (Bps + Slip)) * low = ((Bps + Slip) * low) * P
          /\ (1000 * Bps) * P = (1000 * P) * Bps
      BY <1>1
    <3>4. (F * low) * Bps < (1000 * P) * Bps
      <4>1. /\ (F * low) * Bps \in Int /\ ((Bps + Slip) * low) * P \in Int
            /\ (1000 * P) * Bps \in Int
        BY <1>1
      <4> QED
        BY <3>1, <3>2, <3>3, <4>1
    <3>5. F * low \in Int /\ 1000 * P \in Int
      BY <1>1
    <3>6. 1000 * P <= F * low => (1000 * P) * Bps <= (F * low) * Bps
      BY <1>1, <3>5, Scaled
    <3>7. (F * low) * Bps \in Int /\ (1000 * P) * Bps \in Int
      BY <1>1, <3>5
    <3> QED
      BY <3>4, <3>5, <3>6, <3>7
  <2>2. CASE low < 0
    <3>1. low * F <= 0 * F
      BY <1>1, <2>2, Scaled
    <3> QED
      BY <1>1, <3>1
  <2> QED
    BY <1>1, <2>1, <2>2
<1>3. 1000 * P < F * (1000 + TakeProfit)
  <2>1. P * (1000 + TakeProfit) <= F * (1000 + TakeProfit)
    BY <1>1, Scaled
  <2>2. 1000 * P < (1000 + TakeProfit) * P
    BY <1>1, Scaled
  <2> QED
    BY <1>1, <2>1, <2>2
<1> QED
  BY <1>2, <1>3 DEF F, P, low

(* portfolio.buy's average entry price: what was not due is not due after  *)
(* more of it was bought, and what is bought is not due at once.           *)
LEMMA BoughtSafe ==
  ASSUME BacktestTypeOK, NEW a \in Assets, ~Overdue(a), NEW q \in Nat,
         NEW new, new = Bought(a, q), new.qty > 0
  PROVE  /\ new.cost * (1000 - StopLoss) < 1000 * (new.qty * px[a])
         /\ 1000 * (new.qty * px[a]) < new.cost * (1000 + TakeProfit)
         /\ hour - new.hour < MaxHold
<1> DEFINE F == Fill(a)
           P == px[a]
           low == 1000 - StopLoss
           high == 1000 + TakeProfit
           old == pos[a]
<1>1. /\ F \in Nat /\ P \in Nat /\ low \in Int /\ high \in Int /\ MaxHold \in Nat /\ MaxHold > 0
      /\ old.qty \in Nat /\ old.cost \in Nat /\ old.hour \in Nat /\ hour \in Nat
  <2>1. F \in Nat
    BY FillType
  <2>2. low \in Int /\ high \in Int /\ MaxHold \in Nat /\ MaxHold > 0
    BY BacktestAssumption, StrategyAssumption
  <2>3. P \in Nat /\ hour \in Nat /\ old \in Position
    BY DEF BacktestTypeOK
  <2>4. old.qty \in Nat /\ old.cost \in Nat /\ old.hour \in Nat
    BY <2>3 DEF Position
  <2> QED
    BY <2>1, <2>2, <2>3, <2>4
<1>2. F * low < 1000 * P /\ 1000 * P < F * high
  BY FillSafe
<1>3. old.qty > 0 => /\ old.cost * low < 1000 * (old.qty * P)
                     /\ 1000 * (old.qty * P) < old.cost * high
                     /\ hour - old.hour < MaxHold
  <2> SUFFICES ASSUME old.qty > 0
               PROVE  /\ old.cost * low < 1000 * (old.qty * P)
                      /\ 1000 * (old.qty * P) < old.cost * high
                      /\ hour - old.hour < MaxHold
    OBVIOUS
  <2>1. /\ ~(1000 * (old.qty * P) <= old.cost * low)
        /\ ~(1000 * (old.qty * P) >= old.cost * high)
        /\ ~(hour - old.hour >= MaxHold)
    BY DEF Overdue, Held, Value
  <2> HIDE DEF P, low, high, old
  <2>2. 1000 * (old.qty * P) \in Int /\ old.cost * low \in Int /\ old.cost * high \in Int
    BY <1>1
  <2> QED
    BY <1>1, <2>1, <2>2
<1>4. q > 0 => /\ (q * F) * low < 1000 * (q * P)
               /\ 1000 * (q * P) < (q * F) * high
  <2> HIDE DEF F, P, low, high
  <2>1. F * low \in Int /\ 1000 * P \in Int /\ F * high \in Int
    BY <1>1
  <2>2. q > 0 => (F * low) * q < (1000 * P) * q /\ (1000 * P) * q < (F * high) * q
    BY <1>2, <2>1, Scaled
  <2>3. /\ (F * low) * q = (q * F) * low /\ (1000 * P) * q = 1000 * (q * P)
        /\ (F * high) * q = (q * F) * high
    BY <1>1
  <2> QED
    BY <2>2, <2>3
<1>5. CASE old.qty > 0
  <2>1. new.qty = old.qty + q /\ new.cost = old.cost + q * F /\ new.hour = old.hour
    BY <1>5 DEF Bought
  <2> HIDE DEF F, P, low, high, old
  <2>2. /\ (old.cost + q * F) * low = old.cost * low + (q * F) * low
        /\ (old.cost + q * F) * high = old.cost * high + (q * F) * high
        /\ 1000 * ((old.qty + q) * P) = 1000 * (old.qty * P) + 1000 * (q * P)
    BY <1>1
  <2>3. /\ old.cost * low \in Int /\ (q * F) * low \in Int
        /\ old.cost * high \in Int /\ (q * F) * high \in Int
        /\ 1000 * (old.qty * P) \in Int /\ 1000 * (q * P) \in Int
    BY <1>1
  <2>4. q = 0 => (q * F) * low = 0 /\ (q * F) * high = 0 /\ 1000 * (q * P) = 0
    BY <1>1
  <2>5. (q * F) * low <= 1000 * (q * P) /\ 1000 * (q * P) <= (q * F) * high
    BY <1>4, <2>3, <2>4
  <2>6. /\ old.cost * low + (q * F) * low < 1000 * (old.qty * P) + 1000 * (q * P)
        /\ 1000 * (old.qty * P) + 1000 * (q * P) < old.cost * high + (q * F) * high
    BY <1>3, <1>5, <2>3, <2>5
  <2>7. new.cost * low < 1000 * (new.qty * P) /\ 1000 * (new.qty * P) < new.cost * high
    BY <2>1, <2>2, <2>6
  <2>8. hour - new.hour < MaxHold
    BY <1>3, <1>5, <2>1
  <2> QED
    BY <2>7, <2>8 DEF P, low, high
<1>6. CASE ~(old.qty > 0)
  <2>1. new.qty = q /\ new.cost = q * F /\ new.hour = hour
    BY <1>6 DEF Bought
  <2>2. hour - new.hour < MaxHold
    BY <1>1, <2>1
  <2> QED
    BY <1>4, <2>1, <2>2
<1> QED
  BY <1>5, <1>6

(* A purchase when nothing is due leaves nothing due. *)
LEMMA BuyServed ==
  ASSUME BacktestTypeOK, NEW a \in Assets, NEW usd \in Nat, Buy(a, usd), Exits = {},
         UNCHANGED <<hour, px>>
  PROVE  /\ Exits' = {}
         /\ (\A b \in Held : pos[b].hour <= hour) => (\A b \in Held' : pos'[b].hour <= hour)
<1>1. PICK q \in Nat : /\ pos' = [pos EXCEPT ![a] = Bought(a, q)]
                       /\ pos' \in [Assets -> Position]
  BY BuyType
<1>2. pos \in [Assets -> Position] /\ hour \in Nat
  BY DEF BacktestTypeOK
<1>3. pos'[a] = Bought(a, q) /\ \A b \in Assets : b # a => pos'[b] = pos[b]
  BY <1>1, <1>2
<1>4. ASSUME NEW b \in Assets PROVE ~Overdue(b)'
  <2>1. ~Overdue(b)
    BY DEF Exits
  <2>2. CASE b # a
    <3>1. Overdue(b)' <=> Overdue(b)
      BY <1>3, <2>2 DEF Overdue, Held, Value
    <3> QED
      BY <2>1, <3>1
  <2>3. CASE b = a
    <3> SUFFICES ASSUME Overdue(a)' PROVE FALSE
      BY <2>3
    <3> DEFINE new == pos'[a]
    <3>1. new.qty > 0
      BY DEF Overdue, Held
    <3>2. new = Bought(a, q)
      BY <1>3
    <3>3. /\ new.cost * (1000 - StopLoss) < 1000 * (new.qty * px[a])
          /\ 1000 * (new.qty * px[a]) < new.cost * (1000 + TakeProfit)
          /\ hour - new.hour < MaxHold
      <4> HIDE DEF new
      <4> QED
        BY <2>1, <2>3, <3>1, <3>2, BoughtSafe
    <3>4. \/ 1000 * (new.qty * px[a]) <= new.cost * (1000 - StopLoss)
          \/ 1000 * (new.qty * px[a]) >= new.cost * (1000 + TakeProfit)
          \/ hour - new.hour >= MaxHold
      BY DEF Overdue, Value
    <3>5. /\ new.qty \in Nat /\ new.cost \in Nat /\ new.hour \in Nat /\ px[a] \in Nat
          /\ 1000 - StopLoss \in Int /\ 1000 + TakeProfit \in Int /\ MaxHold \in Int
      BY <1>1, BacktestAssumption DEF Position, BacktestTypeOK
    <3> HIDE DEF new
    <3>6. /\ 1000 * (new.qty * px[a]) \in Int /\ new.cost * (1000 - StopLoss) \in Int
          /\ new.cost * (1000 + TakeProfit) \in Int /\ hour - new.hour \in Int
      BY <1>2, <3>5
    <3> QED
      BY <3>3, <3>4, <3>5, <3>6
  <2> QED
    BY <2>2, <2>3
<1>5. Exits' = {}
  BY <1>4 DEF Exits
<1>6. ASSUME \A b \in Held : pos[b].hour <= hour, NEW b \in Held' PROVE pos'[b].hour <= hour
  <2>1. b \in Assets /\ pos'[b].qty > 0
    BY DEF Held
  <2>2. b # a => pos'[b].hour <= hour
    BY <1>3, <1>6, <2>1 DEF Held
  <2>3. pos'[a].hour \in {pos[a].hour, hour} /\ (pos'[a].hour # hour => a \in Held)
    BY <1>3 DEF Bought, Held
  <2> QED
    BY <1>2, <1>6, <2>2, <2>3
<1> QED
  BY <1>5, <1>6

(* A sale takes the asset off the exits, and nothing else changes them. *)
LEMMA SaleServed ==
  ASSUME BacktestTypeOK, NEW S \in SUBSET Assets, Sell(S), UNCHANGED <<hour, px>>
  PROVE  /\ Held' = Held \ S /\ Exits' = Exits \ S
         /\ \A a \in Held' : pos'[a] = pos[a]
<1>1. \A a \in Assets : pos'[a] = IF a \in S THEN NoPosition ELSE pos[a]
  BY DEF Sell
<1>2. Held' = Held \ S
  BY <1>1 DEF Held, NoPosition
<1>3. \A a \in Assets : a \notin S => (Overdue(a)' <=> Overdue(a))
  BY <1>1, <1>2 DEF Overdue, Value
<1>4. \A a \in S : ~Overdue(a)'
  BY <1>2 DEF Overdue
<1>5. Exits' = Exits \ S
  BY <1>3, <1>4 DEF Exits
<1>6. \A a \in Held \ S : pos'[a] = pos[a]
  BY <1>1 DEF Held
<1> QED
  BY <1>2, <1>5, <1>6

(* The rungs, from the drawdown after the cooldown rule. *)
LEMMA RungSeen ==
  /\ Rung = "flatten" <=> Reaches(Seen, Kill)
  /\ Rung \notin {"flatten", "no_risk"} => ~Reaches(Seen, NoRisk)
BY DEF Rung, Seen

(* Each decision of the champion's tick, and the hour that follows it. *)
LEMMA ServiceStep ==
  BacktestTypeOK /\ ServiceInv /\ [BacktestNext]_backtestVars => ServiceInv'
<1> SUFFICES ASSUME BacktestTypeOK, ServiceInv, [BacktestNext]_backtestVars, Champion'
             PROVE  /\ Cardinality(Exits') <= left'
                    /\ \A a \in Held' : pos'[a].hour <= hour'
                    /\ Reaches(dd', Kill) /\ left' < MaxTrades => Held' = {}
                    /\ Reaches(dd', NoRisk) => \A a \in Held' : pos'[a].hour < hour'
  BY DEF ServiceInv
<1>1. Champion
  BY DEF Champion, BacktestNext, backtestVars, Flatten, Exit, Enter, MicroRebalance, Hold,
         Dca, Idle, NextHour, Decided, market
<1>2. /\ Cardinality(Exits) <= left
      /\ \A a \in Held : pos[a].hour <= hour
      /\ Reaches(dd, Kill) /\ left < MaxTrades => Held = {}
      /\ Reaches(dd, NoRisk) => \A a \in Held : pos[a].hour < hour
  BY <1>1 DEF ServiceInv
<1>3. /\ left \in 0 .. MaxTrades /\ MaxTrades \in Nat /\ hour \in Nat
      /\ pos \in [Assets -> Position]
  BY BacktestAssumption DEF BacktestTypeOK
<1>4. IsFiniteSet(Exits) /\ Cardinality(Exits) \in Nat
  BY Universe, FS_Subset, FS_CardinalityType DEF Exits
<1>5. Cardinality({}) = 0
  BY FS_EmptySet
<1>6. CASE Flatten
  <2>1. Held' = {} /\ Exits' = {}
    <3>1. Held \in SUBSET Assets /\ Sell(Held) /\ UNCHANGED <<hour, px>>
      BY <1>6 DEF Flatten, Decided, market, Held
    <3>2. Held' = Held \ Held /\ Exits' = Exits \ Held
      BY <3>1, SaleServed
    <3> QED
      BY <3>2 DEF Exits, Overdue
  <2>2. left' \in Nat
    BY <1>3, <1>6 DEF Flatten, Decided
  <2>3. Cardinality(Exits') = 0
    BY <1>5, <2>1
  <2> QED
    BY <2>1, <2>2, <2>3
<1>7. CASE Exit
  <2> DEFINE x == Min(Exits)
  <2>1. x \in Exits
    <3>1. Exits \subseteq Nat /\ Exits # {}
      BY <1>7 DEF Exit, Exits, Assets
    <3>2. \E y \in Exits : \A z \in Exits : y <= z
      BY <3>1, LeastOf
    <3> QED
      BY <3>2 DEF Min
  <2>2. /\ {x} \in SUBSET Assets /\ Sell({x}) /\ UNCHANGED <<hour, px>>
        /\ left > 0 /\ left' = left - 1 /\ Rebaseline /\ Rung # "flatten"
    BY <1>7, <2>1 DEF Exit, Decided, market, Exits
  <2>3. Held # {}
    BY <2>1 DEF Exits, Overdue
  <2> HIDE DEF x
  <2>4. /\ Held' = Held \ {x} /\ Exits' = Exits \ {x}
        /\ \A a \in Held' : pos'[a] = pos[a]
    BY <2>2, SaleServed
  <2>5. Cardinality(Exits') = Cardinality(Exits) - 1
    BY <1>4, <2>1, <2>4, FS_RemoveElement
  <2>6. dd' = Seen /\ dd' = dd
    BY <2>2, <2>3, RebaselineType
  <2>7. ~Reaches(dd', Kill)
    <3>1. ~Reaches(Seen, Kill)
      BY <2>2, RungSeen
    <3> QED
      BY <2>6, <3>1
  <2>8. Reaches(dd', NoRisk) => Reaches(dd, NoRisk)
    BY <2>6
  <2> QED
    BY <1>2, <1>3, <1>4, <2>2, <2>4, <2>5, <2>7, <2>8
<1>8. ASSUME NEW a \in Assets, NEW usd \in Nat, Buy(a, usd), Exits = {}, Decided,
             Rebaseline, Rung \notin {"flatten", "no_risk"}
      PROVE  /\ Cardinality(Exits') <= left'
             /\ \A b \in Held' : pos'[b].hour <= hour'
             /\ Reaches(dd', Kill) /\ left' < MaxTrades => Held' = {}
             /\ Reaches(dd', NoRisk) => \A b \in Held' : pos'[b].hour < hour'
  <2>1. UNCHANGED <<hour, px>> /\ left' = left - 1 /\ left > 0
    BY <1>8 DEF Decided, market
  <2>2. Exits' = {} /\ \A b \in Held' : pos'[b].hour <= hour
    BY <1>2, <1>8, <2>1, BuyServed
  <2>3. dd' = Seen
    BY <1>8, RebaselineType
  <2>4. ~Reaches(dd', Kill) /\ ~Reaches(dd', NoRisk)
    <3>1. ~Reaches(Seen, Kill) /\ ~Reaches(Seen, NoRisk)
      BY <1>8, RungSeen
    <3> QED
      BY <2>3, <3>1
  <2>5. Cardinality(Exits') = 0
    BY <1>5, <2>2
  <2> QED
    BY <1>3, <2>1, <2>2, <2>4, <2>5
<1>9. CASE Enter
  <2>1. reading.best \in Assets /\ EntrySize \in Nat
    BY <1>9, ReadingType DEF Enter
  <2> QED
    BY <1>8, <1>9, <2>1 DEF Enter
<1>10. CASE MicroRebalance
  <2>1. reading.pick \in Assets /\ Micro \in Nat
    BY <1>10, ReadingType, BacktestAssumption DEF MicroRebalance
  <2> QED
    BY <1>8, <1>10, <2>1 DEF MicroRebalance
<1>11. CASE Hold
  <2>1. UNCHANGED <<hour, px, pos>> /\ left' = 0 /\ Rebaseline
    BY <1>11 DEF Hold, market
  <2>2. Held' = Held /\ Exits' = Exits
    BY <2>1 DEF Held, Exits, Overdue, Value
  <2>3. Exits = {}
    <3>1. Held = {} => Exits = {}
      BY DEF Exits, Overdue
    <3> QED
      BY <1>11, <3>1 DEF Hold
  <2>4. dd' = Seen /\ (Held # {} => dd' = dd)
    BY <2>1, RebaselineType
  <2>5. Reaches(dd', Kill) => Held = {}
    <3>1. Reaches(dd', Kill) => Reaches(Seen, Kill)
      BY <2>4
    <3>2. Rung = "flatten" => Held = {}
      BY <1>11 DEF Hold
    <3> QED
      BY <3>1, <3>2, RungSeen
  <2>6. Held # {} => (Reaches(dd', NoRisk) => Reaches(dd, NoRisk))
    BY <2>4
  <2>7. Cardinality(Exits') = 0
    BY <1>5, <2>2, <2>3
  <2> QED
    BY <1>2, <2>1, <2>2, <2>5, <2>6, <2>7
<1>12. CASE NextHour
  <2>1. UNCHANGED pos /\ hour' = hour + 1 /\ left' = MaxTrades
    BY <1>12 DEF NextHour
  <2>2. Held' = Held
    BY <2>1 DEF Held
  <2>3. ASSUME NEW a \in Held PROVE pos'[a].hour < hour'
    <3>1. pos[a].hour <= hour /\ pos[a].hour \in Nat
      BY <1>2, <1>3 DEF Held, Position
    <3> QED
      BY <1>3, <2>1, <3>1
  <2>4. Cardinality(Exits') <= MaxTrades
    <3>1. Exits' \subseteq Assets
      BY DEF Exits
    <3>2. Cardinality(Exits') <= Cardinality(Assets) /\ Cardinality(Exits') \in Nat
      BY <3>1, Universe, FS_Subset, FS_CardinalityType
    <3> QED
      BY <1>3, <3>2, Universe, StrategyAssumption, BacktestAssumption
  <2>5. \A a \in Held : pos'[a].hour <= hour'
    <3>1. \A a \in Held : pos[a].hour \in Nat
      BY <1>3 DEF Held, Position
    <3> QED
      BY <1>3, <2>1, <2>3, <3>1
  <2> QED
    BY <1>3, <2>1, <2>2, <2>3, <2>4, <2>5
<1>13. CASE UNCHANGED backtestVars
  <2>1. UNCHANGED <<hour, px, pos, left, drawdown_history>>
    BY <1>13 DEF backtestVars, market, portfolio, history
  <2>2. Held' = Held /\ Exits' = Exits /\ dd' = dd
    BY <2>1 DEF Held, Exits, Overdue, Value, dd
  <2> QED
    BY <1>2, <2>1, <2>2
<1>14. ~Dca /\ ~Idle
  BY <1>1 DEF Dca, Idle
<1> QED
  BY <1>6, <1>7, <1>9, <1>10, <1>11, <1>12, <1>13, <1>14 DEF BacktestNext

(* The first hour holds nothing. *)
LEMMA ServiceInit == BacktestInit => ServiceInv
<1> SUFFICES ASSUME BacktestInit PROVE ServiceInv
  OBVIOUS
<1>1. Held = {} /\ Exits = {}
  BY DEF BacktestInit, Held, Exits, Overdue, NoPosition
<1>2. Cardinality(Exits) = 0 /\ left \in Nat
  BY <1>1, FS_EmptySet, BacktestAssumption DEF BacktestInit
<1> QED
  BY <1>1, <1>2 DEF ServiceInv

(* portfolio.py, champion.py and challenger.py: whatever is bought and     *)
(* sold, no purchase overdraws the cash, no position is negative and every *)
(* drawdown is a loss out of a positive peak.                              *)
THEOREM BacktestTypeCorrect == BacktestSpec => []BacktestTypeOK
BY BacktestInitType, BacktestTypeStep, PTL DEF BacktestSpec

(* run._run_strategy with champion.decide: with a decision for each asset  *)
(* of the universe, whatever the market does, a tick ends with every due   *)
(* exit taken and the ladder obeyed.                                       *)
THEOREM ServiceTheorem == BacktestSpec => []TickServiced
<1>1. BacktestTypeOK /\ ServiceInv => TickServiced
  <2> SUFFICES ASSUME BacktestTypeOK, ServiceInv, Champion PROVE TickServiced
    BY DEF TickServiced
  <2>1. /\ Cardinality(Exits) <= left
        /\ Reaches(dd, Kill) /\ left < MaxTrades => Held = {}
        /\ Reaches(dd, NoRisk) => \A a \in Held : pos[a].hour < hour
    BY DEF ServiceInv
  <2>2. ASSUME left = 0, NEW a \in Held
        PROVE  /\ 1000 * Value(a) > pos[a].cost * (1000 - StopLoss)
               /\ 1000 * Value(a) < pos[a].cost * (1000 + TakeProfit)
               /\ hour - pos[a].hour < MaxHold
    <3>1. IsFiniteSet(Exits) /\ Cardinality(Exits) \in Nat
      BY Universe, FS_Subset, FS_CardinalityType DEF Exits
    <3>2. Exits = {}
      BY <2>1, <2>2, <3>1, FS_EmptySet
    <3>3. a \in Assets /\ ~Overdue(a)
      BY <3>2 DEF Exits, Held
    <3>4. /\ Value(a) \in Nat /\ pos[a].cost \in Nat /\ pos[a].hour \in Nat /\ hour \in Nat
          /\ 1000 - StopLoss \in Int /\ 1000 + TakeProfit \in Int /\ MaxHold \in Int
      BY <3>3, Worth, BacktestAssumption DEF BacktestTypeOK, Position
    <3>5. /\ ~(1000 * Value(a) <= pos[a].cost * (1000 - StopLoss))
          /\ ~(1000 * Value(a) >= pos[a].cost * (1000 + TakeProfit))
          /\ ~(hour - pos[a].hour >= MaxHold)
      BY <3>3 DEF Overdue
    <3>6. pos[a].cost * (1000 - StopLoss) \in Int /\ pos[a].cost * (1000 + TakeProfit) \in Int
      BY <3>4
    <3> QED
      BY <3>4, <3>5, <3>6
  <2>3. left = 0 /\ Reaches(dd, Kill) => Held = {}
    BY <2>1, StrategyAssumption
  <2> QED
    BY <2>1, <2>2, <2>3 DEF TickServiced
<1>2. BacktestSpec => []ServiceInv
  BY ServiceInit, ServiceStep, BacktestTypeCorrect, PTL DEF BacktestSpec
<1> QED
  BY <1>1, <1>2, BacktestTypeCorrect, PTL

-----------------------------------------------------------------------------
(* The reports of the backtest *)

(* What a pass over the curve carries. *)
Marks == [peak : Int, worst : Nat]

(* T follows a pass over the curve, mark by mark. *)
Follows(T, from, s) ==
    /\ T[0] = from
    /\ \A k \in 1 .. Len(s) : T[k] = Worse(T[k - 1], s[k])

(* One NAV more: the mark is the higher, the worst no smaller than before  *)
(* and than the fall to this NAV, and one of the two.                      *)
LEMMA WorseFacts ==
  ASSUME NEW w \in Marks, NEW n \in Nat
  PROVE  LET v == Worse(w, n)
             f == Fell(v.peak, n)
         IN  /\ v \in Marks /\ f \in Nat
             /\ v.peak >= w.peak /\ v.peak >= n /\ v.peak \in {w.peak, n}
             /\ v.worst = IF f > w.worst THEN f ELSE w.worst
<1> DEFINE peak == IF n > w.peak THEN n ELSE w.peak
           f == Fell(peak, n)
<1>1. peak \in Nat /\ peak >= n /\ peak >= w.peak /\ peak \in {w.peak, n} /\ w.worst \in Nat
  BY DEF Marks
<1>2. Worse(w, n) = [peak |-> peak, worst |-> IF f > w.worst THEN f ELSE w.worst]
  BY DEF Worse
<1> HIDE DEF peak
<1>3. f \in Nat
  <2>1. 1000 * (peak - n) \in Nat
    BY <1>1
  <2> DEFINE m == 1000 * (peak - n)
  <2> HIDE DEF m
  <2>2. peak > 0 => m \div peak \in Nat
    BY <1>1, <2>1, Quotient DEF m
  <2> QED
    BY <2>2 DEF m, Fell
<1> HIDE DEF f
<1>4. /\ Worse(w, n).peak = peak
      /\ Worse(w, n).worst = IF f > w.worst THEN f ELSE w.worst
      /\ Worse(w, n) \in Marks
  BY <1>1, <1>2, <1>3 DEF Marks
<1> QED
  BY <1>1, <1>3, <1>4 DEF f

(* The loop of max_drawdown_pct: a pass has a mark for every NAV. *)
LEMMA PassFollows ==
  ASSUME NEW s \in Seq(Nat), NEW from \in Marks
  PROVE  \E T : Follows(T, from, s) /\ Pass(from, s) = T[Len(s)]
<1> DEFINE Table(k, g) == g = [i \in 0 .. k |-> IF i = 0 THEN from ELSE Worse(g[i - 1], s[i])]
           E == {k \in Nat : \E g : Table(k, g)}
<1>1. 0 \in E
  <2> DEFINE g == [i \in 0 .. 0 |-> from]
  <2>1. Table(0, g)
    OBVIOUS
  <2> QED
    BY <2>1
<1>2. ASSUME NEW k \in Nat, k \in E PROVE k + 1 \in E
  <2>1. PICK g : Table(k, g)
    BY <1>2
  <2>2. \A i \in 0 .. k : g[i] = IF i = 0 THEN from ELSE Worse(g[i - 1], s[i])
    BY <2>1
  <2> DEFINE h == [i \in 0 .. k + 1 |-> IF i <= k THEN g[i] ELSE Worse(g[k], s[k + 1])]
  <2>3. ASSUME NEW i \in 0 .. k + 1
        PROVE  h[i] = IF i = 0 THEN from ELSE Worse(h[i - 1], s[i])
    <3>1. CASE i = 0
      BY <2>2, <3>1
    <3>2. CASE i # 0 /\ i <= k
      <4>1. i \in 0 .. k /\ i - 1 \in 0 .. k
        BY <3>2
      <4>2. h[i] = g[i] /\ h[i - 1] = g[i - 1]
        BY <3>2, <4>1
      <4> HIDE DEF h
      <4> QED
        BY <2>2, <3>2, <4>1, <4>2
    <3>3. CASE i = k + 1
      <4>1. h[i] = Worse(g[k], s[k + 1]) /\ h[i - 1] = g[k]
        BY <3>3
      <4> HIDE DEF h
      <4> QED
        BY <3>3, <4>1
    <3> QED
      BY <3>1, <3>2, <3>3
  <2>4. h = [i \in 0 .. k + 1 |-> h[i]]
    OBVIOUS
  <2> HIDE DEF h
  <2>5. Table(k + 1, h)
    BY <2>3, <2>4
  <2> HIDE DEF Table
  <2> QED
    BY <2>5
<1>3. \A k \in Nat : k \in E
  <2> HIDE DEF E
  <2> QED
    BY <1>1, <1>2, NumberInduction
<1>4. Len(s) \in Nat
  OBVIOUS
<1> DEFINE T == CHOOSE g : Table(Len(s), g)
<1>5. Table(Len(s), T)
  BY <1>3, <1>4
<1>6. Pass(from, s) = T[Len(s)]
  BY DEF Pass
<1> HIDE DEF T
<1>7. \A i \in 0 .. Len(s) : T[i] = IF i = 0 THEN from ELSE Worse(T[i - 1], s[i])
  BY <1>5
<1>8. T[0] = from
  BY <1>4, <1>7
<1>9. ASSUME NEW i \in 1 .. Len(s) PROVE T[i] = Worse(T[i - 1], s[i])
  <2>1. i \in 0 .. Len(s) /\ i # 0
    BY <1>4
  <2> QED
    BY <1>7, <2>1
<1> QED
  BY <1>6, <1>8, <1>9 DEF Follows

(* All along a pass: types, and the mark is the highest NAV so far. *)
LEMMA PassFacts ==
  ASSUME NEW s \in Seq(Nat), NEW from \in Marks, NEW T, Follows(T, from, s)
  PROVE  \A k \in 0 .. Len(s) :
            /\ T[k] \in Marks /\ T[k].peak >= from.peak
            /\ \A i \in 1 .. k : T[k].peak >= s[i]
            /\ T[k].peak = from.peak \/ \E i \in 1 .. k : T[k].peak = s[i]
<1> DEFINE Good(k) == /\ T[k] \in Marks /\ T[k].peak >= from.peak
                      /\ \A i \in 1 .. k : T[k].peak >= s[i]
                      /\ T[k].peak = from.peak \/ \E i \in 1 .. k : T[k].peak = s[i]
           E == {k \in Nat : k <= Len(s) => Good(k)}
<1>1. 0 \in E
  BY DEF Follows, Marks
<1>2. ASSUME NEW k \in Nat, k \in E PROVE k + 1 \in E
  <2> SUFFICES ASSUME k + 1 <= Len(s) PROVE Good(k + 1)
    <3> HIDE DEF Good
    <3> QED
      OBVIOUS
  <2>1. Good(k) /\ k + 1 \in 1 .. Len(s) /\ s[k + 1] \in Nat
    <3>1. Len(s) \in Nat /\ k <= Len(s)
      OBVIOUS
    <3>2. Good(k)
      BY <1>2, <3>1
    <3> QED
      BY <3>1, <3>2
  <2>2. T[k + 1] = Worse(T[k], s[k + 1])
    BY <2>1 DEF Follows
  <2>3. /\ T[k + 1] \in Marks /\ T[k + 1].peak >= T[k].peak /\ T[k + 1].peak >= s[k + 1]
        /\ T[k + 1].peak \in {T[k].peak, s[k + 1]}
    BY <2>1, <2>2, WorseFacts
  <2>4. T[k].peak \in Int /\ T[k + 1].peak \in Int /\ from.peak \in Int
    BY <2>1, <2>3 DEF Marks
  <2>5. \A i \in 1 .. k + 1 : T[k + 1].peak >= s[i]
    <3> SUFFICES ASSUME NEW i \in 1 .. k + 1 PROVE T[k + 1].peak >= s[i]
      OBVIOUS
    <3>1. CASE i = k + 1
      BY <2>3, <3>1
    <3>2. CASE i \in 1 .. k
      <4>1. T[k].peak >= s[i]
        BY <2>1, <3>2
      <4>2. s[i] \in Nat
        <5>1. i \in 1 .. Len(s)
          BY <2>1, <3>2
        <5> QED
          BY <5>1
      <4> DEFINE up == T[k + 1].peak
                 low == T[k].peak
                 nav == s[i]
      <4>3. up >= low /\ low >= nav /\ up \in Int /\ low \in Int /\ nav \in Int
        BY <2>3, <2>4, <4>1, <4>2
      <4>4. up >= nav
        <5> HIDE DEF up, low, nav
        <5> QED
          BY <4>3
      <4> QED
        BY <4>4
    <3> QED
      BY <3>1, <3>2
  <2>6. T[k + 1].peak >= from.peak
    <3>1. T[k].peak >= from.peak
      BY <2>1
    <3> HIDE DEF Good
    <3> QED
      BY <2>3, <2>4, <3>1
  <2>7. T[k + 1].peak = from.peak \/ \E i \in 1 .. k + 1 : T[k + 1].peak = s[i]
    <3>1. 1 .. k \subseteq 1 .. k + 1 /\ k + 1 \in 1 .. k + 1
      OBVIOUS
    <3> QED
      BY <2>1, <2>3, <3>1
  <2> QED
    BY <2>3, <2>5, <2>6, <2>7
<1>3. \A k \in Nat : k \in E
  <2> HIDE DEF E
  <2> QED
    BY <1>1, <1>2, NumberInduction
<1> QED
  BY <1>3

(* The worst of a pass stays below what every fall stays below. *)
LEMMA WorstBelow ==
  ASSUME NEW s \in Seq(Nat), NEW from \in Marks, NEW T, Follows(T, from, s),
         NEW g \in Nat, from.worst < g,
         \A k \in 1 .. Len(s) : Fell(T[k].peak, s[k]) < g
  PROVE  T[Len(s)].worst < g
<1> DEFINE E == {k \in Nat : k <= Len(s) => T[k].worst < g}
<1>1. 0 \in E
  BY DEF Follows
<1>2. ASSUME NEW k \in Nat, k \in E PROVE k + 1 \in E
  <2> SUFFICES ASSUME k + 1 <= Len(s) PROVE T[k + 1].worst < g
    OBVIOUS
  <2>1. Len(s) \in Nat /\ k \in 0 .. Len(s) /\ k + 1 \in 1 .. Len(s)
    OBVIOUS
  <2>2. T[k].worst < g /\ T[k] \in Marks /\ s[k + 1] \in Nat
    BY <1>2, <2>1, PassFacts
  <2>3. T[k + 1] = Worse(T[k], s[k + 1])
    BY <2>1 DEF Follows
  <2>4. T[k + 1].worst \in {Fell(T[k + 1].peak, s[k + 1]), T[k].worst}
    <3>1. Worse(T[k], s[k + 1]).worst \in {Fell(Worse(T[k], s[k + 1]).peak, s[k + 1]), T[k].worst}
      BY <2>2, WorseFacts
    <3> QED
      BY <2>3, <3>1
  <2>5. Fell(T[k + 1].peak, s[k + 1]) < g
    BY <2>1
  <2> QED
    BY <2>2, <2>4, <2>5
<1>3. \A k \in Nat : k \in E
  <2> HIDE DEF E
  <2> QED
    BY <1>1, <1>2, NumberInduction
<1> QED
  BY <1>3

(* A fall that is short of the gate from a peak is short of it from a      *)
(* lower one.                                                              *)
LEMMA FellShort ==
  ASSUME NEW p \in Nat, NEW top \in Nat, NEW n \in Nat, n <= p, p <= top,
         NEW g \in Nat \ {0}, ~((top - n) * 1000 >= g * top)
  PROVE  Fell(p, n) < g
<1>1. CASE p = 0
  BY <1>1 DEF Fell
<1>2. CASE p > 0
  <2> DEFINE m == 1000 * (p - n)
             f == m \div p
  <2>1. m \in Nat
    OBVIOUS
  <2> HIDE DEF m
  <2>2. f \in Nat /\ f * p <= m
    BY <1>2, <2>1, Quotient
  <2> HIDE DEF f
  <2>3. ASSUME f >= g PROVE FALSE
    <3>1. g * p <= f * p
      BY <2>2, <2>3, Scaled
    <3>2. g * p \in Nat /\ f * p \in Nat /\ (1000 - g) * p = 1000 * p - g * p
      BY <2>2, Product
    <3>3. 1000 * n <= (1000 - g) * p
      BY <2>2, <3>1, <3>2 DEF m
    <3>4. 1000 - g >= 0
      <4>1. 1000 - g < 0 => (1000 - g) * p < 0 * p
        BY <1>2, Scaled
      <4> QED
        BY <3>2, <3>3, <4>1
    <3>5. p * (1000 - g) <= top * (1000 - g)
      BY <3>4, Scaled
    <3>6. top * (1000 - g) = 1000 * top - g * top /\ g * top \in Nat
          /\ p * (1000 - g) = (1000 - g) * p
      BY Product
    <3>7. 1000 * n <= 1000 * top - g * top
      BY <3>2, <3>3, <3>5, <3>6
    <3> QED
      BY <3>6, <3>7
  <2>4. Fell(p, n) = f
    BY <1>2 DEF Fell, f, m
  <2> QED
    BY <2>2, <2>3, <2>4
<1> QED
  BY <1>1, <1>2

(* A fall that reaches the gate reaches it rounded down, too. *)
LEMMA FellReaches ==
  ASSUME NEW p \in Nat \ {0}, NEW n \in Nat, n <= p, NEW g \in Nat,
         (p - n) * 1000 >= g * p
  PROVE  Fell(p, n) >= g
<1> DEFINE m == 1000 * (p - n)
           f == m \div p
<1>1. m \in Nat /\ m >= g * p
  OBVIOUS
<1> HIDE DEF m
<1>2. f \in Nat /\ m < f * p + p
  BY <1>1, Quotient
<1> HIDE DEF f
<1>3. g > f => (f + 1) * p <= g * p
  BY <1>2, Scaled
<1>4. (f + 1) * p = f * p + p /\ f * p \in Nat /\ g * p \in Nat
  BY <1>2, Product
<1>5. f >= g
  BY <1>1, <1>2, <1>3, <1>4
<1>6. Fell(p, n) = f
  BY DEF Fell, f, m
<1> QED
  BY <1>5, <1>6

(* The challenger's mark is the highest NAV, as it never re-bases. *)
LEMMA PeakStep ==
  BacktestTypeOK /\ PeakInv /\ [BacktestNext]_backtestVars => PeakInv'
<1> SUFFICES ASSUME BacktestTypeOK, PeakInv, [BacktestNext]_backtestVars, ~Champion'
             PROVE  PeakInv'
  BY DEF PeakInv
<1>1. ~Champion
  BY DEF Champion, BacktestNext, backtestVars, Flatten, Exit, Enter, MicroRebalance, Hold,
         Dca, Idle, NextHour, Decided, market
<1> DEFINE navs == nav_history
           dds == drawdown_history
<1>2. /\ Len(dds) = Len(navs) /\ Highest(hwm, Len(navs))
      /\ \A h \in 1 .. Len(navs) : /\ dds[h].loss = dds[h].of - navs[h]
                                   /\ Highest(dds[h].of, h)
  BY <1>1 DEF PeakInv
<1>3. navs \in Seq(Nat) /\ dds \in Seq(Losses) /\ hwm \in Nat /\ Cash0 \in Nat \ {0}
  BY BacktestAssumption DEF BacktestTypeOK, Losses
<1>4. CASE UNCHANGED <<hwm, nav_history, drawdown_history>>
  BY <1>2, <1>4 DEF PeakInv, Highest
<1>5. CASE NextHour
  <2> DEFINE top == IF Nav > hwm THEN Nav ELSE hwm
             n == Len(navs)
  <2>1. Nav \in Nat
    BY Worth
  <2>2. hwm >= Cash0 /\ n \in Nat
    BY <1>2, <1>3 DEF Highest
  <2>3. top \in Nat \ {0} /\ top >= hwm /\ top >= Nav /\ top \in {Nav, hwm} /\ top >= Cash0
    BY <1>3, <2>1, <2>2
  <2>4. hwm' = top /\ navs' = Append(navs, Nav) /\ dds' = Append(dds, Drop(top, Nav))
    BY <1>5, <2>3 DEF NextHour, Mark
  <2>5. /\ Len(navs') = n + 1 /\ Len(dds') = n + 1
        /\ navs'[n + 1] = Nav /\ dds'[n + 1] = Drop(top, Nav)
        /\ \A i \in 1 .. n : navs'[i] = navs[i] /\ dds'[i] = dds[i]
    BY <1>2, <1>3, <2>1, <2>4
  <2> HIDE DEF top
  <2>6. /\ \A i \in 1 .. n + 1 : top >= navs'[i]
        /\ top = Cash0 \/ \E i \in 1 .. n + 1 : top = navs'[i]
    <3>1. ASSUME NEW i \in 1 .. n + 1 PROVE top >= navs'[i]
      <4>1. CASE i = n + 1
        BY <2>3, <2>5, <4>1
      <4>2. CASE i \in 1 .. n
        <5>1. hwm >= navs[i] /\ navs[i] \in Nat
          BY <1>2, <1>3, <4>2 DEF Highest
        <5> QED
          BY <1>3, <2>3, <2>5, <4>2, <5>1
      <4> QED
        BY <2>2, <4>1, <4>2
    <3>2. top = Nav => top = navs'[n + 1] /\ n + 1 \in 1 .. n + 1
      BY <2>2, <2>5
    <3>3. top = hwm => top = Cash0 \/ \E i \in 1 .. n : top = navs'[i]
      BY <1>2, <2>5 DEF Highest
    <3>4. 1 .. n \subseteq 1 .. n + 1
      BY <2>2
    <3> QED
      BY <2>3, <3>1, <3>2, <3>3, <3>4
  <2>7. \A h \in 1 .. n + 1 :
           /\ dds'[h].loss = dds'[h].of - navs'[h] /\ dds'[h].of >= Cash0
           /\ \A i \in 1 .. h : dds'[h].of >= navs'[i]
           /\ dds'[h].of = Cash0 \/ \E i \in 1 .. h : dds'[h].of = navs'[i]
    <3> SUFFICES ASSUME NEW h \in 1 .. n + 1
                 PROVE  /\ dds'[h].loss = dds'[h].of - navs'[h] /\ dds'[h].of >= Cash0
                        /\ \A i \in 1 .. h : dds'[h].of >= navs'[i]
                        /\ dds'[h].of = Cash0 \/ \E i \in 1 .. h : dds'[h].of = navs'[i]
      OBVIOUS
    <3>1. CASE h = n + 1
      <4>1. dds'[h].loss = top - Nav /\ dds'[h].of = top /\ navs'[h] = Nav
        BY <2>5, <3>1 DEF Drop
      <4> QED
        BY <2>3, <2>6, <3>1, <4>1
    <3>2. CASE h \in 1 .. n
      <4>1. dds'[h] = dds[h] /\ navs'[h] = navs[h]
        BY <2>5, <3>2
      <4>2. \A i \in 1 .. h : navs'[i] = navs[i]
        BY <2>2, <2>5, <3>2
      <4>3. dds[h].loss = dds[h].of - navs[h] /\ Highest(dds[h].of, h)
        BY <1>2, <3>2
      <4> HIDE DEF navs, dds
      <4> QED
        BY <4>1, <4>2, <4>3 DEF Highest, navs
    <3> QED
      BY <2>2, <3>1, <3>2
  <2> QED
    BY <2>3, <2>4, <2>5, <2>6, <2>7 DEF PeakInv, Highest
<1>6. Dca \/ Idle \/ UNCHANGED backtestVars => UNCHANGED <<hwm, nav_history, drawdown_history>>
  BY DEF Dca, Idle, Decided, backtestVars, portfolio, history
<1>7. Dca \/ Idle \/ NextHour \/ UNCHANGED backtestVars
  BY <1>1 DEF BacktestNext, Flatten, Exit, Enter, MicroRebalance, Hold
<1> QED
  BY <1>4, <1>5, <1>6, <1>7

(* A pass over the first n NAVs of the challenger, as the worst of the     *)
(* curve is taken.                                                         *)
LEMMA CurvePass ==
  ASSUME BacktestTypeOK, NEW n \in 0 .. Len(nav_history)
  PROVE  LET s == SubSeq(nav_history, 1, n)
         IN  /\ s \in Seq(Nat) /\ Len(s) = n /\ Unseen \in Marks
             /\ \A i \in 1 .. n : s[i] = nav_history[i]
             /\ \E T : Follows(T, Unseen, s) /\ max_drawdown_pct(s) = T[n].worst
<1> DEFINE s == SubSeq(nav_history, 1, n)
<1>1. nav_history \in Seq(Nat) /\ Len(nav_history) \in Nat /\ n \in Nat
  BY DEF BacktestTypeOK
<1>2. 1 \in Int /\ n \in Int /\ \A i \in 1 .. n : nav_history[i] \in Nat
  BY <1>1
<1>3. /\ s \in Seq(Nat) /\ Len(s) = IF 1 <= n THEN n - 1 + 1 ELSE 0
      /\ \A i \in 1 .. n - 1 + 1 : s[i] = nav_history[1 + i - 1]
  BY <1>2, SubSeqProperties
<1>4. Len(s) = n /\ \A i \in 1 .. n : s[i] = nav_history[i]
  BY <1>1, <1>3
<1>5. Unseen \in Marks
  BY DEF Unseen, Marks
<1> HIDE DEF s
<1>6. PICK T : Follows(T, Unseen, s) /\ Pass(Unseen, s) = T[Len(s)]
  BY <1>3, <1>5, PassFollows
<1>7. max_drawdown_pct(s) = T[n].worst
  BY <1>4, <1>6 DEF max_drawdown_pct
<1> QED
  BY <1>3, <1>4, <1>5, <1>6, <1>7 DEF s

(* No hour of the challenger reached the gate: nor did its curve. *)
LEMMA NotYet ==
  ASSUME BacktestTypeOK, PeakInv, ~Champion, NEW n \in 0 .. Len(nav_history),
         \A h \in 1 .. n : ~Reaches(drawdown_history[h], Gate)
  PROVE  max_drawdown_pct(SubSeq(nav_history, 1, n)) < Gate
<1> DEFINE s == SubSeq(nav_history, 1, n)
<1>1. /\ s \in Seq(Nat) /\ Len(s) = n /\ Unseen \in Marks
      /\ \A i \in 1 .. n : s[i] = nav_history[i]
      /\ \E T : Follows(T, Unseen, s) /\ max_drawdown_pct(s) = T[n].worst
  BY CurvePass
<1> HIDE DEF s
<1>2. PICK T : Follows(T, Unseen, s) /\ max_drawdown_pct(s) = T[n].worst
  BY <1>1
<1>3. Gate \in Nat \ {0} /\ Unseen.worst < Gate
  BY BacktestAssumption DEF Unseen
<1>4. ASSUME NEW k \in 1 .. n PROVE Fell(T[k].peak, s[k]) < Gate
  <2> DEFINE top == drawdown_history[k].of
             p == T[k].peak
  <2>0. n \in Nat /\ n <= Len(nav_history) /\ Len(nav_history) \in Nat
    BY DEF BacktestTypeOK
  <2>1. k \in 0 .. Len(s) /\ k \in 1 .. Len(nav_history) /\ 1 \in 1 .. k
    BY <1>1, <2>0
  <2>2. /\ \A i \in 1 .. k : p >= s[i]
        /\ p = -1 \/ \E i \in 1 .. k : p = s[i]
        /\ p \in Int
    <3>1. \A j \in 0 .. Len(s) :
             /\ T[j] \in Marks /\ T[j].peak >= Unseen.peak
             /\ \A i \in 1 .. j : T[j].peak >= s[i]
             /\ T[j].peak = Unseen.peak \/ \E i \in 1 .. j : T[j].peak = s[i]
      <4>1. s \in Seq(Nat) /\ Unseen \in Marks /\ Follows(T, Unseen, s)
        BY <1>1, <1>2
      <4> QED
        BY <4>1, PassFacts
    <3>2. Unseen.peak = -1
      BY DEF Unseen
    <3> QED
      BY <2>1, <3>1, <3>2 DEF Marks
  <2>3. /\ drawdown_history[k].loss = top - nav_history[k]
        /\ \A i \in 1 .. k : top >= nav_history[i]
    BY <2>1 DEF PeakInv, Highest
  <2>4. \A i \in 1 .. k : i \in 1 .. n /\ s[i] = nav_history[i] /\ s[i] \in Nat
    BY <1>1, <2>0
  <2>5. top \in Nat
    <3>1. drawdown_history[k] \in Losses
      <4>1. drawdown_history \in Seq(Losses) /\ Len(drawdown_history) = Len(nav_history)
        BY DEF PeakInv, BacktestTypeOK, Losses
      <4> QED
        BY <2>1, <4>1
    <3> QED
      BY <3>1 DEF Losses
  <2> HIDE DEF p, top
  <2>6. p \in Nat /\ p <= top
    <3>1. p >= s[1] /\ s[1] \in Nat
      BY <2>1, <2>2, <2>4
    <3>2. PICK i \in 1 .. k : p = s[i]
      BY <2>2, <3>1
    <3> QED
      BY <2>3, <2>4, <3>2
  <2>7. s[k] \in Nat /\ s[k] <= p /\ s[k] = nav_history[k]
    <3>1. k \in 1 .. k
      BY <2>1
    <3> QED
      BY <2>2, <2>4, <2>6, <3>1
  <2>8. ~((top - s[k]) * 1000 >= Gate * top)
    BY <2>3, <2>7 DEF Reaches, top
  <2>9. Fell(p, s[k]) < Gate
    BY <1>3, <2>5, <2>6, <2>7, <2>8, FellShort
  <2> QED
    BY <2>9 DEF p
<1>5. T[Len(s)].worst < Gate
  BY <1>1, <1>2, <1>3, <1>4, WorstBelow
<1> QED
  BY <1>1, <1>2, <1>5 DEF s

(* An hour reached the gate, and the first tick did not trade: so has the  *)
(* curve by this hour.                                                     *)
LEMMA ByThen ==
  ASSUME BacktestTypeOK, PeakInv, ~Champion, NEW n \in 1 .. Len(nav_history),
         Reaches(drawdown_history[n], Gate), nav_history[1] = Cash0
  PROVE  max_drawdown_pct(SubSeq(nav_history, 1, n)) >= Gate
<1> DEFINE s == SubSeq(nav_history, 1, n)
           top == drawdown_history[n].of
<1>0. n \in 0 .. Len(nav_history) /\ n \in Nat /\ 1 \in 1 .. n /\ n \in 1 .. n
  BY DEF BacktestTypeOK
<1>1. /\ s \in Seq(Nat) /\ Len(s) = n /\ Unseen \in Marks
      /\ \A i \in 1 .. n : s[i] = nav_history[i]
      /\ \E T : Follows(T, Unseen, s) /\ max_drawdown_pct(s) = T[n].worst
  BY <1>0, CurvePass
<1> HIDE DEF s
<1>2. PICK T : Follows(T, Unseen, s) /\ max_drawdown_pct(s) = T[n].worst
  BY <1>1
<1> DEFINE p == T[n].peak
<1>3. /\ \A i \in 1 .. n : p >= s[i]
      /\ p = -1 \/ \E i \in 1 .. n : p = s[i]
      /\ p \in Int
  <2>1. n \in 0 .. Len(s)
    BY <1>0, <1>1
  <2> QED
    <3>1. \A j \in 0 .. Len(s) :
             /\ T[j] \in Marks /\ T[j].peak >= Unseen.peak
             /\ \A i \in 1 .. j : T[j].peak >= s[i]
             /\ T[j].peak = Unseen.peak \/ \E i \in 1 .. j : T[j].peak = s[i]
      <4>1. s \in Seq(Nat) /\ Unseen \in Marks /\ Follows(T, Unseen, s)
        BY <1>1, <1>2
      <4> QED
        BY <4>1, PassFacts
    <3>2. Unseen.peak = -1
      BY DEF Unseen
    <3> QED
      BY <2>1, <3>1, <3>2 DEF Marks
<1>4. /\ drawdown_history[n].loss = top - nav_history[n]
      /\ \A i \in 1 .. n : top >= nav_history[i]
      /\ top = Cash0 \/ \E i \in 1 .. n : top = nav_history[i]
  BY DEF PeakInv, Highest
<1>5. top \in Nat \ {0}
  <2>1. drawdown_history[n] \in Losses
    <3>1. drawdown_history \in Seq(Losses) /\ Len(drawdown_history) = Len(nav_history)
      BY DEF PeakInv, BacktestTypeOK, Losses
    <3> QED
      BY <3>1
  <2> QED
    BY <2>1 DEF Losses
<1>6. \A i \in 1 .. n : s[i] \in Nat
  BY <1>1
<1>7. p = top
  <2> HIDE DEF p, top
  <2>1. p >= s[1] /\ s[1] \in Nat /\ s[1] = Cash0
    BY <1>0, <1>1, <1>3, <1>6
  <2>2. p >= top
    BY <1>1, <1>3, <1>4, <2>1
  <2>3. PICK i \in 1 .. n : p = s[i]
    BY <1>3, <2>1
  <2>4. p <= top
    BY <1>1, <1>4, <2>3
  <2> QED
    BY <1>3, <1>5, <2>2, <2>4
<1>8. /\ s[n] \in Nat /\ s[n] <= top /\ (top - s[n]) * 1000 >= Gate * top
      /\ Gate \in Nat
  BY <1>0, <1>1, <1>3, <1>4, <1>6, <1>7, BacktestAssumption DEF Reaches
<1>9. Fell(p, s[n]) >= Gate
  <2> HIDE DEF p, top
  <2> QED
    BY <1>5, <1>7, <1>8, FellReaches
<1>10. T[n].worst >= Fell(p, s[n]) /\ T[n].worst \in Nat /\ Fell(p, s[n]) \in Nat
  <2>1. n \in 1 .. Len(s) /\ n - 1 \in 0 .. Len(s)
    BY <1>0, <1>1
  <2>2. T[n] = Worse(T[n - 1], s[n]) /\ T[n - 1] \in Marks /\ s[n] \in Nat
    <3>1. \A j \in 0 .. Len(s) : T[j] \in Marks
      BY <1>1, <1>2, PassFacts
    <3>2. \A j \in 1 .. Len(s) : T[j] = Worse(T[j - 1], s[j])
      BY <1>2 DEF Follows
    <3> QED
      BY <1>8, <2>1, <3>1, <3>2
  <2> DEFINE v == Worse(T[n - 1], s[n])
  <2>3. /\ v \in Marks /\ Fell(v.peak, s[n]) \in Nat
        /\ v.worst = IF Fell(v.peak, s[n]) > T[n - 1].worst
                     THEN Fell(v.peak, s[n]) ELSE T[n - 1].worst
    BY <2>2, WorseFacts
  <2>4. v = T[n]
    BY <2>2
  <2>5. T[n - 1].worst \in Nat
    BY <2>2 DEF Marks
  <2> HIDE DEF v
  <2>6. v.worst >= Fell(v.peak, s[n]) /\ v.worst \in Nat
    BY <2>3, <2>5
  <2> QED
    BY <2>3, <2>4, <2>6
<1>11. T[n].worst >= Gate
  <2> HIDE DEF p
  <2> QED
    BY <1>8, <1>9, <1>10
<1> QED
  BY <1>2, <1>11 DEF s

(* The higher of three numbers. *)
LEMMA HigherOf ==
  ASSUME NEW x \in Nat, NEW y \in Nat, NEW z \in Nat, NEW f \in Nat, NEW u, NEW v,
         x = IF y > z THEN y ELSE z,
         u = IF f > x THEN f ELSE x,
         v = IF f > y THEN f ELSE y
  PROVE  u = IF v > z THEN v ELSE z
OBVIOUS

(* A pass over a stretch that starts with the mark of a pass over the      *)
(* whole has the same marks, and the worst of the whole is the worst       *)
(* before the stretch or in it.                                            *)
LEMMA Splice ==
  ASSUME NEW s \in Seq(Nat), NEW T, Follows(T, Unseen, s),
         NEW lo \in 0 .. Len(s), NEW hi \in lo .. Len(s),
         NEW w \in Seq(Nat), Len(w) = hi - lo, \A i \in 1 .. hi - lo : w[i] = s[lo + i],
         NEW from, from = [peak |-> T[lo].peak, worst |-> 0],
         NEW W, Follows(W, from, w)
  PROVE  /\ from \in Marks /\ W[hi - lo] \in Marks /\ W[hi - lo].peak = T[hi].peak
         /\ T[hi].worst = IF W[hi - lo].worst > T[lo].worst THEN W[hi - lo].worst
                                                            ELSE T[lo].worst
<1>1. Unseen \in Marks /\ Len(s) \in Nat /\ lo \in Nat /\ hi \in Nat /\ hi - lo \in Nat
  BY DEF Unseen, Marks
<1>2. \A k \in 0 .. Len(s) : T[k] \in Marks
  BY <1>1, PassFacts
<1>3. from \in Marks /\ T[lo] \in Marks
  BY <1>2 DEF Marks
<1>4. \A k \in 0 .. hi - lo : W[k] \in Marks
  BY <1>3, PassFacts
<1> DEFINE Joined(k) == /\ W[k].peak = T[lo + k].peak
                        /\ T[lo + k].worst = IF W[k].worst > T[lo].worst THEN W[k].worst
                                                                         ELSE T[lo].worst
           E == {k \in Nat : k <= hi - lo => Joined(k)}
<1>5. 0 \in E
  <2>1. W[0].peak = T[lo].peak /\ W[0].worst = 0 /\ lo + 0 = lo /\ T[lo].worst \in Nat
    BY <1>1, <1>3 DEF Follows, Marks
  <2> QED
    BY <2>1
<1>6. ASSUME NEW k \in Nat, k \in E PROVE k + 1 \in E
  <2> SUFFICES ASSUME k + 1 <= hi - lo PROVE Joined(k + 1)
    <3> HIDE DEF Joined
    <3> QED
      OBVIOUS
  <2>1. Joined(k)
    <3>1. k <= hi - lo
      BY <1>1
    <3> HIDE DEF Joined
    <3> QED
      BY <1>6, <3>1
  <2> DEFINE n == s[lo + k + 1]
             a == T[lo + k]
             b == W[k]
  <2>2. lo + k + 1 \in 1 .. Len(s) /\ lo + k \in 0 .. Len(s) /\ k \in 0 .. hi - lo
        /\ k + 1 \in 1 .. Len(w) /\ (lo + k + 1) - 1 = lo + k /\ (k + 1) - 1 = k
        /\ lo + (k + 1) = lo + k + 1
    <3>1. lo + k + 1 <= hi /\ hi <= Len(s) /\ Len(w) = hi - lo
      BY <1>1
    <3>2. lo + k + 1 \in 1 .. Len(s) /\ lo + k \in 0 .. Len(s)
      <4> DEFINE L == Len(s)
      <4>1. L \in Nat /\ lo \in Nat /\ hi \in Nat /\ lo + k + 1 <= hi /\ hi <= L
        BY <1>1, <3>1
      <4> HIDE DEF L
      <4>2. lo + k + 1 \in 1 .. L /\ lo + k \in 0 .. L
        BY <4>1
      <4> QED
        BY <4>2 DEF L
    <3>3. k \in 0 .. hi - lo /\ k + 1 \in 1 .. Len(w)
      BY <1>1, <3>1
    <3>4. (lo + k + 1) - 1 = lo + k /\ (k + 1) - 1 = k /\ lo + (k + 1) = lo + k + 1
      BY <1>1
    <3> QED
      BY <3>2, <3>3, <3>4
  <2>3. n \in Nat /\ w[k + 1] = n /\ a \in Marks /\ b \in Marks /\ T[lo].worst \in Nat
    <3>1. n \in Nat
      BY <2>2
    <3>2. w[k + 1] = s[lo + (k + 1)]
      BY <2>2
    <3>3. T[lo].worst \in Nat
      BY <1>3 DEF Marks
    <3> QED
      BY <1>2, <1>4, <2>2, <3>1, <3>2, <3>3
  <2>4. T[lo + k + 1] = Worse(a, n)
    <3>1. T[lo + k + 1] = Worse(T[(lo + k + 1) - 1], s[lo + k + 1])
      BY <2>2 DEF Follows
    <3> QED
      BY <2>2, <3>1
  <2>5. W[k + 1] = Worse(b, n)
    <3>1. W[k + 1] = Worse(W[(k + 1) - 1], w[k + 1])
      BY <2>2 DEF Follows
    <3> QED
      BY <2>2, <2>3, <3>1
  <2>6. a.peak = b.peak /\ a.worst = IF b.worst > T[lo].worst THEN b.worst ELSE T[lo].worst
    BY <2>1
  <2> HIDE DEF a, b, n
  <2>7. Worse(a, n).peak = Worse(b, n).peak
    BY <2>6 DEF Worse
  <2> DEFINE f == Fell(Worse(a, n).peak, n)
  <2>8. /\ f \in Nat
        /\ Worse(a, n).worst = IF f > a.worst THEN f ELSE a.worst
    BY <2>3, WorseFacts
  <2>9. Worse(b, n).worst = IF f > b.worst THEN f ELSE b.worst
    <3>1. LET g == Fell(Worse(b, n).peak, n)
          IN  Worse(b, n).worst = IF g > b.worst THEN g ELSE b.worst
      BY <2>3, WorseFacts
    <3> QED
      BY <2>7, <3>1
  <2>10. b.worst \in Nat /\ a.worst \in Nat
    BY <2>3 DEF Marks
  <2> HIDE DEF f
  <2>11. Worse(a, n).worst = IF Worse(b, n).worst > T[lo].worst THEN Worse(b, n).worst
                                                               ELSE T[lo].worst
    <3> DEFINE x == a.worst
               y == b.worst
               z == T[lo].worst
               u == Worse(a, n).worst
               v == Worse(b, n).worst
    <3>1. /\ x \in Nat /\ y \in Nat /\ z \in Nat /\ f \in Nat
          /\ x = IF y > z THEN y ELSE z
          /\ u = IF f > x THEN f ELSE x
          /\ v = IF f > y THEN f ELSE y
      BY <2>3, <2>6, <2>8, <2>9, <2>10
    <3>2. u = IF v > z THEN v ELSE z
      <4> HIDE DEF x, y, z, u, v
      <4> QED
        BY <3>1, HigherOf
    <3> QED
      BY <3>2
  <2> QED
    BY <2>2, <2>4, <2>5, <2>7, <2>11
<1>7. \A k \in Nat : k \in E
  <2> HIDE DEF E
  <2> QED
    BY <1>5, <1>6, NumberInduction
<1>8. Joined(hi - lo)
  BY <1>1, <1>7
<1>9. lo + (hi - lo) = hi /\ hi - lo \in 0 .. hi - lo
  BY <1>1
<1> QED
  BY <1>3, <1>4, <1>8, <1>9

(* R follows _per_regime_drawdown, regime by regime. *)
Regimes(R, s) ==
    /\ R[0] = [peak |-> -1, out |-> <<>>]
    /\ \A i \in 1 .. Len(Bounds) - 1 : R[i] = OneRegime(R[i - 1], Window(i, s))

(* Its outer loop. *)
LEMMA RegimesFollow ==
  ASSUME NEW s
  PROVE  \E R : Regimes(R, s) /\ per_regime_drawdown(s) = R[Len(Bounds) - 1].out
<1> DEFINE first == [peak |-> -1, out |-> <<>>]
           Table(k, g) == g = [i \in 0 .. k |-> IF i = 0 THEN first
                                                ELSE OneRegime(g[i - 1], Window(i, s))]
           E == {k \in Nat : \E g : Table(k, g)}
<1>1. 0 \in E
  <2> DEFINE g == [i \in 0 .. 0 |-> first]
  <2>1. Table(0, g)
    OBVIOUS
  <2> QED
    BY <2>1
<1>2. ASSUME NEW k \in Nat, k \in E PROVE k + 1 \in E
  <2>1. PICK g : Table(k, g)
    BY <1>2
  <2> HIDE DEF first
  <2>2. \A i \in 0 .. k : g[i] = IF i = 0 THEN first ELSE OneRegime(g[i - 1], Window(i, s))
    BY <2>1
  <2> DEFINE h == [i \in 0 .. k + 1 |-> IF i <= k THEN g[i]
                                        ELSE OneRegime(g[k], Window(k + 1, s))]
  <2>3. ASSUME NEW i \in 0 .. k + 1
        PROVE  h[i] = IF i = 0 THEN first ELSE OneRegime(h[i - 1], Window(i, s))
    <3>1. CASE i = 0
      BY <2>2, <3>1
    <3>2. CASE i # 0 /\ i <= k
      <4>1. i \in 0 .. k /\ i - 1 \in 0 .. k
        BY <3>2
      <4>2. h[i] = g[i] /\ h[i - 1] = g[i - 1]
        BY <3>2, <4>1
      <4> HIDE DEF h
      <4> QED
        BY <2>2, <3>2, <4>1, <4>2
    <3>3. CASE i = k + 1
      <4>1. h[i] = OneRegime(g[k], Window(k + 1, s)) /\ h[i - 1] = g[k]
        BY <3>3
      <4> HIDE DEF h
      <4> QED
        BY <3>3, <4>1
    <3> QED
      BY <3>1, <3>2, <3>3
  <2>4. h = [i \in 0 .. k + 1 |-> h[i]]
    OBVIOUS
  <2> HIDE DEF h
  <2>5. Table(k + 1, h)
    BY <2>3, <2>4
  <2> HIDE DEF Table
  <2> QED
    BY <2>5
<1>3. \A k \in Nat : k \in E
  <2> HIDE DEF E
  <2> QED
    BY <1>1, <1>2, NumberInduction
<1> DEFINE last == Len(Bounds) - 1
<1>4. last \in Nat
  BY BacktestAssumption
<1> DEFINE R == CHOOSE g : Table(last, g)
<1>5. Table(last, R)
  BY <1>3, <1>4
<1>6. per_regime_drawdown(s) = R[last].out
  BY DEF per_regime_drawdown
<1> HIDE DEF R, last, first
<1>7. \A i \in 0 .. last : R[i] = IF i = 0 THEN first ELSE OneRegime(R[i - 1], Window(i, s))
  BY <1>5
<1>8. R[0] = first
  BY <1>4, <1>7
<1>9. ASSUME NEW i \in 1 .. last PROVE R[i] = OneRegime(R[i - 1], Window(i, s))
  <2>1. i \in 0 .. last /\ i # 0
    BY <1>4
  <2> QED
    BY <1>7, <2>1
<1> QED
  BY <1>6, <1>8, <1>9 DEF Regimes, last, first

(* The hours of the curve before a regime's bound. *)
Before(j, s) == IF Bounds[j + 1] < Len(s) THEN Bounds[j + 1] ELSE Len(s)

(* A regime's window goes from the hours before it to those before the     *)
(* next, and is empty where the curve has ended.                           *)
LEMMA WindowFacts ==
  ASSUME NEW s \in Seq(Nat), NEW i \in 1 .. Len(Bounds) - 1
  PROVE  LET lo == Before(i - 1, s)
             hi == Before(i, s)
             w == Window(i, s)
         IN  /\ lo \in 0 .. Len(s) /\ hi \in lo .. Len(s)
             /\ w \in Seq(Nat) /\ Len(w) = hi - lo
             /\ \A k \in 1 .. hi - lo : w[k] = s[lo + k]
<1> DEFINE L == Len(s)
           b == Bounds[i]
           c == Bounds[i + 1]
           lo == IF b < L THEN b ELSE L
           hi == IF c < L THEN c ELSE L
           w == SubSeq(s, b + 1, hi)
<1>1. L \in Nat /\ b \in Nat /\ c \in Nat /\ b <= c
  BY BacktestAssumption
<1>2. Before(i - 1, s) = lo /\ Before(i, s) = hi
  <2>1. (i - 1) + 1 = i
    OBVIOUS
  <2> QED
    BY <2>1 DEF Before
<1>3. Window(i, s) = w
  <2>1. Min({c, L}) = hi
    <3> DEFINE S == {c, L}
    <3>1. hi \in S /\ \A y \in S : hi <= y
      BY <1>1
    <3>2. Min(S) \in S /\ \A y \in S : Min(S) <= y
      BY <3>1 DEF Min
    <3>3. Min(S) <= hi /\ hi <= Min(S) /\ Min(S) \in Int /\ hi \in Int
      BY <1>1, <3>1, <3>2
    <3> HIDE DEF S, hi
    <3>4. Min(S) = hi
      BY <3>3
    <3> QED
      BY <3>4 DEF S
  <2> QED
    BY <2>1 DEF Window
<1>4. lo \in 0 .. L /\ hi \in lo .. L /\ hi \in Nat
  <2> HIDE DEF L, b, c
  <2> QED
    BY <1>1
<1>5. \A k \in b + 1 .. hi : s[k] \in Nat
  <2>1. \A k \in 1 .. L : s[k] \in Nat
    OBVIOUS
  <2>2. \A k \in b + 1 .. hi : k \in 1 .. L
    <3> HIDE DEF L, b, c
    <3> QED
      BY <1>1
  <2> HIDE DEF L, hi, b, c
  <2> QED
    BY <2>1, <2>2
<1> HIDE DEF hi, L, b, c
<1>6. /\ w \in Seq(Nat) /\ Len(w) = IF b + 1 <= hi THEN hi - (b + 1) + 1 ELSE 0
      /\ \A k \in 1 .. hi - (b + 1) + 1 : w[k] = s[b + 1 + k - 1]
  <2> DEFINE m == b + 1
  <2>1. m \in Int /\ hi \in Int /\ \A k \in m .. hi : s[k] \in Nat
    BY <1>1, <1>4, <1>5
  <2> HIDE DEF m
  <2>2. /\ SubSeq(s, m, hi) \in Seq(Nat)
        /\ Len(SubSeq(s, m, hi)) = IF m <= hi THEN hi - m + 1 ELSE 0
        /\ \A k \in 1 .. hi - m + 1 : SubSeq(s, m, hi)[k] = s[m + k - 1]
    BY <2>1, SubSeqProperties
  <2> QED
    BY <2>2 DEF m
<1> HIDE DEF w
<1>7. Len(w) = hi - lo /\ \A k \in 1 .. hi - lo : w[k] = s[lo + k]
  <2>1. CASE b < L
    <3>1. lo = b /\ b <= hi
      BY <1>1, <2>1 DEF hi
    <3>2. Len(w) = hi - lo /\ hi - (b + 1) + 1 = hi - lo
      BY <1>1, <1>4, <1>6, <3>1
    <3>3. ASSUME NEW k \in 1 .. hi - lo PROVE w[k] = s[lo + k]
      <4>1. b + 1 + k - 1 = lo + k
        BY <1>1, <3>1
      <4> QED
        BY <1>6, <3>2, <4>1
    <3> QED
      BY <3>2, <3>3
  <2>2. CASE ~(b < L)
    <3>1. lo = L /\ hi = L
      BY <1>1, <2>2 DEF hi
    <3>2. Len(w) = 0
      BY <1>1, <1>6, <2>2, <3>1
    <3> QED
      BY <1>1, <3>1, <3>2
  <2> QED
    BY <2>1, <2>2
<1> HIDE DEF lo
<1> QED
  BY <1>2, <1>3, <1>4, <1>6, <1>7 DEF L

(* run._per_regime_drawdown and metrics.max_drawdown_pct: of a curve that  *)
(* the regimes cover, the worst of them is the worst of the curve.         *)
LEMMA RegimesAgree ==
  ASSUME NEW s \in Seq(Nat), Len(s) <= Last(Bounds)
  PROVE  Max(Range(per_regime_drawdown(s))) = max_drawdown_pct(s)
<1> DEFINE m == Len(Bounds) - 1
           B(j) == Before(j, s)
<1>1. m \in Nat /\ m > 0 /\ Len(s) \in Nat
  BY BacktestAssumption
<1>2. Unseen \in Marks
  BY DEF Unseen, Marks
<1>3. PICK T : Follows(T, Unseen, s) /\ Pass(Unseen, s) = T[Len(s)]
  BY <1>2, PassFollows
<1>4. PICK R : Regimes(R, s) /\ per_regime_drawdown(s) = R[m].out
  BY RegimesFollow
<1>5. B(0) = 0 /\ B(m) = Len(s)
  <2>1. Bounds[0 + 1] = 0 /\ m + 1 = Len(Bounds) /\ Bounds[m + 1] \in Nat
    BY BacktestAssumption
  <2>2. Len(s) <= Bounds[m + 1]
    BY <2>1 DEF Last
  <2> QED
    BY <1>1, <2>1, <2>2 DEF Before
<1> DEFINE out(j) == R[j].out
           top(j) == T[B(j)].worst
           Agree(j) == /\ R[j].peak = T[B(j)].peak
                       /\ out(j) \in Seq(Nat) /\ Len(out(j)) = j
                       /\ \A i \in 1 .. j : out(j)[i] <= top(j)
                       /\ j > 0 => \E i \in 1 .. j : out(j)[i] = top(j)
           E == {j \in Nat : j <= m => Agree(j)}
<1>6. 0 \in E
  <2>1. R[0] = [peak |-> -1, out |-> <<>>] /\ T[B(0)] = Unseen
    BY <1>3, <1>4, <1>5 DEF Regimes, Follows
  <2>2. Agree(0)
    BY <2>1 DEF Unseen
  <2> HIDE DEF Agree
  <2> QED
    BY <2>2
<1>7. ASSUME NEW j \in Nat, j \in E PROVE j + 1 \in E
  <2> SUFFICES ASSUME j + 1 <= m PROVE Agree(j + 1)
    <3> HIDE DEF Agree
    <3> QED
      OBVIOUS
  <2>1. Agree(j)
    <3>1. j <= m
      BY <1>1
    <3> HIDE DEF Agree
    <3> QED
      BY <1>7, <3>1
  <2> DEFINE i == j + 1
             lo == B(j)
             hi == B(i)
             w == Window(i, s)
             from == [peak |-> R[j].peak, worst |-> 0]
  <2>2. i \in 1 .. Len(Bounds) - 1 /\ i - 1 = j
    BY <1>1
  <2>3. /\ lo \in 0 .. Len(s) /\ hi \in lo .. Len(s)
        /\ w \in Seq(Nat) /\ Len(w) = hi - lo
        /\ \A k \in 1 .. hi - lo : w[k] = s[lo + k]
    <3> HIDE DEF i
    <3>1. LET l == Before(i - 1, s)
              h == Before(i, s)
          IN  /\ l \in 0 .. Len(s) /\ h \in l .. Len(s)
              /\ w \in Seq(Nat) /\ Len(w) = h - l
              /\ \A k \in 1 .. h - l : w[k] = s[l + k]
      BY <2>2, WindowFacts
    <3> QED
      BY <2>2, <3>1
  <2>4. from = [peak |-> T[lo].peak, worst |-> 0]
    BY <2>1
  <2>5. from \in Marks
    <3>1. T[lo] \in Marks
      BY <1>2, <1>3, <2>3, PassFacts
    <3> QED
      BY <2>4, <3>1 DEF Marks
  <2> HIDE DEF i, lo, hi, w, from
  <2>6. PICK W : Follows(W, from, w) /\ Pass(from, w) = W[Len(w)]
    BY <2>3, <2>5, PassFollows
  <2> DEFINE p == W[hi - lo]
  <2>7. /\ p \in Marks /\ p.peak = T[hi].peak
        /\ T[hi].worst = IF p.worst > T[lo].worst THEN p.worst ELSE T[lo].worst
    BY <1>3, <2>3, <2>4, <2>6, Splice
  <2>8. R[i] = [peak |-> p.peak, out |-> Append(out(j), p.worst)]
    <3>1. R[i] = OneRegime(R[i - 1], Window(i, s))
      BY <1>4, <2>2 DEF Regimes
    <3>2. R[i] = OneRegime(R[j], w)
      BY <2>2, <3>1 DEF w
    <3>3. Pass(from, w) = p
      BY <2>3, <2>6
    <3> QED
      BY <3>2, <3>3 DEF OneRegime, from
  <2>9. T[lo].worst \in Nat /\ p.worst \in Nat /\ T[hi].worst \in Nat
    <3>1. T[lo] \in Marks
      BY <1>2, <1>3, <2>3, PassFacts
    <3> HIDE DEF p
    <3> QED
      BY <2>7, <3>1 DEF Marks
  <2> DEFINE x == p.worst
             o == out(j)
             q == out(i)
  <2>10. /\ o \in Seq(Nat) /\ Len(o) = j /\ \A k \in 1 .. j : o[k] <= T[lo].worst
         /\ j > 0 => \E k \in 1 .. j : o[k] = T[lo].worst
    BY <2>1 DEF lo
  <2>11. q = Append(o, x) /\ R[i].peak = T[hi].peak
    BY <2>7, <2>8
  <2>12. j = 0 => T[lo].worst = 0
    <3>1. j = 0 => lo = 0
      BY <1>5 DEF lo
    <3>2. T[0].worst = 0
      BY <1>3 DEF Follows, Unseen
    <3> QED
      BY <3>1, <3>2
  <2> HIDE DEF o, q, x, out
  <2>13. /\ q \in Seq(Nat) /\ Len(q) = j + 1 /\ q[j + 1] = x
         /\ \A k \in 1 .. j : q[k] = o[k]
    BY <2>9, <2>10, <2>11 DEF x
  <2> DEFINE high == T[hi].worst
             past == T[lo].worst
  <2>14. /\ high \in Nat /\ past \in Nat /\ x \in Nat
         /\ high = IF x > past THEN x ELSE past
    BY <2>7, <2>9 DEF x
  <2>15. /\ \A k \in 1 .. j : o[k] \in Nat /\ o[k] <= past
         /\ j > 0 => \E k \in 1 .. j : o[k] = past
         /\ j = 0 => past = 0
    BY <2>10, <2>12
  <2> HIDE DEF high, past
  <2>16. \A k \in 1 .. j + 1 : q[k] <= high
    <3> SUFFICES ASSUME NEW k \in 1 .. j + 1 PROVE q[k] <= high
      OBVIOUS
    <3>1. CASE k = j + 1
      BY <2>13, <2>14, <3>1
    <3>2. CASE k \in 1 .. j
      <4>1. q[k] = o[k] /\ o[k] \in Nat /\ o[k] <= past
        BY <2>13, <2>15, <3>2
      <4> QED
        BY <2>14, <4>1
    <3> QED
      BY <3>1, <3>2
  <2>17. \E k \in 1 .. j + 1 : q[k] = high
    <3>1. CASE high = x
      <4>1. j + 1 \in 1 .. j + 1 /\ q[j + 1] = high
        BY <2>13, <3>1
      <4> QED
        BY <4>1
    <3>2. CASE high # x
      <4>1. high = past /\ x <= past /\ j # 0
        BY <2>14, <2>15, <3>2
      <4>2. PICK k \in 1 .. j : o[k] = past
        BY <2>15, <4>1
      <4>3. k \in 1 .. j + 1 /\ q[k] = high
        BY <2>13, <4>1, <4>2
      <4> QED
        BY <4>3
    <3> QED
      BY <3>1, <3>2
  <2>18. high = top(j + 1) /\ q = out(j + 1) /\ R[j + 1].peak = T[B(j + 1)].peak
    BY <2>11 DEF high, hi, q, i
  <2> HIDE DEF top, B
  <2> QED
    BY <2>13, <2>16, <2>17, <2>18
<1>8. \A j \in Nat : j \in E
  <2> HIDE DEF E
  <2> QED
    BY <1>6, <1>7, NumberInduction
<1>9. Agree(m)
  <2> HIDE DEF Agree
  <2> QED
    BY <1>1, <1>8
<1> DEFINE S == Range(R[m].out)
           worst == T[Len(s)].worst
<1>10. /\ R[m].out \in Seq(Nat) /\ Len(R[m].out) = m
       /\ \A i \in 1 .. m : R[m].out[i] <= worst
       /\ \E i \in 1 .. m : R[m].out[i] = worst
  BY <1>1, <1>5, <1>9
<1>11. S = {R[m].out[i] : i \in 1 .. m}
  BY <1>10 DEF Range
<1>12. \A i \in 1 .. m : R[m].out[i] \in Nat
  <2> DEFINE o == R[m].out
  <2>1. o \in Seq(Nat) /\ Len(o) = m
    BY <1>10
  <2> HIDE DEF o, m
  <2>2. \A i \in 1 .. m : o[i] \in Nat
    BY <2>1, ElementOfSeq
  <2> QED
    BY <2>2 DEF o
<1> HIDE DEF worst
<1>13. worst \in S /\ S \subseteq Nat /\ \A y \in S : worst >= y
  <2> HIDE DEF S
  <2>1. PICK i \in 1 .. m : R[m].out[i] = worst
    BY <1>10
  <2>2. worst \in Nat /\ worst \in S
    BY <1>11, <1>12, <2>1
  <2>3. S \subseteq Nat
    BY <1>11, <1>12
  <2>4. ASSUME NEW y \in S PROVE worst >= y
    <3>1. PICK k \in 1 .. m : y = R[m].out[k]
      BY <1>11
    <3>2. y <= worst /\ y \in Nat
      BY <1>10, <2>3, <3>1
    <3> QED
      BY <2>2, <3>2
  <2> QED
    BY <2>2, <2>3, <2>4
<1> HIDE DEF S, worst, B, out, top, Agree, E
<1>14. Max(S) = worst
  <2>1. Max(S) \in S /\ \A y \in S : Max(S) >= y
    BY <1>13 DEF Max
  <2>2. Max(S) >= worst /\ worst >= Max(S) /\ Max(S) \in Nat /\ worst \in Nat
    BY <1>13, <2>1
  <2> QED
    BY <2>2
<1>15. max_drawdown_pct(s) = worst
  BY <1>3 DEF max_drawdown_pct, worst
<1>16. Max(Range(per_regime_drawdown(s))) = Max(S)
  BY <1>4 DEF S
<1> QED
  BY <1>14, <1>15, <1>16

(* metrics.py and run.py on every NAV curve a run can make: the regimes'   *)
(* drawdowns, the curve's and the challenger's elimination hour agree.     *)
THEOREM ReportsTheorem == BacktestSpec => []ReportsAgree
<1>1. BacktestTypeOK /\ PeakInv => ReportsAgree
  <2> SUFFICES ASSUME BacktestTypeOK, PeakInv PROVE ReportsAgree
    OBVIOUS
  <2> DEFINE navs == nav_history
             n == Len(navs)
             worst(k) == max_drawdown_pct(SubSeq(navs, 1, k))
             hit == {h \in DOMAIN drawdown_history : Reaches(drawdown_history[h], Gate)}
             hour0 == first_breach_hour
  <2>1. navs \in Seq(Nat) /\ n \in Nat
    BY DEF BacktestTypeOK
  <2>2. SubSeq(navs, 1, n) = navs
    BY <2>1
  <2>3. n <= Last(Bounds) => Max(Range(per_regime_drawdown(navs))) = worst(n)
    <3>1. n <= Last(Bounds) =>
             Max(Range(per_regime_drawdown(navs))) = max_drawdown_pct(navs)
      BY <2>1, RegimesAgree
    <3>2. worst(n) = max_drawdown_pct(navs)
      BY <2>2
    <3> QED
      BY <3>1, <3>2
  <2>4. ASSUME ~Champion
        PROVE  /\ hour0 = 0 => worst(n) < Gate
               /\ hour0 > 0 => worst(hour0 - 1) < Gate
               /\ hour0 > 0 /\ navs[1] = Cash0 => worst(hour0) >= Gate
    <3>1. DOMAIN drawdown_history = 1 .. n
      <4>1. drawdown_history \in Seq(Losses) /\ Len(drawdown_history) = n
        BY <2>4 DEF PeakInv, BacktestTypeOK, Losses
      <4> QED
        BY <4>1
    <3>2. hit \subseteq 1 .. n /\ hit \subseteq Nat
          /\ \A h \in 1 .. n : h \notin hit => ~Reaches(drawdown_history[h], Gate)
      BY <2>1, <3>1
    <3>3. CASE hit = {}
      <4>1. hour0 = 0
        BY <3>3 DEF first_breach_hour
      <4>2. n \in 0 .. n /\ \A h \in 1 .. n : ~Reaches(drawdown_history[h], Gate)
        BY <2>1, <3>2, <3>3
      <4>3. worst(n) < Gate
        BY <2>4, <4>2, NotYet
      <4> QED
        BY <4>1, <4>3
    <3>4. CASE hit # {}
      <4>1. hour0 = Min(hit)
        BY <3>4 DEF first_breach_hour
      <4>2. \E x \in hit : \A y \in hit : x <= y
        <5> HIDE DEF hit
        <5> QED
          BY <3>2, <3>4, LeastOf
      <4>3. hour0 \in hit /\ \A y \in hit : hour0 <= y
        <5> HIDE DEF hit
        <5> QED
          BY <4>1, <4>2 DEF Min
      <4>4. hour0 \in 1 .. n /\ Reaches(drawdown_history[hour0], Gate)
        BY <3>2, <4>3
      <4> HIDE DEF hour0
      <4>5. hour0 - 1 \in 0 .. n /\ \A h \in 1 .. hour0 - 1 : h \in 1 .. n /\ h \notin hit
        <5> HIDE DEF hit
        <5>1. ASSUME NEW h \in 1 .. hour0 - 1 PROVE h \in 1 .. n /\ h \notin hit
          BY <2>1, <4>3, <4>4
        <5> QED
          BY <2>1, <4>4, <5>1
      <4>6. worst(hour0 - 1) < Gate
        <5>1. \A h \in 1 .. hour0 - 1 : ~Reaches(drawdown_history[h], Gate)
          <6> HIDE DEF hit
          <6> QED
            BY <3>2, <4>5
        <5> QED
          BY <2>4, <4>5, <5>1, NotYet
      <4>7. navs[1] = Cash0 => worst(hour0) >= Gate
        BY <2>4, <4>4, ByThen
      <4>8. hour0 # 0
        BY <4>4
      <4> QED
        BY <4>6, <4>7, <4>8
    <3> QED
      BY <3>3, <3>4
  <2> QED
    BY <2>3, <2>4 DEF ReportsAgree
<1>2. BacktestInit => PeakInv
  <2> SUFFICES ASSUME BacktestInit PROVE PeakInv
    OBVIOUS
  <2>1. nav_history = <<>> /\ drawdown_history = <<>> /\ hwm = Cash0 /\ Cash0 \in Nat
    BY BacktestAssumption DEF BacktestInit
  <2> QED
    BY <2>1 DEF PeakInv, Highest
<1>3. BacktestSpec => []PeakInv
  BY <1>2, PeakStep, BacktestTypeCorrect, PTL DEF BacktestSpec
<1> QED
  BY <1>1, <1>3, BacktestTypeCorrect, PTL
=============================================================================
