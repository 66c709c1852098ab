------------------------- MODULE PositionMarkProofs -------------------------
(***************************************************************************)
(* The columns that one exit tick leaves to the next are all that the      *)
(* stops of a position need: MarkInv is kept by every step, for every set  *)
(* of ticks, every multiple and every level of the rules, and it implies   *)
(* that a position that is still held has reached no stop.                 *)
(***************************************************************************)
EXTENDS PositionMark, TLAPS

-----------------------------------------------------------------------------
(* The rules.                                                              *)

\* The columns of a row.
LEMMA RowFields ==
    ASSUME NEW p \in Rows
    PROVE  /\ p.peak \in Nat /\ p.last \in Nat /\ p.armed \in BOOLEAN
           /\ p.flatSince \in Nat \cup {NotFlat} /\ p.exit \in Exits
  BY DEF Rows

\* What two multiples weigh against each other.
LEMMA Weighed ==
    ASSUME NEW m \in Nat, NEW n \in Nat PROVE m * n \in Nat
  OBVIOUS

\* A row without a mark has reached no stop.
LEMMA NewRowHeld == NewRow \in Rows /\ NewRow.exit = "none" /\ NoStop(NewRow)
<1>1. NewRow \in Rows /\ NewRow.exit = "none" /\ NewRow.peak = One /\ NewRow.last = One /\ ~NewRow.armed
  BY MarkAssumption DEF NewRow, Rows, Exits
<1>2. One * One > One * TrailKeep
  BY MarkAssumption
<1> QED
  BY <1>1, <1>2, MarkAssumption DEF NoStop

\* _mark: the columns after a mark of x.
LEMMA MarkedRow ==
    ASSUME TypeOK, NEW p \in Rows, NEW x \in Nat
    PROVE  LET q == Marked(p, x)
           IN  q \in Rows /\ q.exit = p.exit /\ q.last = x /\ MarkOf(q, p)
<1> DEFINE peak == IF x > p.peak THEN x ELSE p.peak
           armed == p.armed \/ x >= BreakEvenArm
           flat == IF ~Flat(x) THEN NotFlat ELSE IF p.flatSince = NotFlat THEN hour ELSE p.flatSince
<1>1. peak \in Nat
  BY RowFields
<1>2. flat \in Nat \cup {NotFlat}
  BY RowFields DEF TypeOK
<1>3. armed \in BOOLEAN
  OBVIOUS
<1>4. Marked(p, x) = [p EXCEPT !.peak = peak, !.last = x, !.armed = armed, !.flatSince = flat]
  BY DEF Marked
<1>5. peak = (IF x > p.peak THEN x ELSE p.peak) /\ (armed <=> (p.armed \/ x >= BreakEvenArm))
  OBVIOUS
<1> HIDE DEF peak, armed, flat
<1>6. ASSUME NEW q, q = [p EXCEPT !.peak = peak, !.last = x, !.armed = armed, !.flatSince = flat]
      PROVE  /\ q \in Rows /\ q.exit = p.exit /\ q.last = x /\ q.peak = peak
             /\ q.armed = armed
  BY <1>1, <1>2, <1>3, <1>6 DEF Rows
<1> QED
  BY <1>4, <1>5, <1>6 DEF MarkOf

\* evaluate_exit answers with one of its labels, and with none only if no stop and
\* no target is reached.
LEMMA VerdictStops ==
    ASSUME NEW p \in Rows, NEW drained \in BOOLEAN
    PROVE  /\ Verdict(p, drained) \in Exits
           /\ Verdict(p, drained) = "none" => NoStop(p)
<1>1. p.last \in Nat /\ p.peak \in Nat /\ p.armed \in BOOLEAN
  BY RowFields
<1>2. p.last * One \in Nat /\ p.peak * TrailKeep \in Nat
  BY <1>1, Weighed, MarkAssumption
<1>3. CASE p.last = 0
  BY <1>3 DEF Verdict, Exits
<1>4. CASE p.last # 0 /\ drained
  BY <1>4 DEF Verdict, Exits
<1>5. CASE p.last # 0 /\ ~drained /\ p.armed /\ p.last <= BreakEvenExit
  BY <1>5 DEF Verdict, Exits
<1>6. CASE p.last # 0 /\ ~drained /\ ~(p.armed /\ p.last <= BreakEvenExit)
  <2> DEFINE V ==
         IF p.peak >= TrailArm /\ p.last * One <= p.peak * TrailKeep THEN "trailing_stop"
         ELSE IF p.last >= PartialAt THEN "partial_promoted_to_close"
         ELSE IF p.last >= TakeProfit THEN "target"
         ELSE IF Flat(p.last) /\ p.flatSince # NotFlat /\ hour - p.flatSince >= Stagnation
              THEN "stagnation"
         ELSE IF hour >= TimeExit THEN "time"
         ELSE IF Pump /\ p.last < One /\ hour = PumpCheck THEN "down_at_5m"
         ELSE "none"
  <2>1. Verdict(p, drained) = V
    BY <1>6 DEF Verdict
  <2>2. V \in Exits
    BY DEF Exits
  <2>3. V = "none" => /\ ~(p.peak >= TrailArm /\ p.last * One <= p.peak * TrailKeep)
                      /\ ~(p.last >= PartialAt) /\ ~(p.last >= TakeProfit)
    OBVIOUS
  <2> HIDE DEF V
  <2>4. V = "none" => NoStop(p)
    BY <1>1, <1>2, <1>6, <2>3, MarkAssumption DEF NoStop
  <2> QED
    BY <2>1, <2>2, <2>4
<1> QED
  BY <1>3, <1>4, <1>5, <1>6

-----------------------------------------------------------------------------
(* The steps of a tick.                                                    *)

\* A step of one tick that leaves the row and its history alone, and keeps what is
\* known of its object.
LEMMA TickStep ==
    ASSUME MarkInv, NEW t \in Ticks, NEW a \in {"idle", "price", "commit", "commit frozen"},
           NEW m \in Rows, NEW l \in Rows,
           at' = [at EXCEPT ![t] = a], mem' = [mem EXCEPT ![t] = m],
           loaded' = [loaded EXCEPT ![t] = l], UNCHANGED <<row, hour, best, frozen, raced>>,
           a # "idle" => l.exit = "none",
           a = "price" => m = l,
           a = "commit" => \/ MarkOf(m, l) /\ (m.exit = "none" => NoStop(m))
                           \/ SameMarks(m, l) /\ m.exit # "none",
           a = "commit frozen" => MarkOf(m, l) \/ SameMarks(m, l)
    PROVE  MarkInv'
<1>1. TypeOK'
  BY DEF MarkInv, TypeOK
<1>2. TickInv'
  <2>1. at'[t] = a /\ mem'[t] = m /\ loaded'[t] = l
    BY DEF MarkInv, TypeOK
  <2>2. \A o \in Ticks : o # t => at'[o] = at[o] /\ mem'[o] = mem[o] /\ loaded'[o] = loaded[o]
    BY DEF MarkInv, TypeOK
  <2> QED
    <3>1. ASSUME NEW o \in Ticks, o # t
          PROVE  /\ at'[o] # "idle" => loaded'[o].exit = "none"
                 /\ at'[o] = "price" => mem'[o] = loaded'[o]
                 /\ at'[o] = "commit" =>
                       \/ MarkOf(mem'[o], loaded'[o]) /\ (mem'[o].exit = "none" => NoStop(mem'[o]))
                       \/ SameMarks(mem'[o], loaded'[o]) /\ mem'[o].exit # "none"
                 /\ at'[o] = "commit frozen" =>
                       MarkOf(mem'[o], loaded'[o]) \/ SameMarks(mem'[o], loaded'[o])
      BY <2>2, <3>1 DEF MarkInv, TickInv
    <3> QED
      BY <2>1, <3>1 DEF TickInv
<1>3. RowInv'
  BY DEF MarkInv, RowInv, NoStop
<1> QED
  BY <1>1, <1>2, <1>3 DEF MarkInv

\* Load, and a tick that ends without a commit.
LEMMA LoadStep ==
    ASSUME MarkInv, NEW t \in Ticks, Load(t)
    PROVE  MarkInv'
<1>1. row \in Rows /\ row.exit = "none"
  BY DEF MarkInv, TypeOK, Load
<1>2. /\ at' = [at EXCEPT ![t] = "price"] /\ mem' = [mem EXCEPT ![t] = row]
      /\ loaded' = [loaded EXCEPT ![t] = row] /\ UNCHANGED <<row, hour, best, frozen, raced>>
  BY DEF Load, hist
<1> QED
  BY <1>1, <1>2, TickStep

LEMMA ForgetStep ==
    ASSUME MarkInv, NEW t \in Ticks, Forget(t), UNCHANGED <<row, hour, best, frozen, raced>>
    PROVE  MarkInv'
<1>1. /\ at' = [at EXCEPT ![t] = "idle"] /\ mem' = [mem EXCEPT ![t] = NewRow]
      /\ loaded' = [loaded EXCEPT ![t] = NewRow]
  BY DEF Forget
<1> QED
  BY <1>1, NewRowHeld, TickStep

\* The price came.
LEMMA MarkStep ==
    ASSUME MarkInv, NEW t \in Ticks, Mark(t)
    PROVE  MarkInv'
<1>1. TypeOK /\ mem[t] \in Rows /\ loaded[t] \in Rows /\ mem[t] = loaded[t] /\ loaded[t].exit = "none"
  BY DEF MarkInv, TypeOK, TickInv, Mark
<1>2. PICK x \in Multiples, drained \in BOOLEAN :
          LET p == Marked(mem[t], x) IN
          \/ /\ mem' = [mem EXCEPT ![t] = [p EXCEPT !.exit = Verdict(p, drained)]]
             /\ at' = [at EXCEPT ![t] = "commit"]
          \/ /\ Verdict(p, drained) # "none"
             /\ mem' = [mem EXCEPT ![t] = p]
             /\ at' = [at EXCEPT ![t] = "commit frozen"]
  BY DEF Mark
<1>3. PICK p : p = Marked(mem[t], x)
  OBVIOUS
<1>4. x \in Nat
  BY MarkAssumption
<1>5. p \in Rows /\ MarkOf(p, loaded[t])
  BY <1>1, <1>3, <1>4, MarkedRow
<1>6. Verdict(p, drained) \in Exits /\ (Verdict(p, drained) = "none" => NoStop(p))
  BY <1>5, VerdictStops
<1>7. UNCHANGED <<row, hour, best, frozen, raced>>
      /\ loaded' = [loaded EXCEPT ![t] = loaded[t]]
  BY <1>1 DEF Mark, hist, MarkInv, TypeOK
<1>8. CASE /\ mem' = [mem EXCEPT ![t] = [p EXCEPT !.exit = Verdict(p, drained)]]
           /\ at' = [at EXCEPT ![t] = "commit"]
  <2>1. PICK v : v = Verdict(p, drained)
    OBVIOUS
  <2>2. PICK m : m = [p EXCEPT !.exit = v]
    OBVIOUS
  <2>3. /\ m \in Rows /\ m.exit = v /\ m.peak = p.peak /\ m.last = p.last /\ m.armed = p.armed
    BY <1>5, <1>6, <2>1, <2>2 DEF Rows
  <2>4. MarkOf(m, loaded[t]) /\ (m.exit = "none" => NoStop(m))
    BY <1>5, <1>6, <2>1, <2>3 DEF MarkOf, NoStop
  <2>5. mem' = [mem EXCEPT ![t] = m] /\ at' = [at EXCEPT ![t] = "commit"]
    BY <1>8, <2>1, <2>2
  <2> QED
    BY <1>1, <1>7, <2>3, <2>4, <2>5, TickStep
<1>9. CASE mem' = [mem EXCEPT ![t] = p] /\ at' = [at EXCEPT ![t] = "commit frozen"]
  BY <1>1, <1>5, <1>7, <1>9, TickStep
<1> QED
  BY <1>2, <1>3, <1>8, <1>9

\* No price.
LEMMA UnpricedStep ==
    ASSUME MarkInv, NEW t \in Ticks, Unpriced(t)
    PROVE  MarkInv'
<1>1. TypeOK /\ mem[t] \in Rows /\ loaded[t] \in Rows /\ mem[t] = loaded[t] /\ loaded[t].exit = "none"
  BY DEF MarkInv, TypeOK, TickInv, Unpriced
<1>2. UNCHANGED <<row, hour, best, frozen, raced>>
  BY DEF Unpriced, hist
<1>3. mem = [mem EXCEPT ![t] = mem[t]] /\ loaded = [loaded EXCEPT ![t] = loaded[t]]
  BY <1>1 DEF TypeOK
<1>4. CASE /\ mem' = [mem EXCEPT ![t].exit = "time_exit_unpriced"]
           /\ at' = [at EXCEPT ![t] = "commit"] /\ UNCHANGED loaded
  <2>1. PICK m : m = [mem[t] EXCEPT !.exit = "time_exit_unpriced"]
    OBVIOUS
  <2>2. /\ m \in Rows /\ m.exit = "time_exit_unpriced" /\ m.peak = mem[t].peak
        /\ m.last = mem[t].last /\ m.armed = mem[t].armed
    BY <1>1, <2>1 DEF Rows, Exits
  <2>3. SameMarks(m, loaded[t]) /\ m.exit # "none"
    BY <1>1, <2>2 DEF SameMarks
  <2>4. mem' = [mem EXCEPT ![t] = m]
    BY <1>4, <2>1
  <2>5. loaded' = [loaded EXCEPT ![t] = loaded[t]]
    BY <1>3, <1>4
  <2> QED
    BY <1>1, <1>2, <1>4, <2>2, <2>3, <2>4, <2>5, TickStep
<1>5. CASE at' = [at EXCEPT ![t] = "commit frozen"] /\ UNCHANGED <<mem, loaded>>
  <2>1. SameMarks(mem[t], loaded[t])
    BY <1>1 DEF SameMarks
  <2>2. mem' = [mem EXCEPT ![t] = mem[t]] /\ loaded' = [loaded EXCEPT ![t] = loaded[t]]
    BY <1>3, <1>5
  <2> QED
    BY <1>1, <1>2, <1>5, <2>1, <2>2, TickStep
<1>6. CASE Forget(t)
  BY <1>2, <1>6, ForgetStep
<1> QED
  BY <1>4, <1>5, <1>6 DEF Unpriced

\* The commit: on the row it loaded it leaves exactly its object, and over another
\* row it counts as a race.
LEMMA CommitStep ==
    ASSUME MarkInv, NEW t \in Ticks, Commit(t)
    PROVE  MarkInv'
<1> DEFINE m == mem[t]
           l == loaded[t]
<1>1. /\ row \in Rows /\ m \in Rows /\ l \in Rows /\ best \in Nat /\ l.exit = "none"
      /\ at[t] \in {"commit", "commit frozen"}
  BY DEF MarkInv, TypeOK, TickInv, Commit
<1>2. PICK np, nl, na, nf, ne :
         /\ np = Column(m.peak, l.peak, row.peak) /\ nl = Column(m.last, l.last, row.last)
         /\ na = Column(m.armed, l.armed, row.armed)
         /\ nf = Column(m.flatSince, l.flatSince, row.flatSince) /\ ne = Exit(t)
  OBVIOUS
<1>3. row' = [peak |-> np, last |-> nl, armed |-> na, flatSince |-> nf, exit |-> ne]
  BY <1>2 DEF Commit
<1>4. /\ np \in Nat /\ nl \in Nat /\ nf \in Nat \cup {NotFlat} /\ ne \in Exits
  BY <1>1, <1>2, RowFields DEF Column, Exit
<1>5. na \in BOOLEAN
  BY <1>1, <1>2, RowFields, Zenon DEF Column
<1>6. /\ row' \in Rows /\ row'.peak = np /\ row'.last = nl /\ row'.armed = na /\ row'.exit = ne
  BY <1>3, <1>4, <1>5 DEF Rows
<1>7. /\ best' = (IF m.last > best THEN m.last ELSE best)
      /\ frozen' = (at[t] = "commit frozen") /\ raced' = (raced \/ row # l)
      /\ Forget(t) /\ hour' = hour
  BY DEF Commit
<1>8. best' = (IF m.last > best THEN m.last ELSE best)
  BY DEF Commit
<1>9. best' \in Nat /\ frozen' \in BOOLEAN /\ raced' \in BOOLEAN
  BY <1>1, <1>7, RowFields
<1>10. TypeOK'
  BY <1>6, <1>7, <1>9, NewRowHeld DEF MarkInv, TypeOK, Forget
<1>11. TickInv'
  <2>1. at'[t] = "idle" /\ \A o \in Ticks : o # t =>
            at'[o] = at[o] /\ mem'[o] = mem[o] /\ loaded'[o] = loaded[o]
    BY <1>7 DEF MarkInv, TypeOK, Forget
  <2> QED
    BY <2>1 DEF MarkInv, TickInv
<1>12. RowInv'
  <2> SUFFICES ASSUME ~raced'
               PROVE  /\ np = best' /\ nl <= best' /\ (na <=> best' >= BreakEvenArm)
                      /\ ne = "none" /\ ~frozen' => NoStop(row)'
    BY <1>6 DEF RowInv
  <2>1. ~raced /\ row = l
    BY <1>7
  <2>2. np = m.peak /\ nl = m.last /\ ne = m.exit
    BY <1>1, <1>2, <2>1 DEF Column, Exit
  <2>3. na = m.armed
    BY <1>2, <2>1, Zenon DEF Column
  <2>4. l.peak = best /\ l.last <= best /\ (l.armed <=> best >= BreakEvenArm)
    BY <2>1 DEF MarkInv, RowInv
  <2>5. MarkOf(m, l) \/ SameMarks(m, l)
    BY <1>1 DEF MarkInv, TickInv
  <2>6. /\ m.peak \in Nat /\ m.last \in Nat /\ m.armed \in BOOLEAN
        /\ l.peak \in Nat /\ l.last \in Nat /\ l.armed \in BOOLEAN /\ BreakEvenArm \in Nat
    BY <1>1, RowFields, MarkAssumption
  <2>7. /\ l.peak = best /\ l.last <= best
        /\ m.peak \in Nat /\ m.last \in Nat /\ best \in Nat /\ BreakEvenArm \in Nat
    BY <1>1, <2>4, <2>6
  <2> HIDE DEF m, l
  <2>8. m.peak = best' /\ m.last <= best' /\ (m.armed <=> best' >= BreakEvenArm)
    <3>1. CASE MarkOf(m, l)
      <4>1. /\ m.peak = (IF m.last > l.peak THEN m.last ELSE l.peak)
            /\ m.armed <=> (l.armed \/ m.last >= BreakEvenArm)
        BY <3>1 DEF MarkOf
      <4>2. m.peak = best' /\ m.last <= best'
        BY <1>8, <2>7, <4>1
      <4>3. best' >= BreakEvenArm <=> (best >= BreakEvenArm \/ m.last >= BreakEvenArm)
        BY <1>8, <2>7
      <4> QED
        BY <2>4, <4>1, <4>2, <4>3, Zenon
    <3>2. CASE SameMarks(m, l)
      <4>1. m.peak = l.peak /\ m.last = l.last /\ m.armed = l.armed
        BY <3>2 DEF SameMarks
      <4>2. best' = best
        BY <1>8, <2>7, <4>1
      <4>3. m.peak = best' /\ m.last <= best'
        BY <2>4, <4>1, <4>2
      <4> QED
        BY <2>4, <4>1, <4>2, <4>3, Zenon
    <3> QED
      BY <2>5, <3>1, <3>2
  <2>9. m.exit = "none" /\ ~frozen' => NoStop(m)
    BY <1>1, <1>7 DEF MarkInv, TickInv, m, l
  <2>10. NoStop(m) => NoStop(row')
    BY <1>6, <2>2, <2>3 DEF NoStop
  <2> QED
    BY <2>2, <2>3, <2>8, <2>9, <2>10
<1> QED
  BY <1>10, <1>11, <1>12 DEF MarkInv

\* An hour passes.
LEMMA HourStep ==
    ASSUME MarkInv, Hour
    PROVE  MarkInv'
<1>1. UNCHANGED <<row, at, mem, loaded, best, frozen, raced>>
  BY DEF Hour, hist
<1>2. hour' \in Nat
  <2>1. hour \in Nat
    BY DEF MarkInv, TypeOK
  <2> QED
    BY <2>1 DEF Hour
<1>3. TypeOK'
  BY <1>1, <1>2 DEF MarkInv, TypeOK
<1>4. TickInv'
  BY <1>1 DEF MarkInv, TickInv
<1>5. RowInv'
  BY <1>1 DEF MarkInv, RowInv
<1> QED
  BY <1>3, <1>4, <1>5 DEF MarkInv

-----------------------------------------------------------------------------
(* The theorems.                                                           *)

\* The marks of a position, under exit ticks that overlap, roll back, find no price
\* and meet the kill switch: MarkInv holds throughout.
THEOREM MarkInvariant == Spec => []MarkInv
<1>1. Init => MarkInv
  <2> SUFFICES ASSUME Init PROVE MarkInv
    OBVIOUS
  <2>1. TypeOK
    BY NewRowHeld, MarkAssumption DEF Init, TypeOK
  <2>2. TickInv
    BY DEF Init, TickInv
  <2>3. row.peak = One /\ row.last = One /\ ~row.armed
    BY DEF Init, NewRow
  <2>4. RowInv
    BY <2>3, NewRowHeld, MarkAssumption DEF Init, RowInv
  <2> QED
    BY <2>1, <2>2, <2>4 DEF MarkInv
<1>2. MarkInv /\ [Next]_vars => MarkInv'
  <2> SUFFICES ASSUME MarkInv, [Next]_vars PROVE MarkInv'
    OBVIOUS
  <2>1. ASSUME NEW t \in Ticks, Rollback(t) PROVE MarkInv'
    BY <2>1, ForgetStep DEF Rollback, hist
  <2>2. CASE Next
    BY <2>1, <2>2, LoadStep, MarkStep, UnpricedStep, CommitStep, HourStep DEF Next
  <2>3. CASE UNCHANGED vars
    BY <2>3 DEF vars, hist, MarkInv, TypeOK, TickInv, RowInv, MarkOf, SameMarks, NoStop
  <2> QED
    BY <2>2, <2>3
<1> QED
  BY <1>1, <1>2, PTL DEF Spec

\* A position that is still held, whose last mark no kill switch froze, has reached
\* neither its target nor a stop measured from the best multiple ever marked
\* (exit_driver.py "Peak only ever rises"), for every multiple and every level.
THEOREM HeldHasNoStop == Spec => []HeldMeansNoStop
<1>1. MarkInv => HeldMeansNoStop
  BY DEF MarkInv, RowInv, NoStop, HeldMeansNoStop
<1> QED
  BY <1>1, MarkInvariant, PTL
=============================================================================
