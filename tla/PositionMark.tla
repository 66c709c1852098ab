----------------------------- MODULE PositionMark -----------------------------
(***************************************************************************)
(* How an open real position is marked and when its exit is asked for:     *)
(* RealWalletExitDriver._mark and exit_verdict over the shared rules of    *)
(* lab/rules.py, on one row that two exit ticks may hold at once (the      *)
(* minute tick under the EXIT lock, the fast loop under the FAST lock).    *)
(*                                                                         *)
(* Multiples are counted in steps of which One make 1.0x; a rule that a    *)
(* strategy leaves out has a level no mark reaches.  The others are above  *)
(* 1.0x, as those of lab/spec.py are.  A tick loads                        *)
(* the position, awaits its price, assigns the columns and commits them;   *)
(* the UPDATE names the columns that differ from what was loaded.          *)
(***************************************************************************)
EXTENDS Naturals

CONSTANTS
    Ticks,        \* exit ticks that can overlap
    MinuteTick,   \* the one of every minute
    Multiples,    \* the executable multiples a mark may read; 0 is a dead pool
    One,          \* 1.0x
    PartialAt,    \* partial_at
    TakeProfit,   \* take_profit
    TrailArm,     \* trailing_arm_at
    TrailKeep,    \* 1 - trailing_drawdown, in steps of One
    BreakEvenArm, \* break_even_arm
    BreakEvenExit,\* break_even_exit
    TimeExit,     \* time_exit_hours
    Stagnation,   \* stagnation_hours
    PumpCheck,    \* the hour of the Pump Catcher's one look, for a pump position
    Pump,         \* the position sells like the Pump Catcher Lab
    MaxHours,     \* bound of the model: hours held
    NotFlat       \* flat_since is null

ASSUME MarkAssumption ==
    /\ MinuteTick \in Ticks
    /\ Multiples \subseteq Nat /\ One \in Nat \ {0} /\ Pump \in BOOLEAN
    /\ {PartialAt, TakeProfit, TrailArm, TrailKeep, BreakEvenArm, BreakEvenExit} \subseteq Nat
    /\ {TimeExit, Stagnation, PumpCheck, MaxHours} \subseteq Nat
    /\ TrailKeep < One /\ One < PartialAt /\ One < TakeProfit /\ One < BreakEvenArm
    /\ NotFlat \notin Nat

VARIABLES
    row,     \* the position's committed columns
    hour,    \* hours since the hold began
    at,      \* where each tick stands
    mem,     \* its object
    loaded,  \* its object as loaded
    best,    \* history: the best multiple a committed mark has read
    frozen,  \* history: the last committed mark met a kill switch
    raced    \* history: a tick committed over a row it had not loaded

hist == <<best, frozen, raced>>
vars == <<row, hour, at, mem, loaded, hist>>

NewRow == [peak |-> One, last |-> One, armed |-> FALSE, flatSince |-> NotFlat, exit |-> "none"]

Init ==
    /\ row = NewRow /\ hour = 0
    /\ at = [t \in Ticks |-> "idle"]
    /\ mem = [t \in Ticks |-> NewRow]
    /\ loaded = [t \in Ticks |-> NewRow]
    /\ best = One /\ frozen = FALSE /\ raced = FALSE

-----------------------------------------------------------------------------
(* The rules.                                                              *)

\* FLAT_BAND is 0.95 to 1.05: with steps this coarse, 1.0x itself.
Flat(x) == x = One

\* Mutant: the trailing stop is measured from the mark before this one.
MarkedFromLast(p, x) ==
    [p EXCEPT !.peak = x,
              !.last = x,
              !.armed = @ \/ x >= BreakEvenArm,
              !.flatSince = IF ~Flat(x) THEN NotFlat ELSE IF @ = NotFlat THEN hour ELSE @]

\* _mark: the columns a mark of x assigns.
Marked(p, x) ==
    [p EXCEPT !.peak = IF x > @ THEN x ELSE @,
              !.last = x,
              !.armed = @ \/ x >= BreakEvenArm,
              !.flatSince = IF ~Flat(x) THEN NotFlat ELSE IF @ = NotFlat THEN hour ELSE @]

\* evaluate_exit, in its order, then the Pump Catcher's one look.  drained: the
\* pool's liquidity is under the strategy's floor.  The real wallet never knows
\* its sell route, and sells the whole position where the rule says a part.
Verdict(p, drained) ==
    CASE p.last = 0 -> "dead_zero"
      [] p.last # 0 /\ drained -> "liquidity_floor"
      [] p.last # 0 /\ ~drained /\ p.armed /\ p.last <= BreakEvenExit -> "break_even"
      [] OTHER ->
         IF p.peak >= TrailArm /\ p.last * One <= p.peak * TrailKeep THEN "trailing_stop"
         ELSE IF p.last >= PartialAt THEN "partial_promoted_to_close"
         ELSE IF p.last >= TakeProfit THEN "target"
         ELSE IF Flat(p.last) /\ p.flatSince # NotFlat /\ hour - p.flatSince >= Stagnation
              THEN "stagnation"
         ELSE IF hour >= TimeExit THEN "time"
         ELSE IF Pump /\ p.last < One /\ hour = PumpCheck THEN "down_at_5m"
         ELSE "none"

-----------------------------------------------------------------------------
(* A tick on the position.                                                 *)

\* The list of OPEN positions; one with an exit is not judged again.
Load(t) ==
    /\ at[t] = "idle" /\ row.exit = "none"
    /\ at' = [at EXCEPT ![t] = "price"]
    /\ mem' = [mem EXCEPT ![t] = row]
    /\ loaded' = [loaded EXCEPT ![t] = row]
    /\ UNCHANGED <<row, hour, hist>>

Forget(t) ==
    /\ at' = [at EXCEPT ![t] = "idle"]
    /\ mem' = [mem EXCEPT ![t] = NewRow]
    /\ loaded' = [loaded EXCEPT ![t] = NewRow]

\* The price came: the columns are assigned, and the exit asked for unless a
\* kill switch is active.
Mark(t) ==
    /\ at[t] = "price"
    /\ \E x \in Multiples, drained \in BOOLEAN :
          LET p == Marked(mem[t], x) IN
          \/ /\ mem' = [mem EXCEPT ![t] = [p EXCEPT !.exit = Verdict(p, drained)]]
             /\ at' = [at EXCEPT ![t] = "commit"]
          \/ /\ Verdict(p, drained) # "none"
             /\ mem' = [mem EXCEPT ![t] = p]
             /\ at' = [at EXCEPT ![t] = "commit frozen"]
    /\ UNCHANGED <<row, hour, loaded, hist>>

\* Mutant: a position without a price is always left alone.
UnpricedHeld(t) ==
    /\ at[t] = "price"
    /\ Forget(t)
    /\ UNCHANGED <<row, hour, hist>>

\* No price: after the time exit the position is sold unpriced, unless a kill
\* switch is active; before it, it is left alone.
Unpriced(t) ==
    /\ at[t] = "price"
    /\ \/ /\ hour >= TimeExit
          /\ mem' = [mem EXCEPT ![t].exit = "time_exit_unpriced"]
          /\ at' = [at EXCEPT ![t] = "commit"]
          /\ UNCHANGED loaded
       \/ /\ hour >= TimeExit
          /\ at' = [at EXCEPT ![t] = "commit frozen"]
          /\ UNCHANGED <<mem, loaded>>
       \/ hour < TimeExit /\ Forget(t)
    /\ UNCHANGED <<row, hour, hist>>

\* exit_intent_id is bound under the row's lock, to the first that asks; the
\* loser logs exit_already_requested and keeps its mark.
Exit(t) == IF row.exit # "none" THEN row.exit ELSE mem[t].exit

\* The UPDATE names the columns that differ from what was loaded.
Column(new, old, now) == IF new # old THEN new ELSE now

Commit(t) ==
    /\ at[t] \in {"commit", "commit frozen"}
    /\ row' = [peak      |-> Column(mem[t].peak, loaded[t].peak, row.peak),
               last      |-> Column(mem[t].last, loaded[t].last, row.last),
               armed     |-> Column(mem[t].armed, loaded[t].armed, row.armed),
               flatSince |-> Column(mem[t].flatSince, loaded[t].flatSince, row.flatSince),
               exit      |-> Exit(t)]
    /\ best' = IF mem[t].last > best THEN mem[t].last ELSE best
    /\ frozen' = (at[t] = "commit frozen")
    /\ raced' = (raced \/ row # loaded[t])
    /\ Forget(t)
    /\ UNCHANGED hour

Rollback(t) ==
    /\ at[t] # "idle"
    /\ Forget(t)
    /\ UNCHANGED <<row, hour, hist>>

Hour ==
    /\ hour < MaxHours
    /\ hour' = hour + 1
    /\ UNCHANGED <<row, at, mem, loaded, hist>>

Next ==
    \/ \E t \in Ticks : Load(t) \/ Mark(t) \/ Unpriced(t) \/ Commit(t) \/ Rollback(t)
    \/ Hour

\* The minute tick keeps coming; it may fail, but not every one for ever.  Of the
\* fast loop nothing is asked.
Fairness ==
    /\ WF_vars(Hour)
    /\ WF_vars(Load(MinuteTick))
    /\ SF_vars(Mark(MinuteTick) \/ Unpriced(MinuteTick))
    /\ SF_vars(Commit(MinuteTick))

Spec == Init /\ [][Next]_vars

FairSpec == Spec /\ Fairness

-----------------------------------------------------------------------------
(* Correctness.                                                            *)

Exits == {"none", "dead_zero", "liquidity_floor", "break_even", "trailing_stop",
          "partial_promoted_to_close", "target", "stagnation", "time", "down_at_5m",
          "time_exit_unpriced"}

Rows == [peak : Nat, last : Nat, armed : BOOLEAN, flatSince : Nat \cup {NotFlat}, exit : Exits]

TypeOK ==
    /\ row \in Rows /\ hour \in Nat
    /\ at \in [Ticks -> {"idle", "price", "commit", "commit frozen"}]
    /\ mem \in [Ticks -> Rows] /\ loaded \in [Ticks -> Rows]
    /\ best \in Nat /\ frozen \in BOOLEAN /\ raced \in BOOLEAN

\* Neither the target nor a stop is reached, as far as these columns tell.
NoStop(p) ==
    /\ p.last # 0 /\ p.last < TakeProfit /\ p.last < PartialAt
    /\ p.peak >= TrailArm => p.last * One > p.peak * TrailKeep
    /\ p.armed => p.last > BreakEvenExit

\* The columns of p are those of old after one more mark.
MarkOf(p, old) ==
    /\ p.peak = IF p.last > old.peak THEN p.last ELSE old.peak
    /\ p.armed <=> (old.armed \/ p.last >= BreakEvenArm)

\* The columns of p are those of old but for the exit.
SameMarks(p, old) == p.peak = old.peak /\ p.last = old.last /\ p.armed = old.armed

\* What a tick holds is the row it loaded, which had no exit; after its price, that
\* row with one mark more, and without a stop when it asks for no exit; or, unpriced
\* or met by a kill switch, the same marks.
TickInv ==
    \A t \in Ticks :
        /\ at[t] # "idle" => loaded[t].exit = "none"
        /\ at[t] = "price" => mem[t] = loaded[t]
        /\ at[t] = "commit" =>
              \/ MarkOf(mem[t], loaded[t]) /\ (mem[t].exit = "none" => NoStop(mem[t]))
              \/ SameMarks(mem[t], loaded[t]) /\ mem[t].exit # "none"
        /\ at[t] = "commit frozen" =>
              MarkOf(mem[t], loaded[t]) \/ SameMarks(mem[t], loaded[t])

\* The row's columns are what the history of its marks makes them, as long as no tick
\* commits over a row it had not loaded.
RowInv ==
    ~raced => /\ row.peak = best /\ row.last <= best
              /\ row.armed <=> best >= BreakEvenArm
              /\ row.exit = "none" /\ ~frozen => NoStop(row)

\* Types, the objects of the ticks and the row, together: the columns that one tick
\* leaves to the next are all that its stops need.
MarkInv == TypeOK /\ TickInv /\ RowInv

\* exit_driver.py:309 "Peak only ever rises", as long as no tick commits over a
\* mark it had not loaded: a position that is still held, and whose last mark no
\* kill switch froze, has reached neither its target nor a stop measured from the
\* best multiple ever marked.  The columns kept between ticks lose nothing of the
\* history, through rollbacks and unpriced ticks.
HeldMeansNoStop ==
    row.exit = "none" /\ ~frozen /\ ~raced =>
        /\ row.peak = best
        /\ row.last # 0 /\ row.last < TakeProfit /\ row.last < PartialAt
        /\ best >= TrailArm => row.last * One > best * TrailKeep
        /\ best >= BreakEvenArm => row.last > BreakEvenExit

\* A position past its time exit is eventually asked to leave, priced or not,
\* however ticks overlap and roll back, as long as some commit.
TimeExitComes == [](hour >= TimeExit => <>(row.exit # "none" \/ frozen))
=============================================================================
