----------------------------- MODULE RollingRate -----------------------------
(***************************************************************************)
(* rollingRate of internal/router/status_metrics.go: the two-bucket byte   *)
(* rate behind every throughput figure of the status page.  add is a load, *)
(* a compare-and-swap, a swap, a store and an addition on four atomics,    *)
(* with no lock; rate only reads.                                          *)
(*                                                                         *)
(* A write is one byte, time is a clock of ticks, and the rate is given in *)
(* bytes times Window, as the code blends the previous bucket by the       *)
(* fraction of it that still lies inside the window.                       *)
(***************************************************************************)
EXTENDS Integers, FiniteSets

CONSTANTS
    Writers,    \* goroutines that add to this rate
    Window,     \* length of a bucket, a positive number of ticks
    MaxTick,    \* bound: the last tick
    MaxBytes    \* bound: bytes written in one tick

ASSUME RateAssumption ==
    IsFiniteSet(Writers) /\ Window \in Nat \ {0} /\ MaxTick \in Nat /\ MaxBytes \in Nat

VARIABLES
    tick,       \* the clock
    startNano,  \* when the current bucket began
    cur,        \* bytes of the current bucket
    prev,       \* bytes of the one before
    add,        \* per writer, where it is in add
    written     \* bytes written by the end of each tick, up to now (history)

rateVars == <<tick, startNano, cur, prev, add, written>>

Ticks == 0..MaxTick
IdleAdd == [at |-> "idle", now |-> 0, start |-> 0, moved |-> 0]

RateTypeOK ==
    /\ tick \in Ticks /\ startNano \in Ticks
    /\ cur \in Nat /\ prev \in Nat
    /\ add \in [Writers -> [at : {"idle", "loaded", "swap", "store", "add"}, now : Ticks, start : Ticks, moved : Nat]]
    /\ written \in [Ticks -> Nat]

RateInit ==
    /\ tick = 0 /\ startNano = 0 /\ cur = 0 /\ prev = 0
    /\ add = [w \in Writers |-> IdleAdd]
    /\ written = [t \in Ticks |-> 0]

(* The bytes written from tick t on.                                       *)
Since(t) == written[tick] - (IF t <= 0 THEN 0 ELSE IF t <= tick THEN written[t - 1] ELSE written[tick])

(* A tick passes between two adds; an add itself takes no time.            *)
RateTick ==
    /\ tick < MaxTick /\ \A w \in Writers : add[w].at = "idle"
    /\ tick' = tick + 1
    /\ written' = [written EXCEPT ![tick + 1] = written[tick]]
    /\ UNCHANGED <<startNano, cur, prev, add>>

(* noteWrite: the byte is out, and the time of the write and the start of  *)
(* the bucket are read.                                                    *)
LoadStart(w) ==
    /\ add[w].at = "idle" /\ Since(tick) < MaxBytes
    /\ written' = [written EXCEPT ![tick] = @ + 1]
    /\ add' = [add EXCEPT ![w] = [at |-> IF tick - startNano >= Window THEN "loaded" ELSE "add",
                                  now |-> tick, start |-> startNano, moved |-> 0]]
    /\ UNCHANGED <<tick, startNano, cur, prev>>

CompareAndSwap(w) ==
    /\ add[w].at = "loaded"
    /\ \/ startNano = add[w].start /\ startNano' = add[w].now /\ add' = [add EXCEPT ![w].at = "swap"]
       \/ startNano # add[w].start /\ add' = [add EXCEPT ![w].at = "add"] /\ UNCHANGED startNano
    /\ UNCHANGED <<tick, cur, prev, written>>

SwapCur_Keeps(w) ==  \* mutant: the bucket is read and not emptied
    /\ add[w].at = "swap"
    /\ add' = [add EXCEPT ![w].moved = cur, ![w].at = "store"]
    /\ UNCHANGED <<tick, startNano, cur, prev, written>>

SwapCur(w) ==
    /\ add[w].at = "swap"
    /\ add' = [add EXCEPT ![w].moved = cur, ![w].at = "store"]
    /\ cur' = 0
    /\ UNCHANGED <<tick, startNano, prev, written>>

StorePrev(w) ==
    /\ add[w].at = "store"
    /\ prev' = add[w].moved
    /\ add' = [add EXCEPT ![w].at = "add"]
    /\ UNCHANGED <<tick, startNano, cur, written>>

AddCur(w) ==
    /\ add[w].at = "add"
    /\ cur' = cur + 1
    /\ add' = [add EXCEPT ![w] = IdleAdd]
    /\ UNCHANGED <<tick, startNano, prev, written>>

RateNext ==
    \/ RateTick
    \/ \E w \in Writers :
           LoadStart(w) \/ CompareAndSwap(w) \/ SwapCur(w) \/ StorePrev(w) \/ AddCur(w)

RateSpec == RateInit /\ [][RateNext]_rateVars

(* rate, times Window squared.                                             *)
Elapsed == tick - startNano

Rate ==
    CASE Elapsed >= 2 * Window -> 0
      [] Elapsed >= Window /\ Elapsed < 2 * Window -> cur * Window
      [] OTHER -> cur * Window + prev * (Window - Elapsed)

-----------------------------------------------------------------------------
(* Properties.                                                             *)
Quiescent == \A w \in Writers : add[w].at = "idle"

(* A stream that has written nothing for two windows reads zero, however   *)
(* much it wrote before: "a stalled stream must not look fast"             *)
(* (status_metrics_test.go).                                               *)
SilentReadsZero == Quiescent /\ Since(tick - 2 * Window + 1) = 0 => Rate = 0

(* Rolls lose and invent nothing: the two buckets never hold more than was *)
(* written, and all that was written since the current bucket began is in  *)
(* one of them, whichever writers raced for the roll.                      *)
NothingInvented ==
    Quiescent => /\ cur + prev <= Since(0)
                 /\ cur + prev >= Since(startNano + 1)

(* Whichever writers race for the roll of a bucket, the two buckets hold   *)
(* what was written since the current one began and no more than was ever  *)
(* written, and a stream that has written nothing for two windows reads    *)
(* zero, however much it wrote before (rollingRate's add and rate).        *)
RateHonest == NothingInvented /\ SilentReadsZero

(* "rate returns bytes/sec over the trailing window" (status_metrics.go):  *)
(* what it reports was written less than two windows ago.  It does not     *)
(* hold for the first write after a silence.                               *)
TrailingOnly == Quiescent => Rate <= Window * Since(tick - 2 * Window + 1)
=============================================================================
