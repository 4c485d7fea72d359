-------------------------------- MODULE Fcyc --------------------------------
(***************************************************************************)
(* The K-best timer of src/lab7/fcyc.c over the cycle counter of clock.c:  *)
(* it runs a function until the kbest smallest times agree, and returns    *)
(* the smallest.  Times are whole cycles, the two halves of the counter    *)
(* have HalfWord values each.                                              *)
(***************************************************************************)
EXTENDS Integers, Sequences, SequencesExt

CONSTANTS
  kbest, maxsamples,
  epsilon,         \* tolerance, in hundredths
  HalfWord,        \* 2^32 in the code
  cyc_per_tick     \* what callibrate has measured: the cost of a timer tick

ASSUME FcycAssumption ==
  /\ kbest \in Nat \ {0} /\ maxsamples \in Nat \ {0} /\ epsilon \in Nat
  /\ HalfWord \in Nat \ {0} /\ cyc_per_tick \in Nat

\* access_counter: the register as (hi, lo)
access_counter(cycles) == [hi |-> (cycles \div HalfWord) % HalfWord,
                           lo |-> cycles % HalfWord]

\* Mutant of get_counter: the borrow is forgotten.
get_counterNoBorrow(start, stop) ==
  ((stop.hi - start.hi) % HalfWord) * HalfWord + ((stop.lo - start.lo) % HalfWord)

\* get_counter: unsigned subtraction of both halves
get_counter(start, stop) ==
  LET lo     == (stop.lo - start.lo) % HalfWord
      borrow == IF lo > stop.lo THEN 1 ELSE 0
      hi     == (stop.hi - start.hi - borrow) % HalfWord
  IN  hi * HalfWord + lo

(***************************************************************************)
(* start_comp_counter reads the ticks before the counter, get_comp_counter *)
(* after it: of the ticks it counts, `inside` ones are in the time, and    *)
(* `edge` ones came between the two readings.                              *)
(***************************************************************************)
get_comp_counter(start, stop, inside, edge) ==
  get_counter(start, stop) - (inside + edge) * cyc_per_tick

\* The array values, in use up to its length, and samplecount.
init_sampler == [values |-> <<>>, samplecount |-> 0]

\* Insertion sort moves the new value down to the first that is not larger.
Inserted(s, val) ==
  LET pos == Max({0} \cup {i \in DOMAIN s : s[i] <= val})
  IN  InsertAt(s, pos + 1, val)

add_sample(s, val) ==
  [values |->
     IF s.samplecount < kbest THEN Inserted(s.values, val)
     ELSE IF val < Last(s.values) THEN Inserted(Front(s.values), val)
     ELSE s.values,
   samplecount |-> s.samplecount + 1]

has_converged(s) ==
  /\ s.samplecount >= kbest
  /\ (100 + epsilon) * Head(s.values) >= 100 * Last(s.values)

\* the condition of the do-while loop of fcyc
Goes_on(s) == ~has_converged(s) /\ s.samplecount < maxsamples
=============================================================================
