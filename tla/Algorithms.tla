----------------------------- MODULE Algorithms -----------------------------
(***************************************************************************)
(* Three pure algorithms: the conversion of dates, the list of the changes *)
(* of the delay of a station, and the samples that one of two streams      *)
(* lacks.                                                                  *)
(***************************************************************************)
EXTENDS Integers, Sequences

CONSTANTS
  Fraction,     \* resolution of the delay
  IntMax        \* INT_MAX

ASSUME DelayListAssumption == Fraction \in Nat /\ Fraction % 2 = 0 /\ Fraction > 0

-----------------------------------------------------------------------------
(* The dates of Time: mjd and get_date, which turn a date into a number of *)
(* days and back.                                                          *)

\* mjd: the conversion of jdn - 2400000.5 to int drops the half day.
Mjd(day, mon, yr) ==
  LET a == (14 - mon) \div 12
      y == yr + 4800 - a
      m == mon + 12 * a - 3
      jdn == day + (153 * m + 2) \div 5 + 365 * y + y \div 4 - y \div 100 + y \div 400 - 32045
  IN  jdn - 2400001

Mjd1901 == 15385
FourYears == 365 * 4 + 1

\* Mutant: the day of the year counts from zero.
DateFromZero(n) ==
  LET ndays == n - Mjd1901
      p1 == ndays \div FourYears
      p2 == (ndays - p1 * FourYears) \div 365
  IN  <<4 * p1 + p2 + 1901, (ndays - p1 * FourYears) % 365>>

\* Time::get_date: the year and the day of the year.
GetDate(n) ==
  LET ndays == n - Mjd1901
      p1 == ndays \div FourYears
      p2 == (ndays - p1 * FourYears) \div 365
  IN  <<4 * p1 + p2 + 1901, 1 + ((ndays - p1 * FourYears) % 365)>>

-----------------------------------------------------------------------------
(* Input_node_tasklet::get_delays: the list of the times at which the      *)
(* delay of a station changes by a whole sample, found by searching halves *)
(* of the time interval.                                                   *)
(*                                                                         *)
(* The spline of the delay is a quadratic polynomial of the sample number, *)
(* a record [constant, linear, quadratic] in units of 1 / Fraction         *)
(* samples.                                                                *)

Exact(curve, t) == curve.constant + curve.linear * t + curve.quadratic * t * t
Rate(curve, t) == curve.linear + 2 * curve.quadratic * t

\* get_delay: the delay rounded to samples.
Delay(curve, t) == (Exact(curve, t) + Fraction \div 2) \div Fraction

\* Mutant: an interval that ends with the delay it starts with is not searched.
NeverTurns(curve, from, to) == FALSE

\* The rate changes sign in between.
RateDifferent(curve, from, to) == Rate(curve, from) * Rate(curve, to) < 0

\* get_delays(start, nsamples): the changes in an interval of length at least 1.
GetDelays(curve, start, nsamples) ==
  LET search[s \in Nat, n \in Nat \ {0}] ==
        LET half == n \div 2
            halves == search[s, half] \o search[s + half, n - half]
        IN  IF Delay(curve, s) # Delay(curve, s + n)
            THEN IF n = 1 THEN << <<s + 1, Delay(curve, s + 1)>> >> ELSE halves
            ELSE IF RateDifferent(curve, s, s + n) /\ n >= 3 THEN halves ELSE <<>>
  IN  search[start, nsamples]

\* add_time_interval: the list starts with the delay at the start.
DelayChanges(curve, nsamples) == << <<0, Delay(curve, 0)>> >> \o GetDelays(curve, 0, nsamples)

-----------------------------------------------------------------------------
(* Correlation_core::find_invalid: the number of samples of a baseline     *)
(* that are invalid in one stream only, from the lists of the intervals    *)
(* <<start, n_invalid>> that are invalid in each of the two.  The streams  *)
(* have the same sample rate.                                              *)

Streams == {1, 2}
Other(i) == 3 - i

\* The first interval from n on of a list.
StartAt(list, n) == IF n <= Len(list) THEN list[n][1] ELSE IntMax
EndAt(list, n) == IF n <= Len(list) THEN list[n][1] + list[n][2] ELSE IntMax

\* The variables of the loop: index is the number of intervals taken from each
\* list, start and end what is left of the present ones.
Initially(lists) ==
  [index |-> [i \in Streams |-> IF lists[i] = <<>> THEN 0 ELSE 1],
   start |-> [i \in Streams |-> StartAt(lists[i], 1)],
   end |-> [i \in Streams |-> EndAt(lists[i], 1)],
   nflagged |-> <<0, 0>>]

\* The stream whose interval starts first, the second one if both do.
First(v) == IF v.start[1] < v.start[2] THEN 1 ELSE 2

\* Intervals that are used up are replaced by the next of their list.
UpdateIndexes(lists, v) ==
  LET used(j) == v.start[j] > v.end[j]
      next(j) == v.index[j] + 1
  IN  [v EXCEPT
        !.start = [j \in Streams |-> IF used(j) THEN StartAt(lists[j], next(j)) ELSE @[j]],
        !.end = [j \in Streams |-> IF used(j) THEN EndAt(lists[j], next(j)) ELSE @[j]],
        !.index = [j \in Streams |-> IF used(j) /\ next(j) <= Len(lists[j]) THEN next(j) ELSE @[j]]]

\* Both start at the same sample: the shorter one is used up, both if they have
\* the same end.
PastCommon(v) ==
  LET shorter == IF v.end[1] < v.end[2] THEN 1 ELSE 2
      start == IF v.end[1] = v.end[2] THEN [j \in Streams |-> v.end[j] + 1]
               ELSE [j \in Streams |-> IF j = shorter THEN v.end[j] + 1 ELSE v.end[shorter]]
  IN  [v EXCEPT !.start = start]

\* Mutant: the samples are counted for the stream in which they are invalid.
CountOwn(v, i, start) ==
  [v EXCEPT !.nflagged[i] = @ + start - v.start[i], !.start[i] = start]

\* The samples of stream i up to a new start are lost to the other stream.
Count(v, i, start) ==
  [v EXCEPT !.nflagged[Other(i)] = @ + start - v.start[i], !.start[i] = start]

\* One turn of the loop: skip what both have in common, count the interval that
\* starts first if it ends before the other starts, or the part before that.
Turn(lists, v) ==
  LET i == First(v)
      apart == Count(v, i, v.end[i])
      moved == IF v.start[1] = v.start[2] THEN PastCommon(v)
               ELSE IF v.end[i] < v.start[Other(i)] THEN [apart EXCEPT !.start[i] = @ + 1]
               ELSE Count(v, i, v.start[Other(i)])
  IN  UpdateIndexes(lists, moved)

\* find_invalid: nflagged of the two streams.
FindInvalid(lists) ==
  LET state == [index : [Streams -> Nat], start : [Streams -> Nat], end : [Streams -> Nat],
                nflagged : [Streams -> Int]]
      loop[v \in state] == IF v.start[First(v)] = IntMax THEN v ELSE loop[Turn(lists, v)]
  IN  loop[Initially(lists)].nflagged
=============================================================================
