-------------------------- MODULE Mx6xPtpCompProofs --------------------------
(***************************************************************************)
(* Theorems about the search of mx6q_ptp_set_compensation (Mx6xPtpComp):   *)
(* for every clock and every minor correction it ends with the best pair   *)
(* of increment and period.  The products and quotients of variables are   *)
(* reduced to three lemmas about division.                                 *)
(***************************************************************************)
EXTENDS Mx6xPtpComp, TLAPS

-----------------------------------------------------------------------------
(* Division                                                                *)

\* The quotient of two numbers, without its remainder.
LEMMA Quotient ==
    ASSUME NEW a \in Nat, NEW b \in Nat \ {0}
    PROVE  /\ a \div b \in Nat
           /\ b * (a \div b) <= a
           /\ a < b * (a \div b) + b
OBVIOUS

\* A quotient reaches c exactly when c times the divisor fits.
LEMMA QuotientAtLeast ==
    ASSUME NEW a \in Nat, NEW b \in Nat \ {0}, NEW c \in Nat
    PROVE  a \div b >= c <=> b * c <= a
<1> DEFINE q == a \div b
<1>1. q \in Nat /\ b * q <= a /\ a < b * q + b
  BY Quotient
<1> HIDE DEF q
<1>2. ASSUME q >= c PROVE b * c <= a
  BY <1>1, <1>2
<1>3. ASSUME q < c PROVE a < b * c
  <2>1. q + 1 <= c
    BY <1>1, <1>3
  <2> QED BY <1>1, <2>1
<1> QED BY <1>1, <1>2, <1>3 DEF q

\* A larger divisor has a smaller quotient.
LEMMA QuotientFalls ==
    ASSUME NEW a \in Nat, NEW b \in Nat \ {0}, NEW c \in Nat \ {0}, b <= c
    PROVE  a \div c <= a \div b
<1> DEFINE q == a \div c
<1>1. q \in Nat /\ c * q <= a
  BY Quotient
<1> HIDE DEF q
<1>2. b * q <= a
  <2>1. b * q <= c * q
    BY <1>1
  <2>2. b * q \in Nat /\ c * q \in Nat
    BY <1>1
  <2> QED BY <1>1, <2>1, <2>2
<1>3. a \div b >= q
  BY <1>1, <1>2, QuotientAtLeast
<1> QED BY <1>3, Quotient DEF q

-----------------------------------------------------------------------------
(* The candidates                                                          *)

\* The period after which j extra nanoseconds make up for the correction, and
\* the correction they make, in numbers that do not wrap.
PeriodOf(j) == (freq * j) \div comp
OffsetOf(j) == (freq * j) \div PeriodOf(j)

\* The clock and the correction are as mx6q_ptp_start and the ioctl give them.
InputOK == /\ freq \in 1..(W - 1) /\ period \in 1..(W - 1) /\ comp \in 0..(W - 1)
           /\ freq * period < W

\* For a minor correction every candidate has a period, and is "never too
\* small".
LEMMA Candidate ==
    ASSUME InputOK, Minor, NEW j \in 1..period
    PROVE  /\ freq * j \in Nat \ {0} /\ freq * j < W /\ freq <= freq * j
           /\ PeriodOf(j) \in Nat \ {0} /\ OffsetOf(j) \in Nat
           /\ comp <= OffsetOf(j) /\ OffsetOf(j) <= freq * j
<1> DEFINE a == freq * j
<1>0. /\ W \in Nat /\ freq \in Nat \ {0} /\ comp \in Nat \ {0} /\ comp < freq
      /\ period \in Nat \ {0} /\ j \in Nat \ {0} /\ j <= period
  BY CompAssumption DEF InputOK, Minor
<1>1. a \in Nat /\ freq <= a
  BY <1>0
<1>2. a < W
  <2>1. a <= freq * period
    BY <1>0
  <2> QED BY <1>0, <1>1, <2>1 DEF InputOK
<1> HIDE DEF a
<1>3. a \in Nat \ {0}
  BY <1>0, <1>1
<1>4. a \div comp \in Nat \ {0}
  <2>1. comp * 1 <= a
    BY <1>0, <1>1
  <2>2. a \div comp >= 1
    BY <1>0, <1>1, <2>1, QuotientAtLeast
  <2>3. a \div comp \in Nat
    BY <1>0, <1>1, Quotient
  <2> QED BY <2>2, <2>3
<1> DEFINE k == a \div comp
<1>5. comp * k <= a
  BY <1>0, <1>1, Quotient
<1>6. k \in Nat \ {0}
  BY <1>4
<1> HIDE DEF k
<1>7. a \div k \in Nat /\ k * (a \div k) <= a
  BY <1>1, <1>6, Quotient
<1>8. comp <= a \div k
  <2>1. k * comp <= a
    BY <1>0, <1>5, <1>6
  <2> QED BY <1>0, <1>1, <1>6, <1>7, <2>1, QuotientAtLeast
<1>9. a \div k <= a
  BY <1>1, <1>6, <1>7
<1> QED BY <1>1, <1>2, <1>3, <1>6, <1>7, <1>8, <1>9 DEF PeriodOf, OffsetOf, a, k

\* No other period for the same j comes closer without being too small.
LEMMA CandidateBest ==
    ASSUME InputOK, Minor, NEW j \in 1..period, NEW k \in 1..(freq * j),
           (freq * j) \div k >= comp
    PROVE  OffsetOf(j) <= (freq * j) \div k
<1> DEFINE a == freq * j
<1>1. /\ a \in Nat \ {0} /\ PeriodOf(j) \in Nat \ {0}
      /\ comp \in Nat \ {0} /\ k \in Nat \ {0}
  BY Candidate DEF InputOK, Minor
<1>2. k * comp <= a
  BY <1>1, QuotientAtLeast
<1>3. k <= PeriodOf(j)
  <2>1. comp * k <= a
    BY <1>1, <1>2
  <2> QED BY <1>1, <2>1, QuotientAtLeast DEF PeriodOf
<1> QED BY <1>1, <1>3, QuotientFalls DEF OffsetOf

\* The arithmetic of the code, on 32 bits and on the remaining offset, finds
\* the same candidates, and its error is the excess over the correction.
LEMMA CandidateCode ==
    ASSUME InputOK, Minor, rem_offset = comp, NEW j \in 1..period
    PROVE  /\ TestPeriod(j) = PeriodOf(j) /\ PeriodOf(j) # 0
           /\ Err(j) = OffsetOf(j) - comp /\ Err(j) \in 0..(W - 1)
           /\ Err(j) < W - 1
<1>1. /\ freq * j \in Nat \ {0} /\ freq * j < W /\ W \in Nat \ {0}
      /\ PeriodOf(j) \in Nat \ {0} /\ OffsetOf(j) \in Nat
      /\ comp <= OffsetOf(j) /\ OffsetOf(j) <= freq * j
      /\ comp \in Nat \ {0}
  BY Candidate, CompAssumption DEF InputOK, Minor
<1>2. (freq * j) % W = freq * j
  <2> DEFINE a == freq * j
  <2>1. a \in Nat /\ a < W
    BY <1>1
  <2> HIDE DEF a
  <2>2. a % W = a
    BY <1>1, <2>1
  <2> QED BY <2>2 DEF a
<1>3. TestPeriod(j) = PeriodOf(j)
  BY <1>2 DEF TestPeriod, PeriodOf
<1>4. TestOffset(j) = OffsetOf(j)
  BY <1>2, <1>3 DEF TestOffset, OffsetOf
<1>5. OffsetOf(j) - comp \in 0..(W - 1) /\ OffsetOf(j) - comp < W - 1
  <2> DEFINE a == freq * j
  <2>1. a \in Nat /\ a < W /\ OffsetOf(j) <= a
    BY <1>1
  <2> HIDE DEF a
  <2> QED BY <1>1, <2>1
<1>6. (OffsetOf(j) - comp) % W = OffsetOf(j) - comp
  <2> DEFINE e == OffsetOf(j) - comp
  <2>1. e \in 0..(W - 1)
    BY <1>5
  <2> HIDE DEF e
  <2>2. e % W = e
    BY <1>1, <2>1
  <2> QED BY <2>2 DEF e
<1> QED BY <1>1, <1>3, <1>4, <1>5, <1>6 DEF Err

-----------------------------------------------------------------------------
(* The search                                                              *)

\* A pair has been chosen that is as good as any of the first n candidates.
Chosen(n) == /\ inc_cor \in 1..period /\ cor_period = PeriodOf(inc_cor)
             /\ \A j \in 1..n : OffsetOf(inc_cor) <= OffsetOf(j)

\* How far the search has come: before pass i it has the best of the i - 1
\* candidates before, and min_err is that one's error.
SearchOK ==
    /\ pc \in {"search", "write"} => inc = period /\ rem_offset = comp
    /\ pc = "search" => /\ i \in 1..(period + 1)
                        /\ i = 1 => min_err = W - 1
                        /\ i > 1 => Chosen(i - 1) /\ min_err = OffsetOf(inc_cor) - comp
    /\ pc = "write" => Chosen(period)

\* The registers hold the pair that was chosen.
RegOK == pc = "done" =>
            /\ Chosen(period)
            /\ reg = [inc |-> period, every |-> cor_period,
                      cor |-> IF positive THEN period + inc_cor ELSE period - inc_cor]

CompInv == /\ InputOK
           /\ Minor => pc # "fault" /\ SearchOK /\ RegOK

\* The search has not begun.
LEMMA InitCompInv == Init => CompInv
BY CompAssumption DEF Init, CompInv, InputOK, SearchOK, RegOK

\* A minor correction is in range, and leaves the increment at the period.
LEMMA CompBegin ==
    ASSUME CompInv, Minor, Begin
    PROVE  SearchOK' /\ RegOK'
<1>1. /\ freq \in Nat \ {0} /\ comp \in Nat \ {0} /\ comp < freq /\ period \in Nat \ {0}
      /\ W \in Nat
  BY CompAssumption DEF CompInv, InputOK, Minor
<1>2. comp \div freq = 0
  <2>1. ~(freq * 1 <= comp)
    BY <1>1
  <2>2. ~(comp \div freq >= 1)
    BY <1>1, <2>1, QuotientAtLeast
  <2>3. comp \div freq \in Nat
    BY <1>1, Quotient
  <2> QED BY <2>2, <2>3
<1>3. /\ inc' = period /\ rem_offset' = comp /\ i' = 1 /\ min_err' = W - 1
      /\ pc' = "search" /\ UNCHANGED <<freq, period, comp, positive>>
  BY <1>1, <1>2 DEF Begin, input
<1> QED BY <1>1, <1>3 DEF SearchOK, RegOK

\* One pass of the loop.
LEMMA CompSearch ==
    ASSUME CompInv, Minor, Search
    PROVE  pc' # "fault" /\ SearchOK' /\ RegOK'
<1>1. /\ pc = "search" /\ i \in 1..period /\ inc = period /\ rem_offset = comp
      /\ UNCHANGED <<freq, period, comp, positive, inc, rem_offset>>
      /\ period \in Nat \ {0} /\ W \in Nat /\ comp \in Nat /\ InputOK
      /\ i = 1 => min_err = W - 1
      /\ i > 1 => Chosen(i - 1) /\ min_err = OffsetOf(inc_cor) - comp
  <2>1. pc = "search" /\ i <= inc /\ UNCHANGED <<freq, period, comp, positive, inc, rem_offset>>
    BY DEF Search, input
  <2> QED BY <2>1, CompAssumption DEF CompInv, InputOK, SearchOK
<1>2. /\ TestPeriod(i) = PeriodOf(i) /\ PeriodOf(i) # 0
      /\ Err(i) = OffsetOf(i) - comp /\ Err(i) \in 0..(W - 1) /\ Err(i) < W - 1
  BY <1>1, CandidateCode
<1>3. \A j \in 1..period : OffsetOf(j) \in Nat /\ comp <= OffsetOf(j)
  BY <1>1, Candidate
<1>4. \A j : PeriodOf(j)' = PeriodOf(j) /\ OffsetOf(j)' = OffsetOf(j)
  BY <1>1 DEF PeriodOf, OffsetOf
<1>5. CASE Err(i) = 0
  <2>1. inc_cor' = i /\ cor_period' = PeriodOf(i) /\ pc' = "write"
    BY <1>2, <1>5 DEF Search
  <2>2. \A j \in 1..period : OffsetOf(i) <= OffsetOf(j)
    BY <1>1, <1>2, <1>3, <1>5
  <2>3. Chosen(period)'
    BY <1>1, <1>4, <2>1, <2>2 DEF Chosen
  <2> QED BY <1>1, <2>1, <2>3 DEF SearchOK, RegOK
<1>6. CASE Err(i) # 0 /\ Better(Err(i))
  <2>1. /\ inc_cor' = i /\ cor_period' = PeriodOf(i) /\ min_err' = Err(i)
        /\ i' = i + 1 /\ pc' = "search"
    BY <1>2, <1>6 DEF Search
  <2>2. Err(i) < min_err
    BY <1>6 DEF Better
  <2>3. \A j \in 1..i : OffsetOf(i) <= OffsetOf(j)
    <3> SUFFICES ASSUME NEW j \in 1..i PROVE OffsetOf(i) <= OffsetOf(j)
      OBVIOUS
    <3>1. CASE j = i
      BY <1>1, <1>3, <3>1
    <3>2. CASE j # i
      <4>1. i > 1 /\ j \in 1..(i - 1) /\ j \in 1..period
        BY <1>1, <3>2
      <4>2. inc_cor \in 1..period /\ OffsetOf(inc_cor) <= OffsetOf(j)
        BY <1>1, <4>1 DEF Chosen
      <4>3. OffsetOf(i) - comp < OffsetOf(inc_cor) - comp
        BY <1>1, <1>2, <2>2, <4>1
      <4> QED BY <1>1, <1>3, <4>1, <4>2, <4>3
    <3> QED BY <3>1, <3>2
  <2>4. inc_cor' \in 1..period /\ \A j \in 1..i : OffsetOf(inc_cor') <= OffsetOf(j)
    BY <1>1, <2>1, <2>3
  <2> QED BY <1>1, <1>2, <1>4, <2>1, <2>4 DEF SearchOK, RegOK, Chosen
<1>7. CASE Err(i) # 0 /\ ~Better(Err(i))
  <2>1. UNCHANGED <<inc_cor, cor_period, min_err>> /\ i' = i + 1 /\ pc' = "search"
    BY <1>2, <1>7 DEF Search
  <2>2. i > 1 /\ Chosen(i - 1) /\ min_err = OffsetOf(inc_cor) - comp
    <3>1. i # 1
      BY <1>1, <1>2, <1>7 DEF Better
    <3> QED BY <1>1, <3>1
  <2>3. inc_cor \in 1..period /\ cor_period = PeriodOf(inc_cor)
    BY <2>2 DEF Chosen
  <2>4. OffsetOf(inc_cor) <= OffsetOf(i)
    BY <1>1, <1>2, <1>3, <1>7, <2>2, <2>3 DEF Better
  <2>5. \A j \in 1..i : OffsetOf(inc_cor) <= OffsetOf(j)
    <3>1. \A j \in 1..i : j = i \/ j \in 1..(i - 1)
      BY <1>1
    <3> QED BY <2>2, <2>4, <3>1 DEF Chosen
  <2> QED BY <1>1, <1>4, <2>1, <2>2, <2>3, <2>5 DEF SearchOK, RegOK, Chosen
<1> QED BY <1>5, <1>6, <1>7

\* Every step keeps the invariant.
LEMMA NextCompInv == CompInv /\ [Next]_vars => CompInv'
<1> SUFFICES ASSUME CompInv, [Next]_vars PROVE CompInv'
  OBVIOUS
<1>1. UNCHANGED <<freq, period, comp, positive>>
  BY DEF Next, Reset, TooBig, Begin, Search, SearchEnd, Write, input, vars
<1>2. InputOK' /\ (Minor' <=> Minor)
  BY <1>1 DEF CompInv, InputOK, Minor
<1> SUFFICES ASSUME Minor PROVE pc' # "fault" /\ SearchOK' /\ RegOK'
  BY <1>2 DEF CompInv
<1>3. /\ freq \in Nat \ {0} /\ comp \in Nat \ {0} /\ comp < freq /\ period \in Nat \ {0}
      /\ pc # "fault" /\ SearchOK /\ RegOK
  BY DEF CompInv, InputOK, Minor
<1>4. CASE Reset \/ TooBig
  <2>1. ~Reset
    BY <1>3 DEF Reset
  <2>2. ~TooBig
    <3>1. comp \div freq = 0 /\ freq \div 2 \in Nat
      <4>1. ~(freq * 1 <= comp)
        BY <1>3
      <4>2. ~(comp \div freq >= 1)
        BY <1>3, <4>1, QuotientAtLeast
      <4>3. comp \div freq \in Nat /\ freq \div 2 \in Nat
        BY <1>3, Quotient
      <4> QED BY <4>2, <4>3
    <3> QED BY <3>1 DEF TooBig
  <2> QED BY <1>4, <2>1, <2>2
<1>5. CASE Begin
  BY <1>5, CompBegin DEF Begin
<1>6. CASE Search
  BY <1>6, CompSearch
<1>7. CASE SearchEnd
  <2>1. pc = "search" /\ i > period /\ i \in 1..(period + 1) /\ inc = period /\ rem_offset = comp
    BY <1>3, <1>7 DEF SearchEnd, SearchOK
  <2>2. i = period + 1 /\ Chosen(period)
    BY <1>3, <2>1 DEF SearchOK
  <2> QED BY <1>1, <1>7, <2>1, <2>2 DEF SearchEnd, search, SearchOK, RegOK, Chosen, PeriodOf, OffsetOf
<1>8. CASE Write
  BY <1>1, <1>3, <1>8 DEF Write, search, SearchOK, RegOK, Chosen, PeriodOf, OffsetOf
<1>9. CASE UNCHANGED vars
  BY <1>3, <1>9 DEF vars, SearchOK, RegOK, Chosen, PeriodOf, OffsetOf
<1> QED BY <1>4, <1>5, <1>6, <1>7, <1>8, <1>9 DEF Next

\* The best-so-far invariant of the search, for every clock and correction.
THEOREM CompInvariant == Spec => []CompInv
<1> QED BY InitCompInv, NextCompInv, PTL DEF Spec

\* mx6q_ptp_set_compensation carries out every minor correction, never falls
\* short of it ("Integer division so never too small"), and sets the registers
\* to the step and the interval that come closest, for every clock frequency
\* and period whose product a register holds.
THEOREM CompBest == Spec => []BestCompensation
<1>1. CompInv => BestCompensation
  <2> SUFFICES ASSUME CompInv, Minor
               PROVE  /\ pc # "fault"
                      /\ pc = "done" =>
                           /\ reg.inc = period /\ reg.every > 0 /\ reg.cor >= 0
                           /\ Gained >= comp
                           /\ \A j \in 1..period : \A k \in 1..freq * j :
                                (freq * j) \div k >= comp => Gained <= (freq * j) \div k
    BY DEF BestCompensation
  <2>1. pc # "fault" /\ RegOK /\ InputOK
    BY DEF CompInv
  <2> SUFFICES ASSUME pc = "done"
               PROVE  /\ reg.inc = period /\ reg.every > 0 /\ reg.cor >= 0
                      /\ Gained >= comp
                      /\ \A j \in 1..period : \A k \in 1..freq * j :
                           (freq * j) \div k >= comp => Gained <= (freq * j) \div k
    BY <2>1
  <2>2. /\ inc_cor \in 1..period /\ cor_period = PeriodOf(inc_cor)
        /\ \A j \in 1..period : OffsetOf(inc_cor) <= OffsetOf(j)
        /\ reg.inc = period /\ reg.every = cor_period
        /\ reg.cor = IF positive THEN period + inc_cor ELSE period - inc_cor
        /\ period \in Nat /\ freq \in Nat /\ comp \in Nat
    BY <2>1 DEF RegOK, Chosen, InputOK
  <2>3. /\ PeriodOf(inc_cor) \in Nat \ {0} /\ OffsetOf(inc_cor) \in Nat
        /\ comp <= OffsetOf(inc_cor)
    BY <2>1, <2>2, Candidate
  <2>4. (IF positive THEN reg.cor - reg.inc ELSE reg.inc - reg.cor) = inc_cor
    BY <2>2
  <2>5. Gained = OffsetOf(inc_cor)
    BY <2>2, <2>4 DEF Gained, OffsetOf
  <2>6. reg.every > 0 /\ reg.cor >= 0
    BY <2>2, <2>3
  <2>7. ASSUME NEW j \in 1..period, NEW k \in 1..(freq * j), (freq * j) \div k >= comp
        PROVE  Gained <= (freq * j) \div k
    <3>1. OffsetOf(j) <= (freq * j) \div k /\ OffsetOf(j) \in Nat
      BY <2>1, <2>7, Candidate, CandidateBest
    <3>2. freq * j \in Nat /\ k \in Nat \ {0}
      BY <2>1, Candidate
    <3>3. (freq * j) \div k \in Nat
      BY <3>2, Quotient
    <3> QED BY <2>2, <2>3, <2>5, <3>1, <3>3
  <2> QED BY <2>2, <2>3, <2>5, <2>6, <2>7
<1> QED BY <1>1, CompInvariant, PTL
==============================================================================
