----------------------------- MODULE Mx6xPtpComp -----------------------------
(***************************************************************************)
(* mx6q_ptp_set_compensation (devnp/mx6x/ptp.c): from a correction in      *)
(* nanoseconds per second, how the 1588 timer is to be incremented: by inc *)
(* at every tick of its clock, and by inc_cor instead at every cor_period  *)
(* ticks.  One pass of the search for the best pair is one step.           *)
(***************************************************************************)
EXTENDS Integers

CONSTANTS W,         \* one more than the largest uint32_t
          Freqs,     \* clock frequencies (mx6q_clock_freq)
          Periods,   \* clock periods (mx6q_clock_period)
          Comps      \* corrections (ptc.comp)

ASSUME CompAssumption == /\ W \in Nat \ {0}
                         /\ Freqs \subseteq 1..(W - 1)
                         /\ Periods \subseteq 1..(W - 1)
                         /\ Comps \subseteq 0..(W - 1)

VARIABLES freq, period, comp, positive,       \* the inputs
          inc, rem_offset, i, min_err, inc_cor, cor_period,
          reg,                                \* TIMER_INCR and TIMER_CORR
          pc

input == <<freq, period, comp, positive>>
search == <<inc, rem_offset, i, min_err, inc_cor, cor_period>>
vars == <<freq, period, comp, positive, inc, rem_offset, i, min_err, inc_cor,
          cor_period, reg, pc>>

\* One of the frequency and the period is the quotient of 10^9 by the other
\* (mx6q_ptp_start, mx6q_ptp_cal): a uint32_t holds their product.
Init ==
    /\ freq \in Freqs /\ period \in Periods /\ comp \in Comps
    /\ freq * period < W
    /\ positive \in BOOLEAN
    /\ inc = 0 /\ rem_offset = 0 /\ i = 0 /\ min_err = 0
    /\ inc_cor = 0 /\ cor_period = 0
    /\ reg = [inc |-> period, cor |-> 0, every |-> 0]
    /\ pc = "enter"

\* No correction: back to the default.
Reset ==
    /\ pc = "enter" /\ comp = 0
    /\ reg' = [inc |-> period, cor |-> 0, every |-> 0]
    /\ pc' = "done"
    /\ UNCHANGED <<input, search>>

\* "offset too big, ignoring"
TooBig ==
    /\ pc = "enter" /\ comp # 0 /\ comp \div freq > freq \div 2
    /\ pc' = "done"
    /\ UNCHANGED <<input, search, reg>>

\* A correction of a clock frequency or more goes into the increment.
Begin ==
    /\ pc = "enter" /\ comp # 0 /\ comp \div freq <= freq \div 2
    /\ inc' = period + comp \div freq
    /\ rem_offset' = comp - comp \div freq
    /\ i' = 1 /\ min_err' = W - 1
    /\ inc_cor' = inc' /\ cor_period' = 0
    /\ pc' = "search"
    /\ UNCHANGED <<input, reg>>

\* The period after which j extra nanoseconds make up for the offset, and the
\* offset they make up for.
TestPeriod(j) == ((freq * j) % W) \div rem_offset
TestOffset(j) == ((freq * j) % W) \div TestPeriod(j)
Err(j) == (TestOffset(j) - comp) % W

\* Fault: the last candidate that is no worse wins, whatever came before.
BetterThanNothing(e) == e < W - 1

\* A candidate is taken if it is better than those before it.
Better(e) == e < min_err

Search ==
    /\ pc = "search" /\ i <= inc
    /\ IF TestPeriod(i) = 0
       THEN pc' = "fault" /\ UNCHANGED <<i, min_err, inc_cor, cor_period>>
       ELSE IF Err(i) = 0
       THEN /\ inc_cor' = i /\ cor_period' = TestPeriod(i)
            /\ pc' = "write"
            /\ UNCHANGED <<i, min_err>>
       ELSE /\ IF Better(Err(i))
               THEN inc_cor' = i /\ cor_period' = TestPeriod(i) /\ min_err' = Err(i)
               ELSE UNCHANGED <<inc_cor, cor_period, min_err>>
            /\ i' = i + 1 /\ pc' = "search"
    /\ UNCHANGED <<input, inc, rem_offset, reg>>

SearchEnd ==
    /\ pc = "search" /\ i > inc
    /\ pc' = "write"
    /\ UNCHANGED <<input, search, reg>>

\* The registers get the increment and the increment of a corrected tick.
Write ==
    /\ pc = "write"
    /\ reg' = [inc |-> inc, every |-> cor_period,
               cor |-> IF positive THEN inc + inc_cor ELSE inc - inc_cor]
    /\ pc' = "done"
    /\ UNCHANGED <<input, search>>

Next == Reset \/ TooBig \/ Begin \/ Search \/ SearchEnd \/ Write

Spec == Init /\ [][Next]_vars

-----------------------------------------------------------------------------
(* Properties                                                              *)

\* A correction that changes the rate of the timer by less than one
\* nanosecond a tick.
Minor == 0 < comp /\ comp < freq

\* What the registers add to the timer in a second of freq ticks.
Gained == (freq * (IF positive THEN reg.cor - reg.inc ELSE reg.inc - reg.cor))
             \div reg.every

\* A minor correction is always carried out, and the rate the registers are
\* set to is never short of the one asked for ("Integer division so never too
\* small"); no step up to the clock period, taken at any interval, comes
\* closer; and the increment of a corrected tick is not negative.
BestCompensation ==
    Minor =>
        /\ pc # "fault"
        /\ pc = "done" =>
             /\ reg.inc = period /\ reg.every > 0 /\ reg.cor >= 0
             /\ Gained >= comp
             /\ \A j \in 1..period : \A k \in 1..freq * j :
                  (freq * j) \div k >= comp => Gained <= (freq * j) \div k
==============================================================================
