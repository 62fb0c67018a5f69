------------------------------ MODULE Interest ------------------------------
(***************************************************************************)
(* The interest calculation of the API                                     *)
(* (api/graphql/src/actions/accounts/calculate_interest.rs).               *)
(*                                                                         *)
(* The code raises the daily growth factor (1 + rate/100)^(1/365) to the   *)
(* number of whole days between two instants, multiplies the principal by  *)
(* it in f64 and truncates the difference to whole cents.  The factor is   *)
(* the only transcendental part: it is the constant table Growth, in units *)
(* of 1/Scale.  Everything around it (whole days only, truncation towards  *)
(* zero) is written as the code does it.                                   *)
(***************************************************************************)
EXTENDS Integers

CONSTANTS
    Rates,    \* the yearly interest rates an account may have
    Growth,   \* Growth[r][d]: the factor of rate r after d days, times Scale
    Scale,    \* the unit of Growth
    Day,      \* clock ticks in a day
    MaxTime   \* bound on the clock

\* A factor is never negative, which is so for every rate of at least -100%
\* (below it powf takes a root of a negative number), and no whole day means no
\* interest.
ASSUME InterestAssumption ==
    /\ Scale \in Nat \ {0}
    /\ Day \in Nat \ {0}
    /\ MaxTime \in Nat
    /\ \A r \in Rates : \A t \in 0..MaxTime : Growth[r][t \div Day] \in Nat
    /\ \A r \in Rates : Growth[r][0] = Scale

\* No factor shrinks as days pass, which is so if no rate is negative.
FactorsGrow ==
    \A r \in Rates : \A s, t \in 0..MaxTime :
        s <= t => Growth[r][s \div Day] <= Growth[r][t \div Day]

\* Duration::num_days: the fraction of a day is dropped.
NumDays(from, to) == (to - from) \div Day

\* `f64 as i64' drops the fraction, towards zero.
TowardsZero(n, d) == IF n >= 0 THEN n \div d ELSE -((-n) \div d)

CalculateInterest(balance, rate, from, to) ==
    LET principal    == balance * Scale
        newPrincipal == balance * Growth[rate][NumDays(from, to)]
    IN  TowardsZero(newPrincipal - principal, Scale)

\* The interest that may be credited on a balance when `elapsed' ticks have passed
\* since it was last credited: for no more time than that, at an allowed rate.
Gains(balance, elapsed) ==
    {CalculateInterest(balance, r, 0, t) : r \in Rates, t \in 0..elapsed}

=============================================================================
