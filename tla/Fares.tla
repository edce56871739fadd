---------------------------------- MODULE Fares ----------------------------------
(***************************************************************************)
(* What a ride costs (internal/pricing, pkg/money).  A request is answered *)
(* with three quotes, each from a route, a time and a multiplier of its    *)
(* own; a state holds one.  Integers throughout; lengths and times of a    *)
(* route come in tenths, because the code rounds them first.               *)
(***************************************************************************)
EXTENDS Integers, FiniteSets, FiniteSetsExt

CONSTANTS
  Lengths,      \* tenths of metres, along the road or as the crow flies
  Durations,    \* tenths of seconds
  Hours,        \* UTC
  NightStarts, NightEnds,  \* hours of Viet Nam
  Multipliers   \* what a surge provider may answer, per mille

VARIABLE quote   \* with what it was made from, or NoQuote

NoQuote == [vehicle |-> "none"]

-------------------------------------------------------------------------------
\* DefaultTariffs; the opening fare covers 2000 m and the night costs a tenth.
Tariff(open, km, minute, fee) ==
  [OpeningFare |-> open, PerKm |-> km, PerMinute |-> minute, MinFare |-> open,
   PlatformFeePermille |-> fee]

DefaultTariffs ==
  [bike |-> Tariff(12000, 4300, 300, 200),
   car4 |-> Tariff(29000, 9500, 600, 250),
   car7 |-> Tariff(34000, 11500, 700, 250)]

OpeningMeter == 2000
NightSurchargePermille == 100

\* Half away from zero: the quotient is cut towards zero.
MulDiv(v, num, den) ==
  LET n == v * num
  IN  IF n < 0 THEN -((den \div 2 - n) \div den) ELSE (n + den \div 2) \div den

MulPermille(v, rate) == MulDiv(v, rate, 1000)

\* Up to the next multiple.
RoundTo(v, step) == IF v % step = 0 THEN v ELSE v + (step - (v % step))

\* math.Round of so many tenths.
Rounded(tenths) == (tenths + 5) \div 10

computeBase(t, r) ==
  t.OpeningFare
  + (IF r.length > OpeningMeter * 10
     THEN MulDiv(t.PerKm, Rounded(r.length - OpeningMeter * 10), 1000) ELSE 0)
  + MulDiv(t.PerMinute, Rounded(r.duration), 60)

\* Mutant: a window over midnight is compared like one within a day.
isNightWithin(hour, from, to) ==
  LET h == (hour + 7) % 24 IN h >= from /\ h < to

\* The hour of Viet Nam; a window may go over midnight.
isNight(hour, from, to) ==
  LET h == (hour + 7) % 24
  IN  IF from = to THEN FALSE
      ELSE IF from < to THEN h >= from /\ h < to
      ELSE h >= from \/ h < to

\* Whatever the provider says; it is asked again for every quote.
Clamped(surge) == Max({1000, Min({2000, surge})})

Estimate(vehicle, r, hour, window, surge) ==
  LET t == DefaultTariffs[vehicle]
      base == computeBase(t, r)
      night == IF isNight(hour, window[1], window[2])
               THEN MulPermille(base, NightSurchargePermille) ELSE 0
      total == RoundTo(Max({t.MinFare, MulPermille(base + night, Clamped(surge))}), 1000)
      fee == MulPermille(total, t.PlatformFeePermille)
  IN  [BaseFare |-> base, NightFee |-> night, SurgePermille |-> Clamped(surge),
       Total |-> total, PlatformFee |-> fee, DriverEarn |-> total - fee]

\* Without OSRM the way is 1.35 times the air line, at 22 km/h.
HaversineRoute(air) ==
  LET d == (air * 135) \div 100
  IN  [length |-> d, duration |-> (d * 36) \div 220]

-------------------------------------------------------------------------------
FaresInit == quote = NoQuote

\* One of the three of EstimateAll; OSRM may fail for it, and the surge provider
\* (then the multiplier is 1000).
EstimateOne(vehicle, osrm, length, duration, hour, window, surge) ==
  LET r == IF osrm THEN [length |-> length, duration |-> duration] ELSE HaversineRoute(length)
  IN  quote' = [vehicle |-> vehicle, route |-> r, hour |-> hour, window |-> window,
                surge |-> surge, is |-> Estimate(vehicle, r, hour, window, surge)]

FaresNext ==
  /\ quote = NoQuote
  /\ \E vehicle \in DOMAIN DefaultTariffs, osrm \in BOOLEAN, length \in Lengths,
        duration \in Durations, hour \in Hours, window \in NightStarts \X NightEnds, surge \in Multipliers :
       EstimateOne(vehicle, osrm, length, duration, hour, window, surge)

FaresSpec == FaresInit /\ [][FaresNext]_quote

-------------------------------------------------------------------------------
\* q with another input.
With(q, r, surge) == Estimate(q.vehicle, r, q.hour, q.window, surge)

\* No more than so many dong, up to a round sum, dearer, and not cheaper, for anybody.
Follows(more, less, rise) ==
  /\ more.Total \in less.Total .. less.Total + RoundTo(rise, 1000)
  /\ more.DriverEarn >= less.DriverEarn /\ more.PlatformFee >= less.PlatformFee

\* Hours from `from' on, up to `to', round the clock.
Nights(window) == {(window[1] + k) % 24 : k \in 0 .. ((window[2] - window[1]) % 24) - 1}

\* What the rider pays is a round sum, not below the minimum, and is what driver
\* and platform get; a metre, a second or a per mille more never makes it cheaper
\* or lets it jump (by more than a rounding step, or the per mille of a long ride);
\* a larger car is dearer; the night costs more exactly in the hours of the window,
\* over midnight or not (pricing/service.go, money.go).
FareIsSound ==
  quote # NoQuote =>
    LET q == quote.is
        r == quote.route
    IN  /\ q.Total % 1000 = 0 /\ q.Total >= DefaultTariffs[quote.vehicle].MinFare
        /\ q.PlatformFee + q.DriverEarn = q.Total /\ 0 < q.PlatformFee /\ 0 < q.DriverEarn
        /\ (q.NightFee > 0) = ((quote.hour + 7) % 24 \in Nights(quote.window))
        /\ Follows(With(quote, [r EXCEPT !.length = @ + 10], quote.surge), q, 1000)
        /\ Follows(With(quote, [r EXCEPT !.duration = @ + 10], quote.surge), q, 1000)
        /\ Follows(With(quote, r, quote.surge + 1), q, (q.BaseFare + q.NightFee + 999) \div 1000)
        /\ quote.vehicle # "car7" =>
             Estimate(IF quote.vehicle = "bike" THEN "car4" ELSE "car7", r, quote.hour,
                      quote.window, quote.surge).Total > q.Total
===============================================================================
