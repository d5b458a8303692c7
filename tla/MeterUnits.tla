----------------------------- MODULE MeterUnits -----------------------------
(***************************************************************************)
(* Measurements and their units, mapi/meter.h: an mm_t is a value as it is *)
(* displayed and a word of flags that says what was measured and on which  *)
(* scale.  The float is a decimal number [m, e], standing for m * 10^e;    *)
(* the rounding of float arithmetic is left out.                           *)
(***************************************************************************)
EXTENDS Integers, Sequences

MUNITS == [AC |-> 2^0, DC |-> 2^1, AMPS |-> 2^2, VOLTS |-> 2^3, CELCIUS |-> 2^4,
           FAHRENHEIT |-> 2^5, DECIBELS |-> 2^6, OHMS |-> 2^7, HZ |-> 2^8,
           JOULES |-> 2^9, WATTS |-> 2^10, POWERFACTOR |-> 2^11, NANO |-> 2^16,
           MICRO |-> 2^17, MILLI |-> 2^18, MEGA |-> 2^19, GIGA |-> 2^20]

mm_t(m, e, units) == [m |-> m, e |-> e, units |-> units]

Has(mm, flag) == (mm.units \div MUNITS[flag]) % 2 = 1

\* The first of the flags, in this order, that mm has; none if it has none.
FirstFlag(mm, flags, none) ==
    LET set == {k \in 1..Len(flags) : Has(mm, flags[k])} IN
    IF set = {} THEN none ELSE flags[CHOOSE k \in set : \A j \in set : k <= j]

meter_units_prefix(mm) ==
    FirstFlag(mm, <<"NANO", "MICRO", "MILLI", "MEGA", "GIGA">>, "")

\* Without any of these flags name is returned unassigned.
meter_units_measure(mm) ==
    FirstFlag(mm, <<"AMPS", "VOLTS", "WATTS", "JOULES", "CELCIUS", "FAHRENHEIT",
                    "DECIBELS", "OHMS", "HZ", "POWERFACTOR">>, "unassigned")

Scale == [MILLI |-> -3, MICRO |-> -6, NANO |-> -9, MEGA |-> 6, GIGA |-> 9]

\* One scale is undone: the first in this order.
meter_to_base(mm) ==
    LET scale == FirstFlag(mm, <<"MILLI", "MICRO", "NANO", "MEGA", "GIGA">>, "none") IN
    IF scale = "none" THEN mm
    ELSE mm_t(mm.m, mm.e + Scale[scale], mm.units - MUNITS[scale])

\* The value of mm on another scale: as it is, if mm is on that scale, else by
\* way of the base.  (The functions return the value alone.)
OnScale(mm, scale) ==
    IF Has(mm, scale) THEN mm
    ELSE LET base == meter_to_base(mm) IN
         mm_t(base.m, base.e - Scale[scale], base.units + MUNITS[scale])

meter_to_milli(mm) == OnScale(mm, "MILLI")
meter_to_mega(mm) == OnScale(mm, "MEGA")
meter_to_micro(mm) == OnScale(mm, "MICRO")
meter_to_nano(mm) == OnScale(mm, "NANO")
meter_to_giga(mm) == OnScale(mm, "GIGA")

\* The conversion of a float that is not negative to unsigned int.
Truncated(mm) == IF mm.e >= 0 THEN mm.m * 10^mm.e ELSE mm.m \div 10^(0 - mm.e)

\* The number without zeros at its end, by which two numbers are compared.
Number(mm) ==
    LET zeros == CHOOSE k \in 0..8 : /\ mm.m % 10^k = 0
                                     /\ k = 8 \/ mm.m % 10^(k + 1) # 0
    IN  IF mm.m = 0 THEN [m |-> 0, e |-> 0]
        ELSE [m |-> mm.m \div 10^zeros, e |-> mm.e + zeros]

=============================================================================
