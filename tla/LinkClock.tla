----------------------------- MODULE LinkClock -----------------------------
(* The cartridge clock of a linked game                                     *)
(* (runtimes/gb/src/server/gb_link_engine.c): which SAVs are accepted, how  *)
(* the clock in one is read, moved to the time the server gives, and written*)
(* back into the SAV that is kept.                                          *)
(*                                                                          *)
(* A clock is a record of its registers. Its units are constants, so that   *)
(* every carry happens in a small instance; the seconds it has been brought *)
(* to are `last`. The module has no state of its own: GbLink uses it.       *)
EXTENDS Integers

CONSTANTS
    Minute, Hour, Day,   \* 60 seconds, 60 minutes, 24 hours in the code
    DayWrap,             \* values of the day register before its ninth bit (256)
    Week, WeekWrap       \* 7 days, 256 weeks

Carts == {"none", "mbc3", "tpp1", "huc3"}
SecondsPerDay == Minute * Hour * Day

\* What each cartridge's clock keeps, besides `last`.
Mbc3 == [s : 0..Minute - 1, m : 0..Hour - 1, h : 0..Day - 1, d : 0..DayWrap - 1,
         ninth : BOOLEAN, over : BOOLEAN, on : BOOLEAN]
Tpp1 == [s : 0..Minute - 1, m : 0..Hour - 1, h : 0..Day - 1, d : 0..Week - 1,
         w : 0..WeekWrap - 1, over : BOOLEAN, on : BOOLEAN]
Huc3 == [m : 0..Hour * Day - 1, d : 0..DayWrap - 1, on : {TRUE}]

Registers(cart) ==
    CASE cart = "mbc3" -> Mbc3
      [] cart = "tpp1" -> Tpp1
      [] cart = "huc3" -> Huc3

-----------------------------------------------------------------------------
(* Moving a clock                                                           *)

\* One day more: MBC3 has nine bits of days, TPP1 weeks; the overflow bit stays set.
NextDay(cart, r) ==
    IF cart = "mbc3"
    THEN IF r.d + 1 < DayWrap THEN [r EXCEPT !.d = @ + 1]
         ELSE [r EXCEPT !.d = 0, !.over = @ \/ r.ninth, !.ninth = ~@]
    ELSE IF r.d + 1 < Week THEN [r EXCEPT !.d = @ + 1]
         ELSE [r EXCEPT !.d = 0, !.w = (@ + 1) % WeekWrap, !.over = @ \/ r.w + 1 = WeekWrap]

\* One second more.
NextSecond(cart, r) ==
    IF r.s + 1 < Minute THEN [r EXCEPT !.s = @ + 1]
    ELSE IF r.m + 1 < Hour THEN [r EXCEPT !.s = 0, !.m = @ + 1]
    ELSE IF r.h + 1 < Day THEN [r EXCEPT !.s = 0, !.m = 0, !.h = @ + 1]
    ELSE NextDay(cart, [r EXCEPT !.s = 0, !.m = 0, !.h = 0])

Days(cart, r, n) ==
    LET f[i \in 0..n] == IF i = 0 THEN r ELSE NextDay(cart, f[i - 1]) IN f[n]
Seconds(cart, r, n) ==
    LET f[i \in 0..n] == IF i = 0 THEN r ELSE NextSecond(cart, f[i - 1]) IN f[n]

\* Mutant of AdvanceHuc3: the minute that was begun is not counted.
AdvanceHuc3WholeMinutes(r, last, seconds) ==
    LET total == r.m + seconds \div Minute
    IN  [r |-> [r EXCEPT !.m = total % (Hour * Day),
                         !.d = (@ + total \div (Hour * Day)) % DayWrap],
         last |-> last + seconds]

\* HuC3 counts minutes: up to the next full one first, then whole ones.
AdvanceHuc3(r, last, seconds) ==
    LET left == Minute - (last % Minute)
        total == r.m + 1 + (seconds - left) \div Minute
    IN  IF seconds < left THEN [r |-> r, last |-> last + seconds]
        ELSE [r |-> [r EXCEPT !.m = total % (Hour * Day),
                              !.d = (@ + total \div (Hour * Day)) % DayWrap],
              last |-> last + seconds]

\* Mutant of advance_rtc_deterministically: a stopped clock runs on.
AdvanceStopped(cart, r, last, seconds) ==
    IF cart = "huc3" THEN AdvanceHuc3(r, last, seconds)
    ELSE [r |-> Seconds(cart, Days(cart, r, seconds \div SecondsPerDay), seconds % SecondsPerDay),
          last |-> last + seconds]

\* A clock that is stopped stays, and so does its `last`.
advance_rtc_deterministically(cart, r, last, seconds) ==
    IF cart = "huc3" THEN AdvanceHuc3(r, last, seconds)
    ELSE IF ~r.on THEN [r |-> r, last |-> last]
    ELSE [r |-> Seconds(cart, Days(cart, r, seconds \div SecondsPerDay), seconds % SecondsPerDay),
          last |-> last + seconds]

\* A clock ahead of the server is left alone.
catch_up_rtc_deterministically(cart, r, last, target) ==
    IF target <= last THEN [r |-> r, last |-> last]
    ELSE advance_rtc_deterministically(cart, r, last, target - last)

\* What a clock is: second after second, HuC3's minute with the second that completes it.
Ticked(cart, r, last, seconds) ==
    LET Tick(c) ==
            CASE cart = "huc3" /\ (c.last + 1) % Minute # 0 -> [c EXCEPT !.last = @ + 1]
              [] cart = "huc3" ->
                   [r |-> [c.r EXCEPT !.m = (@ + 1) % (Hour * Day),
                                      !.d = IF c.r.m + 1 = Hour * Day
                                            THEN (@ + 1) % DayWrap ELSE @],
                    last |-> c.last + 1]
              [] OTHER -> [r |-> NextSecond(cart, c.r), last |-> c.last + 1]
        f[i \in 0..seconds] == IF i = 0 THEN [r |-> r, last |-> last] ELSE Tick(f[i - 1])
    IN  IF r.on THEN f[seconds] ELSE f[0]

-----------------------------------------------------------------------------
(* The clock's place in a SAV: the bytes after the cartridge's RAM          *)

\* sizeof(GB_huc3_rtc_time_t), TPP1's 20, the 48 of VBA64.
TailOf(cart) ==
    CASE cart = "none" -> 0
      [] cart = "huc3" -> 17
      [] cart = "tpp1" -> 20
      [] cart = "mbc3" -> 48

\* Mutant of save_preflight_for_loaded_rom: a short tail passes.
PreflightAtMost(cart, ram, size) ==
    IF cart = "none" THEN "OK"
    ELSE IF size = ram THEN "RTC_MISSING"
    ELSE IF size > ram + TailOf(cart) THEN "RTC_UNSUPPORTED"
    ELSE "OK"

save_preflight_for_loaded_rom(cart, ram, size) ==
    IF cart = "none" THEN "OK"
    ELSE IF size = ram THEN "RTC_MISSING"
    ELSE IF size # ram + TailOf(cart) THEN "RTC_UNSUPPORTED"
    ELSE "OK"

\* load_battery_deterministically: a SAV that is there has the tail of its cartridge.
Loads(cart, ram, size) ==
    \/ size = 0
    \/ cart = "none"
    \/ (IF size > ram THEN size - ram ELSE 0) = TailOf(cart)

\* Where load_battery_deterministically reads `last`.
ReadAt(cart, ram) ==
    CASE cart = "huc3" -> ram
      [] cart = "tpp1" -> ram + 8
      [] cart = "mbc3" -> ram + 40

\* integral_gb_runtime_slot_extract_battery: the SAV that is kept has RAM and tail, whatever
\* was loaded.
BatterySize(cart, ram) == ram + TailOf(cart)

\* Mutant of StampAt: the stamp is put at the end of every SAV.
StampAtEnd(cart, ram, size) == size - 8

\* canonicalize_battery_rtc_timestamp: where `last` is written into the SAV that is kept.
StampAt(cart, ram, size) ==
    CASE cart = "huc3" -> ram
      [] cart = "tpp1" -> ram + 8
      [] cart = "mbc3" -> size - 8
=============================================================================
