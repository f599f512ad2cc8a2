------------------------------- MODULE Shaper -------------------------------
(***************************************************************************)
(* The traffic shaper, lfd_shaper.c, as lfd_linker() uses it: the device   *)
(* is read only if shaper_avail() agrees, and shaper_counter() counts the  *)
(* bytes of every frame that goes down the stack of modules.               *)
(*                                                                         *)
(* The clock is the system's.  It is given by its place in the current     *)
(* second and by what has passed since last_time, which is negative after  *)
(* the clock was set back.  Two kinds of frame pass the shaper by: keep-   *)
(* alive frames and encrypt_buf()'s filler go to the protocol directly.    *)
(***************************************************************************)
EXTENDS Integers, FiniteSetsExt

CONSTANTS
  Sec,        \* ticks to a second, 1000 in the source
  max_speed,  \* bytes per second: spd_out / 8 * 1024 + 400
  Sizes,      \* of the frames from the device, encoded; 0 if none is read
  Word,       \* 2^32 or 2^64: unsigned long
  MaxAge,     \* bound on the time since last_time
  MaxBack,    \* bound on how far the clock is set back
  MaxBytes    \* bound on bytes, beyond what is possible with a sane clock

MaxSize == Max(Sizes)

ASSUME ShaperAssumption ==
  /\ Sec \in Nat \ {0} /\ max_speed \in Nat \ {0}
  /\ Sizes \subseteq Nat
  /\ \E n \in Sizes : \A m \in Sizes : m <= n
  /\ MaxAge \in Nat /\ MaxBack \in Nat /\ Word \in Nat
  /\ MaxBytes \in Nat /\ MaxBytes > max_speed + 1 + MaxSize
  /\ Word > (max_speed + 2 + MaxSize) * Sec  \* up to some 34 Mbit/s with 32 bits
  /\ Word > MaxAge + Sec /\ Word > MaxBack

VARIABLES
  ms,       \* curr_time within its second
  age,      \* curr_time - last_time
  bytes,
  refused,  \* a frame waits at the device: shaper_avail() returned 0
  back,     \* history: the clock was set back in this session
  bucket    \* history: what was sent above max_speed + 1, times Sec

vars == <<ms, age, bytes, refused, back, bucket>>

\* last_time is 0 at first: the epoch.
Init ==
  /\ ms = 0 /\ age = MaxAge
  /\ bytes = 0 /\ refused = FALSE /\ back = FALSE /\ bucket = 0

\* Faulty: forgets the whole seconds of an interval.
tv2ms_sec(t) == IF t % Sec = 0 THEN 1 ELSE t % Sec

\* tv2ms() of an unsigned difference.
tv2ms(t) == IF t = 0 THEN 1 ELSE t % Word

speed == ((bytes * Sec) % Word) \div tv2ms(age)

\* Faulty: bytes is never reset.
NewSecond_never == FALSE

\* curr_time.tv_sec > last_time.tv_sec
NewSecond == age > ms

\* Faulty: a new window begins without its last_time.
Accept_keeps_time(n) ==
  /\ speed <= max_speed
  /\ bytes' = IF NewSecond THEN n ELSE bytes + n
  /\ bytes' <= MaxBytes
  /\ refused' = FALSE
  /\ bucket' = bucket + n * Sec
  /\ UNCHANGED <<ms, age, back>>

\* shaper_avail() returns 1 and a frame of n bytes is read and counted.
Accept(n) ==
  /\ speed <= max_speed
  /\ IF NewSecond THEN age' = 0 /\ bytes' = n
                  ELSE /\ bytes + n <= MaxBytes
                       /\ bytes' = bytes + n
                       /\ UNCHANGED age
  /\ refused' = FALSE
  /\ bucket' = bucket + n * Sec
  /\ UNCHANGED <<ms, back>>

\* shaper_avail() returns 0: the loop goes on without the device.
Refuse ==
  /\ speed > max_speed
  /\ refused' = TRUE
  /\ UNCHANGED <<ms, age, bytes, back, bucket>>

\* The session ends and the client starts another: shaper_init().
Restart ==
  /\ bytes' = 0
  /\ refused' = FALSE /\ back' = (age < 0) /\ bucket' = 0
  /\ UNCHANGED <<ms, age>>

Tick ==
  /\ age < MaxAge
  /\ ms' = (ms + 1) % Sec
  /\ age' = age + 1
  /\ bucket' = IF bucket > max_speed + 1 THEN bucket - (max_speed + 1) ELSE 0
  /\ UNCHANGED <<bytes, refused, back>>

\* Somebody sets the clock, once in a session.
SetBack(t) ==
  /\ ~back
  /\ age - t >= -MaxBack
  /\ age' = age - t
  /\ ms' = (ms - t) % Sec
  /\ back' = TRUE
  /\ UNCHANGED <<bytes, refused, bucket>>

Next ==
  \/ \E n \in Sizes : Accept(n)
  \/ Refuse \/ Restart \/ Tick
  \/ \E t \in 1 .. MaxBack : SetBack(t)

Spec == Init /\ [][Next]_vars

\* The loop turns while a frame waits, and time passes.
FairSpec ==
  Spec /\ WF_vars(Tick) /\ WF_vars(refused /\ \E n \in Sizes : Accept(n))

----------------------------------------------------------------------------
CountsOK ==
  /\ ms \in 0 .. Sec - 1
  /\ age \in Int /\ age <= MaxAge
  /\ bytes \in Nat /\ bucket \in Nat

FlagsOK == refused \in BOOLEAN /\ back \in BOOLEAN

TypeOK == CountsOK /\ FlagsOK

\* lfd_shaper.c: "stop accepting input until the speed become lower or equal to
\* maximal".  In every interval no more is sent than max_speed allows, but for
\* a burst of a second and a frame: neither the windows that begin and end with
\* the seconds of the clock, nor the rounding, nor the frames that are counted
\* after the check, add up to more.  Unless somebody sets the clock back.
RateBound ==
  ~back => bucket <= (max_speed + 1) * (Sec + 1) + MaxSize * Sec

\* The reason: what is counted, and what an earlier window left.
Positive(n) == IF n > 0 THEN n ELSE 0
WindowBound ==
  ~back => bucket <= Positive(bytes * Sec + (max_speed + 1) * (Sec - age))

\* bytes * 1000 does not overflow: the count is reset in time.
NoOverflow == ~back => bytes * Sec < Word

\* The device is not shut out for ever.
AcceptsAgain == refused ~> ~refused
=============================================================================
