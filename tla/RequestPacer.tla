----------------------------- MODULE RequestPacer -----------------------------
(***************************************************************************)
(* The sliding window of core/pacing.py, which every request for           *)
(* historical data passes (data/market_data.py shares one pacer).  IBKR    *)
(* answers a request too many with an empty list of bars, not with an      *)
(* error, so the window has to hold by itself.                             *)
(*                                                                         *)
(* Time is kept as ages: timestamps[i] is how long ago the request was     *)
(* issued, saturated at Window, where _prune no longer tells ages apart.   *)
(* The code's clock is a float; an age here is a number of equal slices.   *)
(***************************************************************************)
EXTENDS Integers, Sequences

CONSTANTS
    MaxRequests,    \* RequestPacer._max_requests
    Window,         \* RequestPacer._window_seconds
    Early           \* how far before its time a sleep may return

\* RequestPacer.__init__ raises ValueError unless both are positive.
ASSUME PacerAssumption ==
    MaxRequests \in Nat \ {0} /\ Window \in Nat \ {0} /\ Early \in Nat

VARIABLES
    timestamps,     \* the deque, oldest first, as ages
    asleep,         \* acquire is suspended in its sleep
    remaining,      \* what is left of that sleep
    issued          \* history: ages of the requests of the last Window

pacerVars == <<timestamps, asleep, remaining, issued>>

Ages == 0..Window

PacerTypeOK ==
    /\ timestamps \in Seq(Ages) /\ issued \in Seq(Ages)
    /\ asleep \in BOOLEAN /\ remaining \in Ages

PacerInit ==
    timestamps = <<>> /\ asleep = FALSE /\ remaining = 0 /\ issued = <<>>

Older(ages) ==
    [i \in 1..Len(ages) |-> IF ages[i] < Window THEN ages[i] + 1 ELSE Window]

\* _prune drops the first n timestamps: the leading ones that are Window old.
Expired(n, ages) ==
    /\ n \in 0..Len(ages)
    /\ \A i \in 1..n : ages[i] >= Window
    /\ n < Len(ages) => ages[n + 1] < Window

Without(n, ages) == SubSeq(ages, n + 1, Len(ages))

TakeSlot(kept) ==
    /\ timestamps' = Append(kept, 0) /\ issued' = Append(issued, 0)
    /\ asleep' = FALSE /\ remaining' = 0

\* The oldest request has to leave the window first.
WaitForSlot(kept) ==
    /\ timestamps' = kept /\ asleep' = TRUE
    /\ remaining' = Window - Head(kept)
    /\ UNCHANGED issued

-----------------------------------------------------------------------------
(* Mutants: the code as a plausible slip would have it, used by no action. *)

\* After its sleep a caller takes the slot of the oldest request unasked.
AcquireTrustsSleep ==
    IF asleep
    THEN TakeSlot(Tail(timestamps))
    ELSE \E n \in 0..Len(timestamps) :
            LET kept == Without(n, timestamps)
            IN  /\ Expired(n, timestamps)
                /\ \/ Len(kept) < MaxRequests /\ TakeSlot(kept)
                   \/ Len(kept) >= MaxRequests /\ WaitForSlot(kept)

\* The expired requests are dropped before the loop and not in it.
AcquirePrunesOnce ==
    LET Judge(kept) == IF Len(kept) < MaxRequests THEN TakeSlot(kept) ELSE WaitForSlot(kept)
    IN  IF asleep THEN Judge(timestamps)
        ELSE \E n \in 0..Len(timestamps) :
                Expired(n, timestamps) /\ Judge(Without(n, timestamps))

-----------------------------------------------------------------------------

\* One round of acquire's loop: prune, then take a slot or sleep.
Acquire ==
    \E n \in 0..Len(timestamps) :
        LET kept == Without(n, timestamps)
        IN  /\ Expired(n, timestamps)
            /\ \/ Len(kept) < MaxRequests /\ TakeSlot(kept)
               \/ Len(kept) >= MaxRequests /\ WaitForSlot(kept)

Request == ~asleep /\ Acquire
Resume  == asleep /\ remaining <= Early /\ Acquire

Tick ==
    /\ timestamps' = Older(timestamps)
    /\ \E n \in 0..Len(issued) :
        /\ Expired(n, Older(issued))
        /\ issued' = Without(n, Older(issued))
    /\ remaining' = IF remaining = 0 THEN 0 ELSE remaining - 1
    /\ UNCHANGED asleep

\* A process that starts after a night has an empty deque, and IBKR's window
\* holds no request of the day before any more.
NewProcess ==
    timestamps' = <<>> /\ asleep' = FALSE /\ remaining' = 0 /\ issued' = <<>>

PacerNext == Request \/ Resume \/ Tick \/ NewProcess
PacerSpec == PacerInit /\ [][PacerNext]_pacerVars

\* No window of IBKR's length ever holds more requests than the limit,
\* whatever the pattern of requests, waits and early wake-ups (acquire).
PacingHolds == Len(issued) <= MaxRequests
===============================================================================
