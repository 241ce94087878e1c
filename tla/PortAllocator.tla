--------------------------- MODULE PortAllocator ---------------------------
(***************************************************************************)
(* The allocator of RTP ports, switch_core_port_allocator.c, as            *)
(* switch_rtp.c uses it: one allocator per address, even ports only.       *)
(*                                                                         *)
(* track[i] is 1 for a port that is in use, 0 for one that may be handed   *)
(* out and negative for one that has to be passed over that many times     *)
(* first.  A request picks a place at random and walks up; all of it, over *)
(* and over, happens under the mutex.                                      *)
(***************************************************************************)
EXTENDS Integers, FiniteSets

CONSTANTS START_PORT, END_PORT,  \* the range of the configuration
          Robust,                \* SPF_ROBUST_UDP: try to bind a port first
          IPv4                   \* is the address one of AF_INET?

\* The largest switch_port_t, which has 16 bits.
MAX_PORT == 2^16 - 1

\* Rounding MAX_PORT up would make it 0.
ASSUME PortAssumption == /\ START_PORT \in 1 .. MAX_PORT - 1
                         /\ END_PORT \in 1 .. MAX_PORT
                         /\ START_PORT <= END_PORT
                         /\ Robust \in BOOLEAN /\ IPv4 \in BOOLEAN

-----------------------------------------------------------------------------
(* switch_core_port_allocator_new with SPF_EVEN.                           *)

start == START_PORT + (START_PORT % 2)
end == END_PORT - (END_PORT % 2)

\* No place at all if the range is a single odd port.
track_len == ((end - start) + 2) \div 2

Index == 0 .. track_len - 1

PortOf(i) == 2 * (i + start \div 2)

\* The place that free_port computes for a port.
IndexOf(port) == (port - start) \div 2

Port == {PortOf(i) : i \in Index}

Cooling == -4

-----------------------------------------------------------------------------

VARIABLES
    track,       \* alloc->track
    track_used,  \* alloc->track_used
    at,          \* where the request that holds the mutex is
    index, tries \* its variables

allocator == <<track, track_used, at, index, tries>>
search == <<at, index, tries>>

Label == {"none", "pick", "walk", "try"}

AllocatorType ==
    /\ track \in [Index -> Cooling .. 1]
    /\ track_used \in Nat
    /\ at \in Label
    /\ index \in Nat
    /\ tries \in 0 .. track_len

AllocatorInit ==
    /\ track = [i \in Index |-> 0]
    /\ track_used = 0
    /\ at = "none" /\ index = 0 /\ tries = 0

(* switch_core_port_allocator_request_port. *)

\* The variables of the search mean nothing between two walks.
Forget(l) == at' = l /\ index' = 0 /\ tries' = 0

Begin ==
    /\ at = "none"
    /\ Forget("pick")
    /\ UNCHANGED <<track, track_used>>

\* The while loop ends without a port.
Exhausted ==
    /\ at = "pick"
    /\ track_used >= track_len
    /\ Forget("none")
    /\ UNCHANGED <<track, track_used>>

\* rand() % track_len.
Pick(i) ==
    /\ at = "pick"
    /\ track_used < track_len
    /\ at' = "walk" /\ index' = i /\ tries' = 0
    /\ UNCHANGED <<track, track_used>>

\* Mutant of Passed: a port that is passed over stays as cold as it was.
PassedUnchanged == track

\* A negative entry comes one step closer to zero when it is passed.
Passed == IF track[index] < 0 THEN [track EXCEPT ![index] = @ + 1] ELSE track

Walk ==
    /\ at = "walk"
    /\ track[index] # 0
    /\ tries < track_len
    /\ tries' = tries + 1
    /\ track' = Passed
    /\ index' = IF index + 1 >= track_len THEN 0 ELSE index + 1
    /\ UNCHANGED <<track_used, at>>

\* A place was found, or the walk came round and another one is picked.
Arrive ==
    /\ at = "walk"
    /\ track[index] = 0 \/ tries >= track_len
    /\ IF tries < track_len
          THEN at' = "try" /\ UNCHANGED <<index, tries>>
          ELSE Forget("pick")
    /\ UNCHANGED <<track, track_used>>

\* What test_port needs to succeed: blocked is the set of ports that a socket is
\* bound to; the socket of the test is one of AF_INET whatever the address is.
Bindable(blocked) == Robust => IPv4 /\ PortOf(index) \notin blocked

\* Mutant of Take: the place that is handed out is not marked.
TakeUnmarked(blocked) ==
    /\ at = "try" /\ Bindable(blocked)
    /\ track_used' = track_used + 1
    /\ Forget("none")
    /\ UNCHANGED track

Take(blocked) ==
    /\ at = "try" /\ Bindable(blocked)
    /\ track' = [track EXCEPT ![index] = 1]
    /\ track_used' = track_used + 1
    /\ Forget("none")

\* The test fails: the port cannot be bound, or there is no pool, no address or no
\* socket for the test, which may happen at any time.
CoolDown ==
    /\ at = "try" /\ Robust
    /\ track' = [track EXCEPT ![index] = Cooling]
    /\ Forget("pick")
    /\ UNCHANGED track_used

\* free_port acts on ports of its range that are in use.
InUse(port) == port >= start /\ track[IndexOf(port)] > 0

\* switch_core_port_allocator_free_port; the caller has the mutex.
FreePort(port) ==
    /\ at = "none"
    /\ IF InUse(port)
          THEN /\ track' = [track EXCEPT ![IndexOf(port)] = Cooling]
               /\ track_used' = track_used - 1
          ELSE UNCHANGED <<track, track_used>>
    /\ UNCHANGED search

=============================================================================
