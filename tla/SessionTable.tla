---------------------------- MODULE SessionTable ----------------------------
(***************************************************************************)
(* The table of sessions of switch_core_session.c and the threads that use *)
(* it: they create sessions under the limit and the rate of the core,      *)
(* rename them, look them up by uuid, hang all of them up, destroy them.   *)
(*                                                                         *)
(* A session without a uuid of the caller's gets one of its own, which is  *)
(* written as the session itself.  What happens under session_hash_mutex,  *)
(* or under throttle_mutex, is one step; request_uuid takes the one after  *)
(* the other, and looks for a duplicate under neither.                     *)
(*                                                                         *)
(* A new session can be found by everybody, and its creator may destroy it *)
(* all the same.  Whoever has it goes on with the freed memory, which the  *)
(* model leaves as it was: it is one outcome of that use, and destroyed    *)
(* sessions are destroyed again in it.                                     *)
(***************************************************************************)
EXTENDS Integers, FiniteSets

CONSTANTS
    Sessions,       \* sessions, each of which lives once
    Names,          \* uuids that callers choose (use_uuid)
    Requesters,     \* threads that create sessions
    NoLimits,       \* those of them that pass SOF_NO_LIMITS
    Readers,        \* threads that look sessions up
    Hupalls,        \* those of them that hang up all they find
    session_limit, sps_total,
    None

ASSUME SetsAssumption ==
    /\ IsFiniteSet(Sessions) /\ IsFiniteSet(Requesters)
    /\ NoLimits \subseteq Requesters /\ Hupalls \subseteq Readers
    /\ None \notin Sessions \cup Names
    /\ Sessions \cap Names = {}
ASSUME LimitsAssumption == session_limit \in Nat /\ sps_total \in Nat \ {0}

Uuids == Names \cup Sessions

VARIABLES
    table,          \* session_manager.session_table
    session_count,
    sps,            \* runtime.sps: what is left of this second's rate
    life, uuid,     \* a session: its stage, its uuid_str
    freed,          \* sessions that perform_destroy is through with
    twice,          \* history: sessions that were destroyed when freed
    pc, use_uuid,   \* a requester: where it is, the uuid it asks for
    mine,           \* a requester: the session that it created
    todo,           \* a reader in hupall: the uuids on its list
    hold,           \* a reader: the session that it holds a read lock of
    admitted,       \* history: requests let through in this second
    unlimited,      \* history: sessions created with SOF_NO_LIMITS
    clashed,        \* history: uuids that a request took from another session
    listed          \* history: sessions on a list, not renamed since

manager == <<table, session_count, freed, twice>>
requests == <<pc, use_uuid, mine>>
lookups == <<todo, hold, listed>>
vars == <<manager, sps, life, uuid, requests, lookups, admitted, unlimited, clashed>>

\* new: not launched; up; down: hung up; ended: SSF_DESTROYED; gone: its thread
\* has destroyed it and left.
Stage == {"none", "new", "up", "down", "ended", "gone"}
InUse == {s \in Sessions : life[s] # "none"} \ freed

Init ==
    /\ table = [u \in Uuids |-> None] /\ session_count = 0 /\ freed = {} /\ twice = {}
    /\ sps = sps_total /\ admitted = 0
    /\ life = [s \in Sessions |-> "none"] /\ uuid = [s \in Sessions |-> s]
    /\ pc = [r \in Requesters |-> "idle"]
    /\ use_uuid = [r \in Requesters |-> None] /\ mine = [r \in Requesters |-> None]
    /\ todo = [h \in Readers |-> {}] /\ hold = [h \in Readers |-> None]
    /\ listed = [h \in Readers |-> {}]
    /\ unlimited = {} /\ clashed = {}

-----------------------------------------------------------------------------
(* switch_core_session_request_uuid, switch_core_session_destroy.          *)

\* The search for a duplicate, which takes no lock.
Check(r, u) ==
    /\ pc[r] = "idle"
    /\ u \in Names => table[u] = None
    /\ pc' = [pc EXCEPT ![r] = "checked"]
    /\ use_uuid' = [use_uuid EXCEPT ![r] = u]
    /\ UNCHANGED <<mine, manager, sps, life, uuid, lookups, admitted, unlimited, clashed>>

\* Mutant of OverRate: the last request of a second is let through.
OverRateLater == sps - 1 < 0

OverRate == sps - 1 <= 0

\* Mutant of OverLimit: the session that is about to be created is forgotten.
OverLimitLater == session_count > session_limit

OverLimit == session_count + 1 > session_limit

\* runtime.sps falls with every request, also with a refused one; below zero all
\* values have one effect, and it is not counted any further.
Throttle(r) ==
    /\ pc[r] = "checked"
    /\ IF r \in NoLimits
          THEN /\ pc' = [pc EXCEPT ![r] = "passed"]
               /\ UNCHANGED <<sps, admitted>>
          ELSE /\ sps' = IF sps > 0 THEN sps - 1 ELSE sps
               /\ IF OverRate \/ OverLimit
                     THEN pc' = [pc EXCEPT ![r] = "idle"] /\ UNCHANGED admitted
                     ELSE pc' = [pc EXCEPT ![r] = "passed"] /\ admitted' = admitted + 1
    /\ UNCHANGED <<use_uuid, mine, manager, life, uuid, lookups, unlimited, clashed>>

\* switch_core_hash_insert replaces what it finds under the uuid.
Insert(r, s) ==
    LET u == IF use_uuid[r] = None THEN s ELSE use_uuid[r]
    IN /\ pc[r] = "passed" /\ life[s] = "none"
       /\ table' = [table EXCEPT ![u] = s]
       /\ session_count' = session_count + 1
       /\ life' = [life EXCEPT ![s] = "new"]
       /\ uuid' = [uuid EXCEPT ![s] = u]
       /\ pc' = [pc EXCEPT ![r] = "created"] /\ mine' = [mine EXCEPT ![r] = s]
       /\ use_uuid' = [use_uuid EXCEPT ![r] = None]
       /\ unlimited' = IF r \in NoLimits THEN unlimited \cup {s} ELSE unlimited
       /\ clashed' = IF table[u] # None THEN clashed \cup {u} ELSE clashed
       /\ UNCHANGED <<freed, twice, sps, lookups, admitted>>

\* Mutant of CountAfter: only sessions in the table are counted out.
CountAfterFound(s) == IF table[uuid[s]] = s THEN session_count - 1 ELSE session_count

CountAfter(s) == IF session_count > 0 THEN session_count - 1 ELSE 0

\* switch_core_session_perform_destroy deletes what it finds under the uuid.
Destroy(s) ==
    /\ table' = [table EXCEPT ![uuid[s]] = None]
    /\ session_count' = CountAfter(s)
    /\ freed' = freed \cup {s}
    /\ twice' = IF s \in freed THEN twice \cup {s} ELSE twice

Return(r) ==
    /\ pc[r] = "created"
    /\ pc' = [pc EXCEPT ![r] = "idle"] /\ mine' = [mine EXCEPT ![r] = None]
    /\ UNCHANGED <<use_uuid, sps, uuid, lookups, admitted, unlimited, clashed>>

\* The caller launches its session, unless a hangup has done so.
Launch(r) ==
    /\ Return(r)
    /\ life' = [life EXCEPT ![mine[r]] = IF @ = "new" THEN "up" ELSE @]
    /\ UNCHANGED manager

\* Or gives it up and destroys it, without the write lock, and though perform_
\* destroy notices (and reports that it ignores the attempt) if it runs by now.
GiveUp(r) == Return(r) /\ Destroy(mine[r]) /\ UNCHANGED life

\* The soft timer, once in a second.
Tick ==
    /\ sps' = sps_total /\ admitted' = 0
    /\ UNCHANGED <<manager, life, uuid, requests, lookups, unlimited, clashed>>

-----------------------------------------------------------------------------
(* switch_core_session_set_uuid, and the end of a session.                 *)

\* Mutant of Free: set_uuid does not look for a duplicate.
FreeAlways(u) == TRUE

Free(u) == table[u] = None

\* Mutant of Renamed: the old uuid stays in the table.
RenamedBoth(s, u) == [table EXCEPT ![u] = s]

Renamed(s, u) == [table EXCEPT ![uuid[s]] = None, ![u] = s]

\* Called by the creator of the session, or by its thread.
SetUuid(s, u) ==
    /\ life[s] \in {"new", "up"} /\ s \notin freed /\ u # uuid[s] /\ Free(u)
    /\ table' = Renamed(s, u)
    /\ uuid' = [uuid EXCEPT ![s] = u]
    /\ listed' = [h \in Readers |-> listed[h] \ {s}]
    /\ UNCHANGED <<session_count, freed, twice, sps, life, requests, todo, hold, admitted, unlimited, clashed>>

HangUp(s) ==
    /\ life[s] = "up"
    /\ life' = [life EXCEPT ![s] = "down"]
    /\ UNCHANGED <<manager, sps, uuid, requests, lookups, admitted, unlimited, clashed>>

\* Mutant of WriteLock: does not wait for readers.
WriteLockNow(s) == TRUE

\* switch_core_session_write_lock.
WriteLock(s) == \A h \in Readers : hold[h] # s

\* The end of switch_core_session_thread: SSF_DESTROYED is set under the lock.
ThreadEnds(s) ==
    /\ life[s] = "down" /\ WriteLock(s)
    /\ life' = [life EXCEPT ![s] = "ended"]
    /\ UNCHANGED <<manager, sps, uuid, requests, lookups, admitted, unlimited, clashed>>

ThreadDestroys(s) ==
    /\ life[s] = "ended"
    /\ Destroy(s)
    /\ life' = [life EXCEPT ![s] = "gone"]
    /\ UNCHANGED <<sps, uuid, requests, lookups, admitted, unlimited, clashed>>

-----------------------------------------------------------------------------
(* switch_core_session_locate, _force_locate and _hupall.                  *)

\* switch_core_session_read_lock succeeds.
Readable(s) == life[s] \in {"new", "up"}

\* The force of force_locate.
Lockable(s) == Readable(s) \/ life[s] = "down"

Locate(h, u) ==
    /\ hold[h] = None
    /\ table[u] # None /\ Lockable(table[u])
    /\ hold' = [hold EXCEPT ![h] = table[u]]
    /\ UNCHANGED <<todo, listed, manager, sps, life, uuid, requests, admitted, unlimited, clashed>>

Unlock(h) ==
    /\ hold[h] # None
    /\ hold' = [hold EXCEPT ![h] = None]
    /\ UNCHANGED <<todo, listed, manager, sps, life, uuid, requests, admitted, unlimited, clashed>>

\* The uuids of the sessions in the table are copied under the mutex.
HupallList(h) ==
    LET found == {u \in Uuids : table[u] # None /\ Readable(table[u])}
    IN /\ hold[h] = None /\ todo[h] = {}
       /\ todo' = [todo EXCEPT ![h] = {uuid[table[u]] : u \in found}]
       /\ listed' = [listed EXCEPT ![h] = {table[u] : u \in found}]
       /\ UNCHANGED <<hold, manager, sps, life, uuid, requests, admitted, unlimited, clashed>>

\* Mutant of Rest: the first session that is not found ends the loop.
RestIfFound(h, u) == IF table[u] = None THEN {} ELSE todo[h] \ {u}

Rest(h, u) == todo[h] \ {u}

\* Each of them is looked up again, and skipped if there is nothing to lock.
HupallLocate(h, u) ==
    /\ hold[h] = None /\ u \in todo[h]
    /\ todo' = [todo EXCEPT ![h] = Rest(h, u)]
    /\ hold' = IF table[u] # None /\ Readable(table[u])
                  THEN [hold EXCEPT ![h] = table[u]] ELSE hold
    /\ UNCHANGED <<listed, manager, sps, life, uuid, requests, admitted, unlimited, clashed>>

\* switch_channel_hangup, which launches a session that has no thread, and
\* switch_core_session_rwunlock.
HupallHangUp(h) ==
    /\ hold[h] # None
    /\ life' = [life EXCEPT ![hold[h]] = IF @ \in {"new", "up"} THEN "down" ELSE @]
    /\ hold' = [hold EXCEPT ![h] = None]
    /\ UNCHANGED <<todo, listed, manager, sps, uuid, requests, admitted, unlimited, clashed>>

-----------------------------------------------------------------------------

Next ==
    \/ \E r \in Requesters : \/ \E u \in Names \cup {None} : Check(r, u)
                             \/ Throttle(r)
                             \/ \E s \in Sessions : Insert(r, s)
                             \/ Launch(r)
                             \/ GiveUp(r)
    \/ Tick
    \/ \E s \in Sessions : \/ \E u \in Names : SetUuid(s, u)
                           \/ HangUp(s)
                           \/ ThreadEnds(s)
                           \/ ThreadDestroys(s)
    \/ \E h \in Readers \ Hupalls : (\E u \in Uuids : Locate(h, u)) \/ Unlock(h)
    \/ \E h \in Hupalls : \/ HupallList(h)
                          \/ \E u \in Uuids : HupallLocate(h, u)
                          \/ HupallHangUp(h)

Spec == Init /\ [][Next]_vars

-----------------------------------------------------------------------------
(* Properties.                                                             *)

\* Every variable keeps its type, and runtime.sps its range.
TypeOK ==
    /\ table \in [Uuids -> Sessions \cup {None}]
    /\ session_count \in Nat
    /\ freed \subseteq Sessions /\ twice \subseteq Sessions
    /\ sps \in 0 .. sps_total
    /\ life \in [Sessions -> Stage] /\ uuid \in [Sessions -> Uuids]
    /\ pc \in [Requesters -> {"idle", "checked", "passed", "created"}]
    /\ use_uuid \in [Requesters -> Names \cup {None}]
    /\ mine \in [Requesters -> Sessions \cup {None}]
    /\ \A r \in Requesters : pc[r] = "created" => mine[r] \in Sessions
    /\ todo \in [Readers -> SUBSET Uuids]
    /\ hold \in [Readers -> Sessions \cup {None}]
    /\ listed \in [Readers -> SUBSET Sessions]
    /\ admitted \in Nat
    /\ unlimited \subseteq Sessions /\ clashed \subseteq Uuids

\* No entry of the table outlives its session or its uuid, even when two sessions
\* were given one uuid, or one was destroyed twice: locate never finds freed memory.
NoDangling ==
    \A u \in Uuids : table[u] # None => table[u] \in InUse /\ uuid[table[u]] = u

\* The uuids that a request took from another session, or under which a session was
\* destroyed for the second time.
Contested == clashed \cup {uuid[d] : d \in twice}

\* A session that lives is found under its uuid.  It can lose its entry only to a
\* request that passed its unlocked search for a duplicate at the same time, or to
\* the second destruction of a session with that uuid.
Findable == \A s \in InUse : table[uuid[s]] = s \/ uuid[s] \in Contested

\* session_count is the number of sessions that are not destroyed, also if one of
\* them has lost its entry, less at most one for each that was destroyed twice:
\* it is never too high, which the shutdown of the core relies on.
CountExact ==
    /\ session_count <= Cardinality(InUse)
    /\ Cardinality(InUse) <= session_count + Cardinality(twice)

\* What is left of the limit: the count is read under one mutex and changed under
\* another, so that requests at the same time may exceed it, but only by the number
\* of them less one, and by one for each session that was destroyed twice.
LimitBounded ==
    Requesters # NoLimits =>
        Cardinality(InUse \ unlimited)
            < session_limit + Cardinality(Requesters \ NoLimits) + Cardinality(twice)

\* max-sessions is the "max number of sessions to allow at any given time" (switch.
\* conf.xml).  Violated by the code.
SessionLimit == Cardinality(InUse \ unlimited) <= session_limit

\* In one second fewer than sps_total requests are let through.
RateBounded == admitted < sps_total

\* The thread of a session does not destroy it while a reader holds it, nor is a
\* session that its thread has destroyed found again.
HeldStays == \A h \in Readers : hold[h] # None => life[hold[h]] # "gone"

\* A read lock makes it "safe to read from the session" (switch_core.h): nobody
\* frees a session that a reader holds.  Violated by the code.
SafeToRead == \A h \in Readers : hold[h] \notin freed

\* When hupall has gone through its list, every session that was on it and has not
\* been freed is hung up, unless it was renamed in between or its uuid is contested.
HupallReaches ==
    \A h \in Hupalls : todo[h] = {} /\ hold[h] = None =>
        \A s \in listed[h] \ freed : life[s] \in {"new", "up"} => uuid[s] \in Contested

=============================================================================
