---------------------------- MODULE RateLimiter -----------------------------
(***************************************************************************)
(* FixedWindowLimiter for one key.  Allow works on atomics without a lock: *)
(* every Load, Store, Add, CompareAndSwap and every access to the map is a *)
(* step of its own.  The map may drop an entry (the sweep) that a caller   *)
(* still holds, so entries are numbered and the map holds one of them.     *)
(***************************************************************************)
EXTENDS Integers

CONSTANTS
    Threads,
    Max,         \* admissions per window
    Window, Ttl, \* in ticks of the clock
    SweepEvery,  \* 512 in the code
    MaxClock, MaxCalls  \* bounds on the clock and on the calls

ASSUME LimiterAssumption ==
    /\ Max \in Nat \ {0} /\ Window \in Nat \ {0} /\ Ttl \in Nat \ {0}
    /\ SweepEvery \in Nat \ {0} /\ MaxClock \in Nat /\ MaxCalls \in Nat

EntryIds == 1 .. MaxCalls
NoEntry == 0

VARIABLES
    clock,
    entries,     \* the key's entry in the map, or NoEntry
    used,        \* entries created so far
    windowStart, count, lastSeen,  \* the fields of each entry
    calls,       \* the limiter's counter of calls
    started,     \* calls of Allow so far
    allowAt, allowNow, e, start, allowed,   \* a caller's position and local variables
    admitted,    \* admissions of an entry since its windowStart was last set
    raced        \* entries whose present window began in a race, see below

entryVars == <<windowStart, count, lastSeen>>
ghosts == <<admitted, raced>>
limiterVars == <<clock, entries, used, entryVars, calls, started, allowAt, allowNow, e, start,
                 allowed, ghosts>>

LimiterInit ==
    /\ clock = 0
    /\ entries = NoEntry /\ used = 0
    /\ windowStart = [i \in EntryIds |-> 0]
    /\ count = [i \in EntryIds |-> 0]
    /\ lastSeen = [i \in EntryIds |-> 0]
    /\ calls = 0 /\ started = 0
    /\ allowAt = [p \in Threads |-> "idle"]
    /\ allowNow = [p \in Threads |-> 0]
    /\ e = [p \in Threads |-> NoEntry]
    /\ start = [p \in Threads |-> 0]
    /\ allowed = [p \in Threads |-> FALSE]
    /\ admitted = [i \in EntryIds |-> 0]
    /\ raced = {}

----------------------------------------------------------------------------
At(p, label) == allowAt[p] = label
AllowGoto(p, label) == allowAt' = [allowAt EXCEPT ![p] = label]

\* Some other caller is about to take this step on p's entry.
Other(p, label) == \E q \in Threads \ {p} : At(q, label) /\ e[q] = e[p]

Mark(p, inRace) == raced' = IF inRace THEN raced \cup {e[p]} ELSE raced

Answer(p, ok) ==
    /\ allowed' = [allowed EXCEPT ![p] = ok]
    /\ AllowGoto(p, "sweep")

ClockTick ==
    /\ clock < MaxClock
    /\ clock' = clock + 1
    /\ UNCHANGED <<entries, used, entryVars, calls, started, allowAt, allowNow, e, start, allowed,
                   ghosts>>

Allow(p) ==
    /\ At(p, "idle")
    /\ started < MaxCalls
    /\ started' = started + 1
    /\ allowNow' = [allowNow EXCEPT ![p] = clock]
    /\ AllowGoto(p, "entry")
    /\ UNCHANGED <<clock, entries, used, entryVars, calls, e, start, allowed, ghosts>>

\* Its count is 0 from the start.
NewEntry(n, t) ==
    /\ windowStart' = [windowStart EXCEPT ![n] = t]
    /\ lastSeen' = [lastSeen EXCEPT ![n] = t]

\* LoadOrStore with a fresh entry.
LoadOrStore(p) ==
    /\ At(p, "entry")
    /\ \/ /\ entries # NoEntry
          /\ e' = [e EXCEPT ![p] = entries]
          /\ UNCHANGED <<entries, used, windowStart, lastSeen>>
       \/ /\ entries = NoEntry
          /\ used' = used + 1
          /\ entries' = used'
          /\ e' = [e EXCEPT ![p] = used']
          /\ NewEntry(used', allowNow[p])
    /\ AllowGoto(p, "seen")
    /\ UNCHANGED <<clock, count, calls, started, allowNow, start, allowed, ghosts>>

StoreLastSeen(p) ==
    /\ At(p, "seen")
    /\ lastSeen' = [lastSeen EXCEPT ![e[p]] = allowNow[p]]
    /\ AllowGoto(p, "start")
    /\ UNCHANGED <<clock, entries, used, windowStart, count, calls, started, allowNow, e,
                   start, allowed, ghosts>>

LoadStart(p) ==
    /\ At(p, "start")
    /\ start' = [start EXCEPT ![p] = windowStart[e[p]]]
    /\ AllowGoto(p, IF allowNow[p] - windowStart[e[p]] >= Window THEN "cas" ELSE "add")
    /\ UNCHANGED <<clock, entries, used, entryVars, calls, started, allowNow, e,
                   allowed, ghosts>>

\* The winner opens a window and is admitted as its first call.
CompareAndSwap(p) ==
    /\ At(p, "cas")
    /\ \/ /\ windowStart[e[p]] = start[p]
          /\ windowStart' = [windowStart EXCEPT ![e[p]] = allowNow[p]]
          /\ admitted' = [admitted EXCEPT ![e[p]] = 1]
          /\ raced' = IF Other(p, "store") THEN raced \cup {e[p]} ELSE raced \ {e[p]}
          /\ AllowGoto(p, "store")
       \/ /\ windowStart[e[p]] # start[p]
          /\ AllowGoto(p, "start")
          /\ UNCHANGED <<windowStart, ghosts>>
    /\ UNCHANGED <<clock, entries, used, count, lastSeen, calls, started, allowNow, e, start,
                   allowed>>

\* Faulty variant: the count of the window before is kept.
StoreNothing(p) ==
    /\ At(p, "store")
    /\ Mark(p, Other(p, "store") \/ Other(p, "undo"))
    /\ Answer(p, TRUE)
    /\ UNCHANGED <<clock, entries, used, entryVars, calls, started, allowNow, e, start,
                   admitted>>

StoreCount(p) ==
    /\ At(p, "store")
    /\ count' = [count EXCEPT ![e[p]] = 1]
    /\ Mark(p, Other(p, "store") \/ Other(p, "undo"))
    /\ Answer(p, TRUE)
    /\ UNCHANGED <<clock, entries, used, windowStart, lastSeen, calls, started, allowNow, e,
                   start, admitted>>

\* Faulty variant: the count before the Add is compared.
AddAfterCompare(p) ==
    /\ At(p, "add")
    /\ count' = [count EXCEPT ![e[p]] = @ + 1]
    /\ Mark(p, Other(p, "store"))
    /\ \/ /\ count[e[p]] <= Max
          /\ admitted' = [admitted EXCEPT ![e[p]] = @ + 1]
          /\ Answer(p, TRUE)
       \/ /\ count[e[p]] > Max
          /\ AllowGoto(p, "undo")
          /\ UNCHANGED <<admitted, allowed>>
    /\ UNCHANGED <<clock, entries, used, windowStart, lastSeen, calls, started, allowNow, e,
                   start>>

AddCount(p) ==
    /\ At(p, "add")
    /\ count' = [count EXCEPT ![e[p]] = @ + 1]
    /\ Mark(p, Other(p, "store"))
    /\ \/ /\ count'[e[p]] <= Max
          /\ admitted' = [admitted EXCEPT ![e[p]] = @ + 1]
          /\ Answer(p, TRUE)
       \/ /\ count'[e[p]] > Max
          /\ AllowGoto(p, "undo")
          /\ UNCHANGED <<admitted, allowed>>
    /\ UNCHANGED <<clock, entries, used, windowStart, lastSeen, calls, started, allowNow, e,
                   start>>

UndoCount(p) ==
    /\ At(p, "undo")
    /\ count' = [count EXCEPT ![e[p]] = @ - 1]
    /\ Answer(p, FALSE)
    /\ UNCHANGED <<clock, entries, used, windowStart, lastSeen, calls, started, allowNow, e,
                   start, ghosts>>

\* maybeCleanup: every SweepEvery-th call looks at the key's entry, by its own now.
MaybeCleanup(p) ==
    /\ At(p, "sweep")
    /\ calls' = calls + 1
    /\ AllowGoto(p, IF /\ calls' % SweepEvery = 0
                  /\ entries # NoEntry
                  /\ allowNow[p] - lastSeen[entries] > Ttl
               THEN "delete" ELSE "idle")
    /\ UNCHANGED <<clock, entries, used, entryVars, started, allowNow, e, start,
                   allowed, ghosts>>

\* Delete by key: whatever entry is there by now.
DeleteEntry(p) ==
    /\ At(p, "delete")
    /\ entries' = NoEntry
    /\ AllowGoto(p, "idle")
    /\ UNCHANGED <<clock, used, entryVars, calls, started, allowNow, e, start, allowed,
                   ghosts>>

AllowStep(p) ==
    \/ LoadOrStore(p) \/ StoreLastSeen(p) \/ LoadStart(p) \/ CompareAndSwap(p)
    \/ StoreCount(p) \/ AddCount(p) \/ UndoCount(p) \/ MaybeCleanup(p) \/ DeleteEntry(p)

LimiterNext == ClockTick \/ \E p \in Threads : Allow(p) \/ AllowStep(p)

LimiterSpec == LimiterInit /\ [][LimiterNext]_limiterVars

----------------------------------------------------------------------------
\* Types; a caller past the map holds an entry, and the map holds a created one.
LimiterTypeOK ==
    /\ clock \in Nat /\ calls \in Nat /\ started \in Nat
    /\ used \in 0 .. MaxCalls /\ entries \in 0 .. used
    /\ windowStart \in [EntryIds -> Nat] /\ lastSeen \in [EntryIds -> Nat]
    /\ count \in [EntryIds -> Int] /\ admitted \in [EntryIds -> Nat]
    /\ allowAt \in [Threads -> {"idle", "entry", "seen", "start", "cas", "store", "add", "undo",
                           "sweep", "delete"}]
    /\ allowNow \in [Threads -> Nat] /\ start \in [Threads -> Nat]
    /\ e \in [Threads -> 0 .. used] /\ allowed \in [Threads -> BOOLEAN]
    /\ \A p \in Threads : allowAt[p] \notin {"idle", "entry"} => e[p] # NoEntry
    /\ raced \subseteq EntryIds

\* Unless the window's start raced with other callers (an Add between the swap and
\* the Store of the count, an Add(-1) of the window before or a late Store after it),
\* an entry admits at most Max calls per window, whatever else interleaves.
WithinLimitUnlessRaced == \A i \in EntryIds : i \notin raced => admitted[i] <= Max

\* A call is turned away only when its window is full or began in a race.
DeniedOnlyWhenFull ==
    [][\A p \in Threads : At(p, "add") /\ allowAt'[p] = "undo"
            => admitted[e[p]] >= Max \/ e[p] \in raced']_limiterVars
=============================================================================
