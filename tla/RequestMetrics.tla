--------------------------- MODULE RequestMetrics ---------------------------
(***************************************************************************)
(* WithRequestMetrics and its timingWriter: what the status a handler's    *)
(* calls leave on the wire has to do with the status that is counted.      *)
(* A handler may call the writer in any order; exchanges run at once and   *)
(* share the counters.  The server's own writer (package net/http) sends   *)
(* the first status it is given, and 200 with the first byte or flush      *)
(* before that; after a Hijack it sends nothing.                           *)
(***************************************************************************)
EXTENDS Naturals, FiniteSets

CONSTANTS
    Exchanges,
    Statuses,    \* what handlers answer, 200 among them
    MaxWriterCalls

Unsent == 0

ASSUME MetricsAssumption ==
    /\ 200 \in Statuses /\ 101 \notin Statuses /\ Unsent \notin Statuses
    /\ MaxWriterCalls \in Nat

VARIABLES
    phase,         \* "serving", "serve_done", "route" or "done"
    wroteHeader, statusCode, hijacked,   \* the timingWriter
    wire,          \* the status on the wire; 101 once the handler owns the connection
    writerCalls,   \* calls of the handler so far
    early,         \* exchanges flushed before a status was written
    failedHijack,  \* exchanges whose Hijack failed in the server's writer
    totalRequests, routeCounts   \* the counters, by status

metricVars == <<phase, wroteHeader, statusCode, hijacked, wire, writerCalls, early,
                failedHijack, totalRequests, routeCounts>>
totals == <<totalRequests, routeCounts>>
faultMarks == <<early, failedHijack>>

MetricsInit ==
    /\ phase = [x \in Exchanges |-> "serving"]
    /\ wroteHeader = [x \in Exchanges |-> FALSE]
    /\ statusCode = [x \in Exchanges |-> 200]
    /\ hijacked = [x \in Exchanges |-> FALSE]
    /\ wire = [x \in Exchanges |-> Unsent]
    /\ writerCalls = [x \in Exchanges |-> 0]
    /\ early = {} /\ failedHijack = {}
    /\ totalRequests = 0
    /\ routeCounts = [s \in Statuses \cup {101} |-> 0]

Send(x, s) == wire' = IF wire[x] = Unsent THEN [wire EXCEPT ![x] = s] ELSE wire

HandlerCalls(x) ==
    /\ phase[x] = "serving" /\ writerCalls[x] < MaxWriterCalls
    /\ writerCalls' = [writerCalls EXCEPT ![x] = @ + 1]
    /\ UNCHANGED <<phase, totals>>

----------------------------------------------------------------------------
\* Faulty variant: the status of every call is noted.
NoteEveryStatus(x, s) ==
    /\ wroteHeader' = [wroteHeader EXCEPT ![x] = TRUE]
    /\ statusCode' = [statusCode EXCEPT ![x] = s]

\* The first status is noted; the writer below is called every time.
NoteStatus(x, s) ==
    /\ wroteHeader' = [wroteHeader EXCEPT ![x] = TRUE]
    /\ statusCode' = IF wroteHeader[x] THEN statusCode ELSE [statusCode EXCEPT ![x] = s]

WriteHeader(x, s) ==
    IF hijacked[x] THEN UNCHANGED <<wroteHeader, statusCode, wire>>
    ELSE NoteStatus(x, s) /\ Send(x, s)

HandlerWritesHeader(x) ==
    /\ HandlerCalls(x)
    /\ \E s \in Statuses : WriteHeader(x, s)
    /\ UNCHANGED <<hijacked, faultMarks>>

\* Write: an implicit 200; the bytes go to the writer below even after a failed Hijack.
HandlerWrites(x) ==
    /\ HandlerCalls(x)
    /\ \/ ~wroteHeader[x] /\ WriteHeader(x, 200)
       \/ wroteHeader[x] /\ Send(x, 200) /\ UNCHANGED <<wroteHeader, statusCode>>
    /\ UNCHANGED <<hijacked, faultMarks>>

\* Flush goes past the timingWriter.
Flush(x) ==
    /\ HandlerCalls(x)
    /\ Send(x, 200)
    /\ early' = IF wroteHeader[x] THEN early ELSE early \cup {x}
    /\ UNCHANGED <<wroteHeader, statusCode, hijacked, failedHijack>>

\* Hijack notes 101 before it asks the server's writer, which may refuse.
\* A second Hijack, and one the writer below does not support, change nothing.
Hijack(x) ==
    /\ HandlerCalls(x)
    /\ ~hijacked[x]
    /\ hijacked' = [hijacked EXCEPT ![x] = TRUE]
    /\ NoteStatus(x, 101)
    /\ \/ Send(x, 101) /\ UNCHANGED failedHijack
       \/ failedHijack' = failedHijack \cup {x} /\ UNCHANGED wire
    /\ UNCHANGED early

\* The handler returns; 200 if it wrote nothing.  The server sends what is missing.
HandlerReturns(x) ==
    /\ phase[x] = "serving"
    /\ phase' = [phase EXCEPT ![x] = "serve_done"]
    /\ \/ ~wroteHeader[x] /\ ~hijacked[x] /\ WriteHeader(x, 200)
       \/ (wroteHeader[x] \/ hijacked[x]) /\ Send(x, 200) /\ UNCHANGED <<wroteHeader, statusCode>>
    /\ UNCHANGED <<hijacked, writerCalls, faultMarks, totals>>

\* Two counters, two atomic additions.
CountTotal(x) ==
    /\ phase[x] = "serve_done"
    /\ phase' = [phase EXCEPT ![x] = "route"]
    /\ totalRequests' = totalRequests + 1
    /\ UNCHANGED <<wroteHeader, statusCode, hijacked, wire, writerCalls, faultMarks, routeCounts>>

CountRoute(x) ==
    /\ phase[x] = "route"
    /\ phase' = [phase EXCEPT ![x] = "done"]
    /\ routeCounts' = [routeCounts EXCEPT ![statusCode[x]] = @ + 1]
    /\ UNCHANGED <<wroteHeader, statusCode, hijacked, wire, writerCalls, faultMarks, totalRequests>>

MetricsNext ==
    \E x \in Exchanges :
        \/ HandlerWritesHeader(x) \/ HandlerWrites(x) \/ Flush(x) \/ Hijack(x)
        \/ HandlerReturns(x) \/ CountTotal(x) \/ CountRoute(x)

MetricsSpec == MetricsInit /\ [][MetricsNext]_metricVars

----------------------------------------------------------------------------
MetricsTypeOK ==
    /\ statusCode \in [Exchanges -> Statuses \cup {101}]
    /\ wire \in [Exchanges -> Statuses \cup {101, Unsent}]
    /\ routeCounts \in [Statuses \cup {101} -> Nat]

\* WithRequestMetrics: an exchange is counted once, under the status the client got,
\* unless it was flushed before a status was written or its Hijack failed; and the total
\* is ahead of the counts by the exchanges between their two additions.
CountedAsSent ==
    /\ \A s \in Statuses \cup {101} :
          routeCounts[s] = Cardinality({x \in Exchanges : phase[x] = "done" /\ statusCode[x] = s})
    /\ totalRequests = Cardinality({x \in Exchanges : phase[x] \in {"route", "done"}})
    /\ \A x \in Exchanges : phase[x] = "done" =>
          statusCode[x] = wire[x] \/ x \in early \cup failedHijack
=============================================================================
