---------------------------- MODULE ProxyMetrics ----------------------------
(***************************************************************************)
(* ProxyMetrics of internal/router/status_metrics.go: the requests the     *)
(* router has in flight, the ring of the last ones to finish, and the poll *)
(* of the status page that reads both while they change.  The mutex covers *)
(* the map and the ring only; every field of a connection is an atomic of  *)
(* its own, written by the goroutine that copies the response.             *)
(***************************************************************************)
EXTENDS Integers, FiniteSets, Sequences, SequencesExt

CONSTANTS
    Requests,       \* requests through the router
    Streaming,      \* the ones that asked for a stream
    Upgraded,       \* the ones whose connection becomes a WebSocket
    Cap,            \* recentRequestCap
    QuietAfter,     \* proxyQuietAfter
    StallAfter,     \* proxyStallAfter
    HeaderStall,    \* proxyHeaderStallAfter
    MaxNow,         \* bound: the last tick
    None            \* no connection

ASSUME MetricsAssumption ==
    /\ Streaming \subseteq Requests /\ Upgraded \subseteq Requests
    /\ {Cap, QuietAfter, StallAfter, HeaderStall} \subseteq Nat \ {0} /\ MaxNow \in Nat
    /\ QuietAfter < StallAfter /\ None \notin Requests

VARIABLES
    now,            \* the clock
    nextID,         \* ids handed out
    totalRequests,
    active,         \* the map of connections in flight
    recent,         \* the ring of finished ones
    recentNext,     \* the slot the next one goes to
    conn,           \* per request: where its goroutine is, and its atomics
    poll,           \* the status poll in progress
    finished        \* connections in the order they were recorded (history)

vars == <<now, nextID, totalRequests, active, recent, recentNext, conn, poll, finished>>

Zero == 0 - StallAfter - 1     \* the zero time, long before the first tick
Times == {Zero} \cup 0..MaxNow
States == {"active", "idle", "quiet", "stalled"}

(* stamp is the time a note in the making has read; noted (history) says     *)
(* that the poll came to a connection with no note in the making.           *)
NoConn == [at |-> "new", id |-> 0, started |-> 0, stamp |-> Zero, header |-> Zero, lastWrite |-> Zero]
NoPoll == [at |-> "idle", now |-> 0, todo |-> {}, conn |-> None, noted |-> FALSE, header |-> Zero, state |-> "active"]

TypeOK ==
    /\ now \in 0..MaxNow /\ nextID \in 0..Cardinality(Requests)
    /\ totalRequests \in 0..nextID
    /\ active \subseteq Requests
    /\ recent \in BoundedSeq(Requests, Cap) /\ recentNext \in 0..(Cap - 1)
    /\ conn \in [Requests -> [at : {"new", "counted", "open", "noting", "header", "body", "writing", "over"},
                              id : 0..Cardinality(Requests), started : 0..MaxNow,
                              stamp : Times, header : Times, lastWrite : Times]]
    /\ poll \in [at : {"idle", "pick", "header", "row"}, now : 0..MaxNow, todo : SUBSET Requests,
                 conn : Requests \cup {None}, noted : BOOLEAN, header : Times, state : States]
    /\ finished \in BoundedSeq(Requests, Cardinality(Requests))

Init ==
    /\ now = 0 /\ nextID = 0 /\ totalRequests = 0
    /\ active = {} /\ recent = <<>> /\ recentNext = 0
    /\ conn = [r \in Requests |-> NoConn]
    /\ poll = NoPoll
    /\ finished = <<>>

Tick ==
    /\ now < MaxNow /\ now' = now + 1
    /\ UNCHANGED <<nextID, totalRequests, active, recent, recentNext, conn, poll, finished>>

-----------------------------------------------------------------------------
(* The goroutine of a request.                                             *)
Atomics(r, c) ==
    /\ conn' = [conn EXCEPT ![r] = c]
    /\ UNCHANGED <<now, poll>>

(* begin: an id, the count, and then the map.                              *)
Begin(r) ==
    /\ conn[r].at = "new"
    /\ nextID' = nextID + 1
    /\ Atomics(r, [conn[r] EXCEPT !.at = "counted", !.id = nextID + 1, !.started = now])
    /\ totalRequests' = totalRequests + 1
    /\ UNCHANGED <<active, recent, recentNext, finished>>

Publish(r) ==
    /\ conn[r].at = "counted"
    /\ Atomics(r, [conn[r] EXCEPT !.at = "open"])
    /\ active' = active \cup {r}
    /\ UNCHANGED <<nextID, totalRequests, recent, recentNext, finished>>

Ring == <<nextID, totalRequests, active, recent, recentNext, finished>>

(* noteHeader and noteWrite read the clock first.                          *)
ReadClock(r, before, after) ==
    /\ conn[r].at = before
    /\ Atomics(r, [conn[r] EXCEPT !.at = after, !.stamp = now])
    /\ UNCHANGED Ring

(* noteHeader: the compare-and-swap of headerNano, then the store of       *)
(* lastWriteNano with the same time.                                       *)
NoteHeader(r) ==
    /\ conn[r].at = "noting"
    /\ Atomics(r, [conn[r] EXCEPT !.at = "header", !.header = conn[r].stamp, !.stamp = Zero])
    /\ UNCHANGED Ring

SeedLastWrite(r) ==
    /\ conn[r].at = "header"
    /\ Atomics(r, [conn[r] EXCEPT !.at = "body", !.lastWrite = conn[r].header])
    /\ UNCHANGED Ring

NoteWrite(r) ==
    /\ conn[r].at = "writing"
    /\ Atomics(r, [conn[r] EXCEPT !.at = "body", !.lastWrite = conn[r].stamp, !.stamp = Zero])
    /\ UNCHANGED Ring

(* end: the row moves from the map to the ring in one critical section; a  *)
(* request may end without a header.                                       *)
Recorded_OffByOne(ring, r) ==  \* mutant: the ring wraps a slot late
    IF Len(ring) < Cap THEN Append(ring, r) ELSE [ring EXCEPT ![((recentNext + 1) % Cap) + 1] = r]

Recorded(ring, r) ==
    IF Len(ring) < Cap THEN Append(ring, r) ELSE [ring EXCEPT ![recentNext + 1] = r]

Record(r) ==
    /\ recent' = Recorded(recent, r)
    /\ recentNext' = (recentNext + 1) % Cap
    /\ finished' = Append(finished, r)

End(r) ==
    /\ conn[r].at \in {"open", "body"}
    /\ Atomics(r, [conn[r] EXCEPT !.at = "over"])
    /\ active' = active \ {r}
    /\ Record(r)
    /\ UNCHANGED <<nextID, totalRequests>>

-----------------------------------------------------------------------------
(* The poll: Snapshot copies the map under the mutex and then reads the    *)
(* atomics of one connection after the other.                              *)
Polls(p) ==
    /\ poll' = p
    /\ UNCHANGED <<now, nextID, totalRequests, active, recent, recentNext, conn, finished>>

Copy ==
    /\ poll.at = "idle"
    /\ Polls([NoPoll EXCEPT !.at = "pick", !.now = now, !.todo = active])

LoadHeader(r) ==
    /\ poll.at \in {"pick", "row"} /\ r \in poll.todo
    /\ Polls([poll EXCEPT !.at = "header", !.todo = @ \ {r}, !.conn = r, !.header = conn[r].header,
                          !.noted = conn[r].at \in {"body", "over"}])

(* proxyConnState.                                                         *)
State_FromHeader(r, time, header, lastWrite) ==  \* mutant: timed from the first byte, not the last
    CASE r \notin Upgraded /\ header # Zero /\ time - header >= StallAfter -> "stalled"
      [] OTHER -> "active"

State(r, time, header, lastWrite) ==
    LET silence == IF header # Zero THEN time - lastWrite ELSE 0
        waiting == r \in Streaming /\ header = Zero /\ time - conn[r].started >= HeaderStall
    IN CASE r \in Upgraded /\ header # Zero -> IF silence < QuietAfter THEN "active" ELSE "idle"
         [] r \notin Upgraded /\ header # Zero /\ silence >= StallAfter -> "stalled"
         [] r \notin Upgraded /\ header # Zero /\ silence < StallAfter /\ silence >= QuietAfter -> "quiet"
         [] OTHER -> IF waiting THEN "stalled" ELSE "active"

LoadLastWrite ==
    /\ poll.at = "header"
    /\ Polls([poll EXCEPT !.at = "row",
                          !.state = State(poll.conn, poll.now, poll.header, conn[poll.conn].lastWrite)])

Done ==
    /\ poll.at \in {"pick", "row"} /\ poll.todo = {}
    /\ Polls(NoPoll)

(* The ring as the poll lists it.                                          *)
RecentOut == [i \in 1..Len(recent) |-> recent[((recentNext - i + Cap) % Cap) + 1]]

Next ==
    \/ Tick
    \/ \E r \in Requests :
          \/ Begin(r) \/ Publish(r) \/ NoteHeader(r) \/ SeedLastWrite(r) \/ NoteWrite(r) \/ End(r)
          \/ ReadClock(r, "open", "noting") \/ ReadClock(r, "body", "writing")
          \/ LoadHeader(r)
    \/ Copy \/ LoadLastWrite \/ Done

Spec == Init /\ [][Next]_vars

-----------------------------------------------------------------------------
(* Properties.                                                             *)

(* Whenever the mutex is free a published request is in the map or in the  *)
(* list of finished ones, never in both and never in neither, and that     *)
(* list is the last requests to finish, the newest first, before the ring  *)
(* is full and after it wrapped: no poll misses a request or shows it      *)
(* twice.                                                                  *)
InOnePlace ==
    LET over == {finished[i] : i \in DOMAIN finished}
    IN /\ active \cap over = {}
       /\ active \cup over = {r \in Requests : conn[r].at \notin {"new", "counted"}}
       /\ Len(finished) = Cardinality(over)

NewestFirst ==
    LET n == Len(finished)
        k == IF n < Cap THEN n ELSE Cap
    IN RecentOut = Reverse(SubSeq(finished, n - k + 1, n))

ListedOnce == InOnePlace /\ NewestFirst

(* A response that has been silent for the whole threshold by the time of  *)
(* the poll is shown as stalled.  One that wrote within the threshold      *)
(* before the poll is not, if the poll did not come to it while a first    *)
(* byte or a write was being noted; a write as late as the poll may be     *)
(* missed.                                                                 *)
SilenceShows ==
    LET c == conn[poll.conn]
    IN poll.at = "row" /\ poll.conn \notin Upgraded /\ poll.header # Zero /\ c.lastWrite # Zero
       => /\ poll.now - c.lastWrite >= StallAfter => poll.state = "stalled"
          /\ poll.noted /\ poll.now - c.lastWrite \in 1..(StallAfter - 1) => poll.state # "stalled"

(* noteHeader seeds lastWriteNano so that a connection is never timed      *)
(* "from the zero value - which would otherwise read as instantly          *)
(* stalled" (status_metrics.go).  A poll that reads the two atomics        *)
(* between its two steps does just that.                                   *)
NotInstantlyStalled ==
    poll.at = "row" /\ poll.header # Zero /\ poll.state = "stalled"
        => poll.now - poll.header >= StallAfter
=============================================================================
