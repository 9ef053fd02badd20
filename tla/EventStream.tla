----------------------------- MODULE EventStream -----------------------------
(***************************************************************************)
(* The events of a run, as the threads that work for it write them and as  *)
(* one client of GET /runs/{id}/stream receives them.  An event gets its   *)
(* id when it is flushed and is visible once its transaction commits, when *)
(* PostgreSQL sends the notifications of that transaction to those who     *)
(* listen.  The stream listens, fetches what is newer than the cursor the  *)
(* client came with, at most Limit events, then at most Limit more at each *)
(* batch of notifications, and sends the fetched rows one by one.  A       *)
(* client that is cut off comes back with the last id it received.         *)
(***************************************************************************)
EXTENDS Naturals, FiniteSets, Sequences

CONSTANTS
    Writers,    \* the threads that translate packets
    Limit,      \* BACKFILL_LIMIT
    MaxId,      \* bound: no event beyond this id
    MaxDrops    \* bound: the client is cut off at most this often

\* What the constants are; the instances assume it.
StreamAssumption ==
    Limit \in Nat \ {0} /\ MaxId \in Nat /\ MaxDrops \in Nat

VARIABLES
    nextId,     \* the sequence of events.id
    open,       \* the events each thread has flushed and not committed
    failedCalls, \* the events of calls that failed
    log,        \* the committed events, in the order of the commits
    stream,     \* the generator: where it is, its cursor, its notifications and
                \* the rows it has fetched and not sent
    wire,       \* what it has sent and the client has not received
    got,        \* what the client has received
    drops

streamVars == <<nextId, open, failedCalls, log, stream, wire, got, drops>>

Ids(events) == {events[m] : m \in DOMAIN events}

Closed == [at |-> "closed", cursor |-> 0, notes |-> {}, rows |-> {}]

StreamInit ==
    /\ nextId = 1
    /\ open = [w \in Writers |-> <<>>]
    /\ failedCalls = {}
    /\ log = <<>>
    /\ stream = Closed
    /\ wire = <<>>
    /\ got = <<>>
    /\ drops = 0

-----------------------------------------------------------------------------
(* Writers *)

\* emit_event: the id is taken at once.
Emit(w) ==
    /\ nextId <= MaxId
    /\ open' = [open EXCEPT ![w] = Append(@, nextId)]
    /\ nextId' = nextId + 1
    /\ UNCHANGED <<failedCalls, log, stream, wire, got, drops>>

\* The notifications of a commit go to those who have listened before it.
Notified(events) ==
    IF stream.at \in {"listening", "tailing"} THEN [stream EXCEPT !.notes = @ \cup events] ELSE stream

CommitEvents(w) ==
    /\ open[w] # <<>>
    /\ log' = log \o open[w]
    /\ stream' = Notified(Ids(open[w]))
    /\ open' = [open EXCEPT ![w] = <<>>]
    /\ UNCHANGED <<nextId, failedCalls, wire, got, drops>>

\* A call fails: its event is flushed in the session the exception rolls back.
FailCall(w) ==
    /\ open[w] # <<>> /\ nextId <= MaxId
    /\ failedCalls' = failedCalls \cup {nextId}
    /\ nextId' = nextId + 1
    /\ open' = [open EXCEPT ![w] = <<>>]
    /\ UNCHANGED <<log, stream, wire, got, drops>>

-----------------------------------------------------------------------------
(* The stream *)

\* _fetch_events: the first Limit ids after the cursor, up to the newest asked for.
Fetched_FromCursor(after, upTo) ==      \* mutant: the cursor's event once more
    LET due == {e \in Ids(log) : after <= e /\ \E n \in upTo : e <= n}
    IN  {e \in due : Cardinality({f \in due : f < e}) < Limit}
Fetched_Below(after, upTo) ==           \* mutant: without the newest
    LET due == {e \in Ids(log) : after < e /\ \E n \in upTo : e < n}
    IN  {e \in due : Cardinality({f \in due : f < e}) < Limit}
Fetched(after, upTo) ==
    LET due == {e \in Ids(log) : after < e /\ \E n \in upTo : e <= n}
    IN  {e \in due : Cardinality({f \in due : f < e}) < Limit}

\* LISTEN; the cursor is the id the client came with.
Seen == IF got = <<>> THEN 0 ELSE got[Len(got)]

Connect ==
    /\ stream.at = "closed"
    /\ stream' = [Closed EXCEPT !.at = "listening", !.cursor = Seen]
    /\ UNCHANGED <<nextId, open, failedCalls, log, wire, got, drops>>

Backfill ==
    /\ stream.at = "listening"
    /\ stream' = [stream EXCEPT !.at = "tailing", !.rows = Fetched(stream.cursor, Ids(log))]
    /\ UNCHANGED <<nextId, open, failedCalls, log, wire, got, drops>>

LiveTail ==
    /\ stream.at = "tailing"
    /\ stream.rows = {} /\ stream.notes # {}
    /\ stream' = [stream EXCEPT !.notes = {}, !.rows = Fetched(stream.cursor, stream.notes)]
    /\ UNCHANGED <<nextId, open, failedCalls, log, wire, got, drops>>

\* A fetched row is sent, and the cursor moves on to it.
SendRow ==
    /\ \E e \in stream.rows :
          /\ \A f \in stream.rows : e <= f
          /\ wire' = Append(wire, e)
          /\ stream' = [stream EXCEPT !.rows = @ \ {e}, !.cursor = IF @ < e THEN e ELSE @]
    /\ UNCHANGED <<nextId, open, failedCalls, log, got, drops>>

-----------------------------------------------------------------------------
(* The client *)

Receive ==
    /\ wire # <<>>
    /\ got' = Append(got, Head(wire))
    /\ wire' = Tail(wire)
    /\ UNCHANGED <<nextId, open, failedCalls, log, stream, drops>>

Drop ==
    /\ stream.at # "closed" /\ drops < MaxDrops
    /\ stream' = Closed
    /\ wire' = <<>>
    /\ drops' = drops + 1
    /\ UNCHANGED <<nextId, open, failedCalls, log, got>>

-----------------------------------------------------------------------------

StreamNext ==
    \/ \E w \in Writers : Emit(w) \/ CommitEvents(w) \/ FailCall(w)
    \/ Connect \/ Backfill \/ LiveTail \/ SendRow
    \/ Receive \/ Drop

StreamSpec == StreamInit /\ [][StreamNext]_streamVars

\* A client that is there reads, and comes back; the stream does what it can.
StreamFairness ==
    /\ WF_streamVars(Connect) /\ WF_streamVars(Receive)
    /\ WF_streamVars(Backfill) /\ WF_streamVars(LiveTail) /\ WF_streamVars(SendRow)

StreamFairSpec == StreamSpec /\ StreamFairness

-----------------------------------------------------------------------------
(* Properties *)

\* The types of the variables; the rows that are fetched are events not yet sent.
StreamTypeOK ==
    /\ nextId \in 1..(MaxId + 1)
    /\ open \in [Writers -> Seq(1..MaxId)] /\ failedCalls \subseteq 1..MaxId
    /\ log \in Seq(1..MaxId) /\ Ids(wire) \cup Ids(got) \subseteq Ids(log)
    /\ stream.at \in {"closed", "listening", "tailing"}
    /\ stream.cursor \in 0..MaxId /\ stream.notes \subseteq Ids(log)
    /\ stream.rows \subseteq {e \in Ids(log) : e > stream.cursor}
    /\ drops \in 0..MaxDrops

\* However often the client is cut off, wherever on the way, it receives no event
\* twice and none before an older one: the ids it receives rise.
IdsRise == \A m, n \in DOMAIN got : m < n => got[m] < got[n]

\* An event the client has passed without receiving it was committed after one
\* of a higher id: nothing but that order is ever lost, not by a limit, not by a
\* connection that breaks between two rows.
LostOnlyToReordering ==
    \A m \in DOMAIN log :
        log[m] < Seen /\ log[m] \notin Ids(got)
        => \E n \in 1..(m - 1) : log[n] > log[m]

\* Both: what the client has received is the committed events in the order of
\* their ids, less those committed out of order.
ReceivedInOrder == IdsRise /\ LostOnlyToReordering

\* The backfill ensures that clients never miss events: one passed is received.
NeverMissed ==
    \A e \in Ids(log) : e < Seen => e \in Ids(got)

\* A client that says "I have seen up to N" is sent everything after: while no
\* transactions overlap and no more than Limit events wait for it, whatever is
\* committed while it connects, reads or is cut off, with or without more to come.
EverythingAfter ==
    \A e \in 1..MaxId : e \in Ids(log) ~> e \in Ids(got)

\* Every call to a provider that fails leaves its event.
FailureIsLogged ==
    [][\A w \in Writers : FailCall(w) => failedCalls' \subseteq Ids(log')]_streamVars
=============================================================================
