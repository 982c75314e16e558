---------------------------- MODULE RealtimeInbox ----------------------------
(***************************************************************************)
(* The browser's side of one turn: the inbox that puts broadcast events in *)
(* order, the coordinator that asks the server for the whole text when the *)
(* inbox cannot, and the chat window they feed.  Events are applied live   *)
(* only in sequence; whatever does not fit is buffered until an answer of  *)
(* the server, which is authoritative, has been applied.                   *)
(***************************************************************************)
EXTENDS StreamStore, FiniteSets, SequencesExt

CONSTANTS
    MaxBuffered,    \* AGENTIC_CHAT_CLIENT_BUFFER_MAX_EVENTS
    FetchMayFail    \* a request of the browser may fail on its way

ASSUME InboxAssumption == MaxBuffered \in Nat \ {0} /\ FetchMayFail \in BOOLEAN

VARIABLES
    client          \* the browser's state of the turn

Cursor == [gen : 0..MaxGenerations, after : 0..MaxLog]
Receipt == [asked : 0..MaxGenerations, gen : 0..MaxGenerations,
            seq : 0..MaxLog, text : Texts, ended : BOOLEAN]

(***************************************************************************)
(* A request that is not there is the empty set.  backingOff and           *)
(* throttlingQueuedRequest are what the armed timer was armed for.         *)
(***************************************************************************)
Client == [
    at        : {"away", "tracking", "released"},
    gen       : 0..MaxGenerations,      \* executionGeneration
    applied   : 0..MaxLog,              \* lastAppliedSequence
    buffering : BOOLEAN,
    requested : BOOLEAN,                \* reconciliationRequested
    buffer    : SUBSET [gen : 1..MaxGenerations, seq : 1..MaxLog],
    overflow  : BOOLEAN,                \* bufferOverflowed
    queued    : SUBSET Cursor,          \* queuedRequest
    flight    : SUBSET Cursor,          \* inFlightRequest
    reply     : SUBSET Receipt,         \* its answer, on the way back
    timer     : {"none", "watchdog", "retry", "throttle"},
    shown     : Seq(1..MaxText)]        \* the chunks the window shows

ClientTypeOK ==
    /\ client \in Client
    /\ Cardinality(client.buffer) <= MaxBuffered
    /\ Cardinality(client.queued) <= 1 /\ Cardinality(client.flight) <= 1

Unknown == [at |-> "away", gen |-> 0, applied |-> 0, buffering |-> TRUE,
            requested |-> FALSE, buffer |-> {}, overflow |-> FALSE,
            queued |-> {}, flight |-> {}, reply |-> {}, timer |-> "none",
            shown |-> <<>>]

ClientInit == client = Unknown

-----------------------------------------------------------------------------
(* The coordinator *)

Tracking == client.at = "tracking"

CursorOf(c) == [gen |-> c.gen, after |-> c.applied]

(* #drain, up to the fetch *)
StartFetch(c) == [c EXCEPT !.flight = c.queued, !.queued = {}]

(* #queue *)
Queue(c) ==
    LET q == [c EXCEPT !.queued = {CursorOf(c)}]
    IN  CASE c.timer \in {"retry", "throttle"}                  -> q
          [] c.timer \in {"none", "watchdog"} /\ c.flight # {}  ->
                [q EXCEPT !.timer = "none"]
          [] c.timer \in {"none", "watchdog"} /\ c.flight = {}  ->
                StartFetch([q EXCEPT !.timer = "none"])

(* #requestReconciliation *)
Ask(c) ==
    IF c.requested THEN [c EXCEPT !.buffering = TRUE]
    ELSE Queue([c EXCEPT !.buffering = TRUE, !.requested = TRUE])

-----------------------------------------------------------------------------
(* The inbox *)

(* Mutant of Buffered: without a limit. *)
Buffered_always(c, e) == [c EXCEPT !.buffer = @ \cup {e}]

(* #bufferEvent *)
Buffered(c, e) ==
    CASE e \in c.buffer -> c
      [] e \notin c.buffer /\ Cardinality(c.buffer) >= MaxBuffered ->
            Ask([c EXCEPT !.overflow = TRUE])
      [] e \notin c.buffer /\ Cardinality(c.buffer) < MaxBuffered ->
            [c EXCEPT !.buffer = @ \cup {e}]

(* The chunks the event with this sequence number appends to the window. *)
Chunks(seq) ==
    LET e == log[seq]
    IN  IF e.kind = "text" THEN [i \in 1..(e.to - e.id) |-> e.id + i] ELSE <<>>

Whole(text) == [i \in 1..text |-> i]

(* WorkerTurnAdoption lets go of a turn whose end the window has shown. *)
Release(c) == [Unknown EXCEPT !.at = "released", !.shown = c.shown]

(* The n events after the last applied one, in order. *)
ApplyLive(c, n) ==
    LET run == [i \in 1..n |-> c.applied + i]
        now == [c EXCEPT !.applied = @ + n,
                         !.shown = @ \o FlattenSeq([i \in 1..n |-> Chunks(run[i])])]
    IN  IF \E i \in 1..n : log[run[i]].kind = "done" THEN Release(now) ELSE now

Stale(c, e) == e.gen < c.gen \/ (e.gen = c.gen /\ e.seq <= c.applied)

InOrder(c, e) == e.gen = c.gen /\ ~c.buffering /\ e.seq = c.applied + 1

(* receiveStreamEvent *)
ReceiveEvent(e) ==
    /\ Tracking
    /\ ~Stale(client, e)
    /\ client' = IF InOrder(client, e)
                 THEN ApplyLive(client, 1)
                 ELSE Ask(Buffered(client, e))

(* receiveReconcileHint *)
ReceiveHint(h) ==
    /\ Tracking
    /\ ~Stale(client, h)
    /\ client' = Ask(client)

(* notifyChannelUnavailable, notifyChannelReconnected *)
ChannelNotice ==
    /\ Tracking
    /\ client' = Ask(client)

(* How many buffered events follow the last applied one without a gap. *)
Following(c) ==
    CHOOSE n \in 0..MaxBuffered :
        \A k \in 1..(n + 1) : [gen |-> c.gen, seq |-> c.applied + k] \in c.buffer <=> k <= n

(* The rest of #drainBufferedEvents, and of applyReconciliation, once the   *)
(* run that fits was applied: a gap and an overflow ask again.              *)
Settled(c, overflow) ==
    LET rest == {e \in c.buffer : ~Stale(c, e)}
        kept == [c EXCEPT !.buffer = rest]
    IN  IF rest = {} /\ ~overflow THEN [kept EXCEPT !.buffering = FALSE] ELSE Ask(kept)

(* Mutants of Taken: the text moves and not the cursor; only the cursor. *)
Taken_textOnly(c, r) ==
    [c EXCEPT !.reply = {}, !.requested = FALSE, !.gen = r.gen,
              !.overflow = FALSE, !.shown = Whole(r.text)]

Taken_cursorOnly(c, r) ==
    [c EXCEPT !.reply = {}, !.requested = FALSE, !.gen = r.gen, !.applied = r.seq,
              !.overflow = FALSE]

(* applyReconciliation of the inbox: the answer replaces what was shown. *)
Taken(c, r) ==
    [c EXCEPT !.reply = {}, !.requested = FALSE, !.gen = r.gen, !.applied = r.seq,
              !.overflow = FALSE, !.shown = Whole(r.text)]

-----------------------------------------------------------------------------
(* Requests of the coordinator *)

(* The page adopts the turn, from its admission or from a list of turns. *)
Adopt(gen) ==
    /\ client.at = "away"
    /\ gen = 0 \/ (gen = turn.gen /\ ~Ended)
    /\ client' = Ask([Unknown EXCEPT !.at = "tracking", !.gen = gen])

ServerAnswers ==
    /\ Tracking /\ client.reply = {}
    /\ Reconcilable
    /\ \E f \in client.flight : client' = [client EXCEPT !.reply = {Snapshot(f.gen)}]

(* Mutant of TryAgain: the retry is not armed. *)
TryAgain_later(c) ==
    [c EXCEPT !.queued = c.flight, !.flight = {}, !.reply = {},
              !.buffering = TRUE, !.requested = FALSE]

(* A request that failed is queued again as it was, whatever was queued in  *)
(* the meantime, and releaseReconciliationRequest lets the inbox ask anew.  *)
TryAgain(c) ==
    [c EXCEPT !.queued = c.flight, !.flight = {}, !.reply = {},
              !.buffering = TRUE, !.requested = FALSE, !.timer = "retry"]

(* Mutant of Answered: no watchdog. *)
Answered_trusting(c) ==
    [c EXCEPT !.flight = {}, !.timer = IF c.queued = {} THEN "none" ELSE "throttle"]

(* The end of #runRequest, and what #drain does after it *)
Answered(c) ==
    [c EXCEPT !.flight = {}, !.timer = IF c.queued = {} THEN "watchdog" ELSE "throttle"]

(* parseReconciledReceipt takes only the answer to a request for the        *)
(* generation that is shown.                                                *)
ReceiveReceipt ==
    /\ Tracking
    /\ \E r \in client.reply :
         IF r.asked # client.gen
         THEN client' = TryAgain(client)
         ELSE \E taken \in {Taken(client, r)} :
              \E now \in {ApplyLive(taken, Following(taken))} :
                client' = CASE r.ended -> Release(taken)
                            [] ~r.ended /\ now.at = "released" -> now
                            [] ~r.ended /\ now.at = "tracking" ->
                                 Answered(Settled(now, client.overflow))

FetchFails ==
    /\ Tracking /\ client.flight # {}
    /\ client' = TryAgain(client)

TimerFires ==
    /\ Tracking /\ client.timer # "none"
    /\ LET c == [client EXCEPT !.timer = "none"]
       IN  client' = IF c.queued # {} THEN StartFetch(c) ELSE Ask(c)
=============================================================================
