----------------------------- MODULE MessageQueue -----------------------------
(* internal/message_queue.go with the push of internal/api_request.go.         *)
(*                                                                             *)
(* Reporters append messages from their own goroutines.  addMessage appends a  *)
(* metric as a map (content), pushMessage appends label strings                *)
(* (contentString) and flushes before it returns.  A ticker goroutine expires  *)
(* and flushes the queue.  Every section under queueLock is one action; a pc   *)
(* per goroutine lets the others run between two sections, in particular while *)
(* push sleeps for a second.                                                   *)
EXTENDS Integers, FiniteSets, Sequences, SequencesExt

CONSTANTS
    Adders,         \* goroutines that call addMessage
    Pushers,        \* goroutines that call pushMessage
    Ticker,         \* the goroutine of MessageQueue.start
    TTL,            \* 10*60 seconds in the source, in units of the model's clock
    LabelStrings,   \* strings in one pushed message: 4, Metric.toStringArray
    HistoLabels,    \* labels of the histogram the host program registers: 4
    UploadMayFail,  \* TRUE: push may return an error, as its signature allows
    MaxMessages,    \* bound: messages of each goroutine
    MaxClock        \* bound: the clock's last value

Producers == Adders \cup Pushers
Flushers  == Pushers \cup {Ticker}
Threads   == Producers \cup {Ticker}

ASSUME QueueAssumption ==
    /\ Adders \cap Pushers = {}
    /\ Ticker \notin Producers
    /\ IsFiniteSet(Pushers)
    /\ TTL \in Nat /\ LabelStrings \in Nat \ {0} /\ HistoLabels \in Nat
    /\ MaxMessages \in [Producers -> Nat] /\ MaxClock \in Nat
    /\ UploadMayFail \in BOOLEAN

VARIABLES
    queue,           \* MessageQueue.queue
    backoffSeconds,  \* MessageQueue.backoffSeconds
    histo,           \* TRUE iff APIRequest.histo is set
    pc,              \* where each goroutine is
    pending,         \* the Message a producer built and has not appended yet
    outgoing,        \* the local of flush
    local,           \* now of expire, or the backoff that flush is about to store
    clock,           \* time.Now().Unix()
    sent,            \* number of messages each producer has built
    observed,        \* history: messages the histogram has observed
    discarded,       \* history: messages that left the queue unobserved
    overlapped,      \* history: two appends or two flushes have overlapped
    crowded          \* history: two flushes have raised the backoff at once

vars == <<queue, backoffSeconds, histo, pc, pending, outgoing, local, clock,
          sent, observed, discarded, overlapped, crowded>>

Message == [by : Producers, n : Nat \ {0}, addedAt : 0..MaxClock]
Backoffs == {0, 10, 20, 40}
-------------------------------------------------------------------------------
Init ==
    /\ queue = <<>>
    /\ backoffSeconds = 0
    /\ histo \in BOOLEAN
    /\ pc = [t \in Threads |-> "idle"]
    /\ pending = [t \in Producers |-> <<>>]
    /\ outgoing = [t \in Flushers |-> <<>>]
    /\ local = [t \in Flushers |-> 0]
    /\ clock = 0
    /\ sent = [t \in Producers |-> 0]
    /\ observed = {}
    /\ discarded = {}
    /\ overlapped = FALSE
    /\ crowded = FALSE

Tick ==
    /\ clock < MaxClock
    /\ clock' = clock + 1
    /\ UNCHANGED <<queue, backoffSeconds, histo, pc, pending, outgoing, local,
                   sent, observed, discarded, overlapped, crowded>>

Goto(t, label) == pc' = [pc EXCEPT ![t] = label]

(* addMessage and pushMessage build the message, addedAt included, before they *)
(* take the lock.                                                              *)
Build(t) ==
    /\ pc[t] = "idle" /\ sent[t] < MaxMessages[t]
    /\ sent' = [sent EXCEPT ![t] = @ + 1]
    /\ pending' = [pending EXCEPT ![t] = [by |-> t, n |-> sent[t] + 1, addedAt |-> clock]]
    /\ Goto(t, "append")
    /\ overlapped' = (overlapped \/ \E u \in Producers \ {t} : pc[u] = "append")
    /\ UNCHANGED <<queue, backoffSeconds, histo, outgoing, local, clock, observed,
                   discarded, crowded>>

(* The append under queueLock; pushMessage goes on to its deferred flush. *)
AppendMessage(t) ==
    /\ pc[t] = "append"
    /\ queue' = Append(queue, pending[t])
    /\ pending' = [pending EXCEPT ![t] = <<>>]
    /\ Goto(t, IF t \in Pushers THEN "flush" ELSE "idle")
    /\ UNCHANGED <<backoffSeconds, histo, outgoing, local, clock, sent,
                   observed, discarded, overlapped, crowded>>

(* Mutant: a single message is left for the next tick. *)
TickerWaitsForTwo ==
    /\ pc[Ticker] = "idle"
    /\ Goto(Ticker, IF Len(queue) > 1 THEN "expire" ELSE "idle")
    /\ UNCHANGED <<queue, backoffSeconds, histo, pending, outgoing, local, clock,
                   sent, observed, discarded, overlapped, crowded>>

(* The ticker fires and reads the queue's length under the lock. *)
TickerFires ==
    /\ pc[Ticker] = "idle"
    /\ Goto(Ticker, IF Len(queue) > 0 THEN "expire" ELSE "idle")
    /\ UNCHANGED <<queue, backoffSeconds, histo, pending, outgoing, local, clock,
                   sent, observed, discarded, overlapped, crowded>>

(* Mutant: the ten minutes are subtracted at once, and again by the scan. *)
ExpireReadsCutoff ==
    /\ pc[Ticker] = "expire"
    /\ local' = [local EXCEPT ![Ticker] = clock - TTL]
    /\ Goto(Ticker, "scan")
    /\ UNCHANGED <<queue, backoffSeconds, histo, pending, outgoing, clock, sent,
                   observed, discarded, overlapped, crowded>>

(* expire reads the clock before it takes the lock. *)
ExpireReadsClock ==
    /\ pc[Ticker] = "expire"
    /\ local' = [local EXCEPT ![Ticker] = clock]
    /\ Goto(Ticker, "scan")
    /\ UNCHANGED <<queue, backoffSeconds, histo, pending, outgoing, clock, sent,
                   observed, discarded, overlapped, crowded>>

Stale(m, now) == m.addedAt < now - TTL

(* Mutant: the boundary is off by one. *)
LastNotFresh(q, now) == SelectLastInSeq(q, LAMBDA m : m.addedAt <= now - TTL)

(* The index of the last stale message, 0 when there is none: the scan runs *)
(* from the end of the queue and stops at the first stale message it meets. *)
LastStale(q, now) == SelectLastInSeq(q, LAMBDA m : Stale(m, now))

Expire ==
    /\ pc[Ticker] = "scan"
    /\ LET cut == LastStale(queue, local[Ticker])
       IN  /\ queue' = SubSeq(queue, cut + 1, Len(queue))
           /\ discarded' = discarded \cup ToSet(SubSeq(queue, 1, cut))
    /\ local' = [local EXCEPT ![Ticker] = 0]
    /\ Goto(Ticker, "flush")
    /\ UNCHANGED <<backoffSeconds, histo, pending, outgoing, clock, sent,
                   observed, overlapped, crowded>>

(* Mutant: flush does not reset the queue. *)
CopyOutgoing(t) ==
    /\ pc[t] = "flush"
    /\ outgoing' = [outgoing EXCEPT ![t] = queue]
    /\ Goto(t, "push")
    /\ UNCHANGED <<queue, backoffSeconds, histo, pending, local, clock, sent,
                   observed, discarded, overlapped, crowded>>

(* flush takes the whole queue under the lock. *)
TakeOutgoing(t) ==
    /\ pc[t] = "flush"
    /\ outgoing' = [outgoing EXCEPT ![t] = queue]
    /\ queue' = <<>>
    /\ Goto(t, "push")
    /\ overlapped' = (overlapped \/
           (queue # <<>> /\ \E u \in Flushers \ {t} : outgoing[u] # <<>>))
    /\ UNCHANGED <<backoffSeconds, histo, pending, local, clock, sent, observed,
                   discarded, crowded>>

(* The payload is the concatenation of the contentStrings: addMessage sets none. *)
Pushed(batch) == {m \in ToSet(batch) : m.by \in Pushers}
(* Mutant: added metrics contribute strings as well. *)
PayloadOfAll(batch) == LabelStrings * Len(batch)

PayloadLen(batch) ==
    LabelStrings * Cardinality({i \in DOMAIN batch : batch[i].by \in Pushers})

(* flush hands the batch over for good. *)
HandedOver(t, obs) ==
    /\ outgoing' = [outgoing EXCEPT ![t] = <<>>]
    /\ observed' = observed \cup obs
    /\ discarded' = discarded \cup (ToSet(outgoing[t]) \ obs)

(* push returns nil: at once for an empty payload, after an Observe when the    *)
(* payload has as many strings as the histogram has labels, and after logging  *)
(* GetMetricWithLabelValues' error otherwise.  flush resets the backoff.       *)
PushReturns(t) ==
    /\ pc[t] = "push"
    /\ PayloadLen(outgoing[t]) < 1 \/ histo
    /\ HandedOver(t, IF PayloadLen(outgoing[t]) \in {HistoLabels} \ {0}
                        THEN Pushed(outgoing[t]) ELSE {})
    /\ backoffSeconds' = 0
    /\ Goto(t, "idle")
    /\ UNCHANGED <<queue, histo, pending, local, clock, sent, overlapped, crowded>>

(* A nil HistogramVec is dereferenced.  The ticker's goroutine recovers outside *)
(* its loop and ends; a report's goroutine is recovered by the scheduler and    *)
(* the next report is a goroutine of its own.                                   *)
PushPanics(t) ==
    /\ pc[t] = "push"
    /\ ~histo /\ PayloadLen(outgoing[t]) >= 1
    /\ HandedOver(t, {})
    /\ Goto(t, IF t = Ticker THEN "dead" ELSE "idle")
    /\ UNCHANGED <<queue, backoffSeconds, histo, pending, local, clock, sent, overlapped, crowded>>

(* push returns an error, which only the interface of push allows. *)
PushFails(t) ==
    /\ UploadMayFail
    /\ pc[t] = "push"
    /\ Goto(t, "restore")
    /\ UNCHANGED <<queue, backoffSeconds, histo, pending, outgoing, local, clock,
                   sent, observed, discarded, overlapped, crowded>>

(* Mutants: the batch is appended; what was appended meanwhile is overwritten. *)
RestoredBehind(batch, q) == q \o batch
RestoredOver(batch, q) == batch

(* The failed batch goes back in front of what was appended meanwhile. *)
Restored(batch, q) == batch \o q

Restore(t) ==
    /\ pc[t] = "restore"
    /\ queue' = Restored(outgoing[t], queue)
    /\ outgoing' = [outgoing EXCEPT ![t] = <<>>]
    /\ Goto(t, "backoff")
    /\ UNCHANGED <<backoffSeconds, histo, pending, local, clock, sent, observed,
                   discarded, overlapped, crowded>>

(* The backoff is read three times and written without the lock, so that what   *)
(* another flush stores in between is what the next access finds.  It is 10 if   *)
(* the first read finds none.                                                    *)
InRaise(t) == pc[t] \in {"check", "double", "raise"}
ReadBackoff(t) ==
    /\ pc[t] = "backoff"
    /\ IF backoffSeconds = 0
       THEN local' = [local EXCEPT ![t] = 10] /\ Goto(t, "raise")
       ELSE local' = local /\ Goto(t, "check")
    /\ crowded' = (crowded \/ \E u \in Flushers \ {t} : InRaise(u))
    /\ UNCHANGED <<queue, backoffSeconds, histo, pending, outgoing, clock, sent,
                   observed, discarded, overlapped>>

(* Mutant: the backoff is compared before it is doubled. *)
CheckOnlyBackoff(t) ==
    /\ pc[t] = "check"
    /\ Goto(t, IF backoffSeconds < 60 THEN "double" ELSE "idle")
    /\ UNCHANGED <<queue, backoffSeconds, histo, pending, outgoing, local, clock, sent,
                   observed, discarded, overlapped, crowded>>

(* The second read, for the comparison with a minute. *)
CheckBackoff(t) ==
    /\ pc[t] = "check"
    /\ Goto(t, IF backoffSeconds * 2 < 60 THEN "double" ELSE "idle")
    /\ UNCHANGED <<queue, backoffSeconds, histo, pending, outgoing, local, clock, sent,
                   observed, discarded, overlapped, crowded>>

(* The third read: what is doubled is what the backoff is by now. *)
DoubleBackoff(t) ==
    /\ pc[t] = "double"
    /\ local' = [local EXCEPT ![t] = backoffSeconds * 2]
    /\ Goto(t, "raise")
    /\ UNCHANGED <<queue, backoffSeconds, histo, pending, outgoing, clock, sent,
                   observed, discarded, overlapped, crowded>>

RaiseBackoff(t) ==
    /\ pc[t] = "raise"
    /\ backoffSeconds' = local[t]
    /\ local' = [local EXCEPT ![t] = 0]
    /\ Goto(t, "idle")
    /\ UNCHANGED <<queue, histo, pending, outgoing, clock, sent, observed,
                   discarded, overlapped, crowded>>

Produce(t) == Build(t) \/ AppendMessage(t)
Expiry == TickerFires \/ ExpireReadsClock \/ Expire
Flush(t) ==
    \/ TakeOutgoing(t) \/ PushReturns(t) \/ PushPanics(t) \/ PushFails(t)
    \/ Restore(t) \/ ReadBackoff(t) \/ CheckBackoff(t) \/ DoubleBackoff(t) \/ RaiseBackoff(t)

(* Only the bounds stop the model, and only when the ticker's goroutine is dead. *)
BoundReached ==
    /\ pc[Ticker] = "dead" /\ clock = MaxClock
    /\ \A t \in Producers : pc[t] = "idle" /\ sent[t] = MaxMessages[t]
    /\ UNCHANGED vars

Next ==
    \/ Tick
    \/ \E t \in Producers : Produce(t)
    \/ Expiry
    \/ \E t \in Flushers : Flush(t)
    \/ BoundReached

(* A goroutine that has started an operation is scheduled until it is done, and *)
(* the ticker fires for ever; nothing forces a reporter to produce.             *)
Fairness ==
    /\ \A t \in Producers : WF_vars(AppendMessage(t))
    /\ WF_vars(Expiry)
    /\ \A t \in Flushers : WF_vars(Flush(t))

Spec == Init /\ [][Next]_vars
FairSpec == Spec /\ Fairness
-------------------------------------------------------------------------------
PCs == {"idle", "append", "expire", "scan", "flush", "push", "restore",
        "backoff", "check", "double", "raise", "dead"}

(* Types of every variable of message_queue.go's model. *)
TypeOK ==
    /\ queue \in Seq(Message)
    /\ backoffSeconds \in Nat
    /\ histo \in BOOLEAN
    /\ pc \in [Threads -> PCs]
    /\ pending \in [Producers -> Message \cup {<<>>}]
    /\ outgoing \in [Flushers -> Seq(Message)]
    /\ local \in [Flushers -> Nat]
    /\ clock \in 0..MaxClock
    /\ sent \in [Producers -> Nat]
    /\ \A t \in Producers : sent[t] <= MaxMessages[t]
    /\ observed \subseteq Message
    /\ discarded \subseteq Message
    /\ overlapped \in BOOLEAN
    /\ crowded \in BOOLEAN

Queued == ToSet(queue)
Held == Queued \cup UNION {ToSet(outgoing[t]) : t \in Flushers}

(* A message that was appended is at one place: once in the queue, or once in   *)
(* the batch of one flush, or gone.  Flushes that overlap, fail and restore     *)
(* their batches neither duplicate a message nor bring one back.                *)
EachMessageOnce ==
    /\ IsInjective(queue)
    /\ \A t \in Flushers :
          /\ IsInjective(outgoing[t])
          /\ ToSet(outgoing[t]) \cap Queued = {}
          /\ \A u \in Flushers \ {t} : ToSet(outgoing[t]) \cap ToSet(outgoing[u]) = {}
    /\ Held \cap (observed \cup discarded) = {}
    /\ observed \cap discarded = {}

(* The queue is ordered by time of addition, across failed uploads that put     *)
(* their batch back, as long as no two appends and no two flushes overlapped.   *)
OrderKept ==
    ~overlapped =>
        \A i, j \in 1..Len(queue) : i < j =>
            /\ queue[i].addedAt <= queue[j].addedAt
            /\ queue[i].by = queue[j].by => queue[i].n < queue[j].n

(* expire leaves no message older than ten minutes, in whatever order the queue *)
(* is, keeps the rest of it in its order, and drops no younger message, unless   *)
(* appends or flushes overlapped: it drops everything in front of a stale one.  *)
ExpiresTheStale ==
    [][Expire =>
          /\ \A m \in ToSet(queue') : ~Stale(m, local[Ticker])
          /\ IsSuffix(queue', queue)
          /\ ~overlapped => \A m \in discarded' \ discarded : Stale(m, local[Ticker])]_vars

(* With a single goroutine that pushes (the allocation reporter, serialised by   *)
(* profilerLock) no flush ever carries two pushed messages, so that the payload  *)
(* always has as many strings as the histogram has labels.                       *)
OnePushPerBatch ==
    \A t \in Flushers : PayloadLen(outgoing[t]) \in {0, HistoLabels}

(* The comment "increase backoff up to 1 minute" (message_queue.go:112) holds as *)
(* long as no two failing flushes raise the backoff at once: it is then 0, 10, 20  *)
(* or 40.  Two that do may each double what the other has stored, and reach 80     *)
(* and more.                                                                       *)
BackoffBounded == ~crowded => backoffSeconds \in Backoffs

InQueue(p, n) == \E m \in Queued : m.by = p /\ m.n = n

(* Every message in the queue leaves it: the ticker survives every flush and fires *)
(* again.  Only without a histogram a payload may end its goroutine, and what is   *)
(* in the queue then waits for the next push.                                      *)
QueueDrains ==
    \A p \in Producers : \A n \in 1..MaxMessages[p] :
        InQueue(p, n) ~> (~InQueue(p, n) \/ (~histo /\ pc[Ticker] = "dead"))

(* With a histogram, what pushMessage was given is observed in the end, whether   *)
(* its own flush or the ticker's carries it, unless expire takes it: because it    *)
(* is more than ten minutes old by then (a goroutine that is late with its append, *)
(* or with its flush), or because it stands in front of a message that is, which   *)
(* takes two appends in the other order than their time stamps.                    *)
Gone(p, n) == \E m \in observed \cup discarded : m.by = p /\ m.n = n
Expired(m) ==
    /\ Expire
    /\ \E s \in discarded' \ discarded : Stale(s, local[Ticker]) /\ (s = m \/ overlapped)
PushIsObserved ==
    /\ histo => \A p \in Pushers : \A n \in 1..MaxMessages[p] : sent[p] >= n ~> Gone(p, n)
    /\ [][histo => \A m \in discarded' \ discarded : m.by \in Pushers => Expired(m)]_vars

(* message_queue_test.go:97 (TestFlushFail) wants two messages that could not be *)
(* uploaded to be in the queue after flush: whatever flush hands over was        *)
(* observed, or it goes back to the queue.                                       *)
UploadedOrKept ==
    [][\A t \in Flushers : pc[t] = "push" /\ pc'[t] = "idle" =>
           ToSet(outgoing[t]) \subseteq observed']_vars

AllMessages ==
    UNION {[by : {p}, n : 1..MaxMessages[p], addedAt : 0..MaxClock] : p \in Producers}

Contract == INSTANCE QueueContract WITH
    Messages <- AllMessages, held <- Held, delivered <- observed

(* The queue implements QueueContract: every step of every goroutine accepts a   *)
(* new message, releases held ones for good, or changes nothing.                 *)
ImplementsContract == Contract!Spec
=============================================================================
