------------------------------- MODULE Publisher -------------------------------
(***************************************************************************)
(* ReliablePublisher of multi_sensor_simulator.py: the simulator's thread  *)
(* submits messages into a bounded buffer, a worker thread sends them to   *)
(* the backend and retries, close drains the buffer and ends the worker.   *)
(* The backend, in the middle of an HTTP request or behind an MQTT broker, *)
(* may handle a request late, twice or never.                              *)
(*                                                                         *)
(* A section of the code that holds the publisher's condition is one step. *)
(***************************************************************************)
EXTENDS Naturals, Sequences, FiniteSets

CONSTANTS
    MaxBuffer,      \* max_buffer
    MaxRetries,     \* max_retries
    MaxSubmissions, \* bound on the messages a simulator submits
    MaxLate,        \* bound on the attempts still under way after the worker
                    \* has turned away from them
    Transports,     \* "http", "mqtt"
    None

ASSUME PublisherAssumption ==
    /\ MaxBuffer \in Nat \ {0} /\ MaxRetries \in Nat /\ MaxSubmissions \in Nat
    /\ MaxLate \in Nat
    /\ Transports \subseteq {"http", "mqtt"}
    /\ None \notin {"ok", "conflict", "invalid", "error"}
    /\ None \notin [no: Nat \ {0}, attempts: 0..MaxRetries]

VARIABLES
    transport, \* how this simulator publishes
    log,       \* log[n] = kind and id of the message of the n-th submission
    queue,     \* _queue
    flight,    \* what the worker is sending
    reply,     \* how that attempt ended
    sent, dropped, \* the submissions counted in stats["sent"], stats["dropped"]
    main,      \* the simulator's thread
    worker,    \* the worker thread
    closing,   \* _closing
    wire,      \* attempts that the backend may still handle
    refusing,  \* the backend answers 409 although it has no such message
    stored     \* the messages the backend has stored

buffers == <<queue, flight, reply>>
books == <<sent, dropped>>
backend == <<wire, refusing, stored>>
vars == <<transport, log, buffers, books, main, worker, closing, backend>>

Kinds == {"raw", "heartbeat"}
Attempts == 0..MaxRetries
Item(n, attempts, due) == [no |-> n, attempts |-> attempts, due |-> due]
Attempt(n, attempts) == [no |-> n, attempts |-> attempts]
Answers == {"ok", "conflict", "invalid", "error"}

-----------------------------------------------------------------------------
(* The simulator's thread.                                                 *)

(* Mutant of Full: the buffer takes one item more.                         *)
Overfull == Len(queue) > MaxBuffer
(* A full buffer loses its front, which is the oldest raw message or the   *)
(* newest heartbeat.                                                       *)
Full == Len(queue) >= MaxBuffer
Room == IF Full THEN Tail(queue) ELSE queue
Lost == IF Full THEN {Head(queue).no} ELSE {}

Enqueued(kind, item) ==
    IF kind = "heartbeat" THEN <<item>> \o Room ELSE Append(Room, item)

Enqueue(kind, id) ==
    /\ Len(log) < MaxSubmissions
    /\ log' = Append(log, [kind |-> kind, id |-> id])
    /\ queue' = Enqueued(kind, Item(Len(log) + 1, 0, TRUE))
    /\ dropped' = dropped \cup Lost

(* The first submission of a message gives the message its id; a raw       *)
(* message may be submitted twice, by the scenario's duplicate fault.      *)
NewId == Len(log) + 1
Repeats == log # <<>> /\ log[Len(log)].kind = "raw" /\ log[Len(log)].id = Len(log)

Submit ==
    /\ main = "running"
    /\ \/ \E kind \in Kinds : Enqueue(kind, NewId)
       \/ Repeats /\ Enqueue("raw", Len(log))
    /\ UNCHANGED <<transport, flight, reply, sent, main, worker, closing, backend>>

(* The motion loop ends: a last heartbeat, then close.                     *)
Stop ==
    /\ main = "running"
    /\ Enqueue("heartbeat", NewId)
    /\ main' = "draining"
    /\ UNCHANGED <<transport, flight, reply, sent, worker, closing, backend>>

(* Mutant of Close: what is still buffered is cleared and not counted.     *)
CloseUncounted ==
    /\ main = "draining"
    /\ main' = "joining" /\ closing' = TRUE
    /\ queue' = <<>>
    /\ UNCHANGED <<transport, log, flight, reply, sent, dropped, worker, backend>>

(* The buffer is empty or the drain timeout is over, whenever that is.     *)
Close ==
    /\ main = "draining"
    /\ main' = "joining" /\ closing' = TRUE
    /\ queue' = <<>>
    /\ dropped' = dropped \cup {queue[k].no : k \in 1..Len(queue)}
    /\ UNCHANGED <<transport, log, flight, reply, sent, worker, backend>>

(* The worker has ended, or did not within two seconds.                    *)
Join ==
    /\ main = "joining"
    /\ main' = "closed"
    /\ UNCHANGED <<transport, log, buffers, books, worker, closing, backend>>

(* The mission's transition is requested and the process ends, and with it *)
(* the worker, which is a daemon.                                          *)
Exit ==
    /\ main = "closed"
    /\ main' = "exited" /\ worker' = "ended"
    /\ UNCHANGED <<transport, log, buffers, books, closing, backend>>

-----------------------------------------------------------------------------
(* The worker.                                                             *)

Due == {k \in 1..Len(queue) : queue[k].due}
FirstDue(k) == k \in Due /\ \A j \in Due : k <= j
Without(k) == SubSeq(queue, 1, k - 1) \o SubSeq(queue, k + 1, Len(queue))

(* The first item whose backoff is over.                                   *)
Take ==
    /\ worker = "running" /\ flight = None
    /\ \E k \in 1..Len(queue) :
         /\ FirstDue(k)
         /\ flight' = Attempt(queue[k].no, queue[k].attempts)
         /\ queue' = Without(k)
    /\ wire' = wire \cup {flight'}
    /\ UNCHANGED <<transport, log, reply, books, main, worker, closing,
                   refusing, stored>>

(* The request of an attempt is lost, or it will be handled later.         *)
TurnAway ==
    \/ wire' = wire \ {flight}
    \/ wire' = wire /\ Cardinality(wire \ {flight}) < MaxLate

(* Without an answer in time the attempt has failed, whatever became of    *)
(* its request.                                                            *)
TimeOut ==
    /\ flight # None /\ reply = None /\ worker = "running"
    /\ reply' = "error" /\ TurnAway
    /\ UNCHANGED <<transport, log, queue, flight, books, main, worker, closing,
                   refusing, stored>>

(* Mutant of Succeeds: a timed out attempt is taken for a delivered one.   *)
SucceedsAnyway(answer) == answer \in {"ok", "conflict", "error"}
(* 409 stands for a message that is already stored.                        *)
Succeeds(answer) == answer \in {"ok", "conflict"}
Exhausted(attempts) == attempts > MaxRetries \/ closing

Done == flight' = None /\ reply' = None

Succeed ==
    /\ Succeeds(reply)
    /\ sent' = sent \cup {flight.no}
    /\ Done
    /\ UNCHANGED <<queue, dropped>>

Reject ==
    /\ ~Succeeds(reply)
    /\ reply = "invalid" \/ Exhausted(flight.attempts + 1)
    /\ dropped' = dropped \cup {flight.no}
    /\ Done
    /\ UNCHANGED <<queue, sent>>

(* Mutant of Retry: the worker still holds what it put back.               *)
RetryTwice ==
    /\ ~Succeeds(reply) /\ reply # "invalid" /\ ~Exhausted(flight.attempts + 1)
    /\ queue' = Append(queue, Item(flight.no, flight.attempts + 1, FALSE))
    /\ reply' = None
    /\ UNCHANGED <<flight, sent, dropped>>

(* Mutant of Retry: the attempt is not counted.                            *)
RetryUncounted ==
    /\ ~Succeeds(reply) /\ reply # "invalid" /\ ~Exhausted(flight.attempts + 1)
    /\ queue' = Append(queue, Item(flight.no, flight.attempts, FALSE))
    /\ Done
    /\ UNCHANGED <<sent, dropped>>

(* The item goes to the end of the buffer, full or not, and backs off.     *)
Retry ==
    /\ ~Succeeds(reply) /\ reply # "invalid" /\ ~Exhausted(flight.attempts + 1)
    /\ queue' = Append(queue, Item(flight.no, flight.attempts + 1, FALSE))
    /\ Done
    /\ UNCHANGED <<sent, dropped>>

Finish ==
    /\ worker = "running" /\ flight # None /\ reply # None
    /\ Succeed \/ Reject \/ Retry
    /\ UNCHANGED <<transport, log, main, worker, closing, backend>>

(* The clock passes next_attempt_at.                                       *)
Ripen ==
    /\ main # "exited"
    /\ \E k \in 1..Len(queue) :
         ~queue[k].due /\ queue' = [queue EXCEPT ![k].due = TRUE]
    /\ UNCHANGED <<transport, log, flight, reply, books, main, worker, closing, backend>>

WorkerEnds ==
    /\ worker = "running" /\ flight = None /\ queue = <<>> /\ closing
    /\ worker' = "ended"
    /\ UNCHANGED <<transport, log, buffers, books, main, closing, backend>>

-----------------------------------------------------------------------------
(* The backend.                                                            *)

(* The answer reaches the worker if it still waits for this attempt.       *)
Answered(attempt, answer) ==
    IF transport = "http" /\ attempt = flight /\ reply = None
      THEN reply' = answer ELSE UNCHANGED reply

(* A handler that fails may have stored the message before.                *)
Outcomes(m) ==
    IF m \in stored THEN {[answer |-> "conflict", stored |-> stored]}
    ELSE IF refusing THEN {[answer |-> "conflict", stored |-> stored]}
    ELSE {[answer |-> "ok", stored |-> stored \cup {m}]}
           \cup [answer: {"invalid", "error"}, stored: {stored, stored \cup {m}}]

Handle(attempt) ==
    /\ wire' = wire \ {attempt}
    /\ \E outcome \in Outcomes(log[attempt.no].id) :
         /\ stored' = outcome.stored
         /\ Answered(attempt, outcome.answer)
    /\ UNCHANGED <<transport, log, queue, flight, books, main, worker, closing, refusing>>

(* An MQTT broker acknowledges before the backend has seen the message.    *)
Acknowledge ==
    /\ transport = "mqtt" /\ flight \in wire /\ reply = None
    /\ reply' = "ok" /\ TurnAway
    /\ UNCHANGED <<transport, log, queue, flight, books, main, worker, closing,
                   refusing, stored>>

(* The mission is ended, or sensor or vehicle turn out to be someone       *)
(* else's: the backend refuses what it has not stored.                     *)
Refuse ==
    /\ ~refusing /\ refusing' = TRUE
    /\ UNCHANGED <<transport, log, buffers, books, main, worker, closing,
                   wire, stored>>

-----------------------------------------------------------------------------
Init ==
    /\ transport \in Transports
    /\ log = <<>> /\ queue = <<>> /\ flight = None /\ reply = None
    /\ sent = {} /\ dropped = {}
    /\ main = "running" /\ worker = "running" /\ closing = FALSE
    /\ wire = {} /\ refusing = FALSE /\ stored = {}

Worker == Take \/ TimeOut \/ Finish \/ WorkerEnds
MainThread == Close \/ Join \/ Exit
Backend == (\E attempt \in wire : Handle(attempt)) \/ Acknowledge \/ Refuse

Next ==
    \/ Submit \/ Stop \/ MainThread \/ Worker \/ Ripen \/ Backend

Spec == Init /\ [][Next]_vars

(* Threads are scheduled, requests time out and the clock runs.  Nothing   *)
(* is assumed of the backend, and the motion loop need not end.            *)
FairSpec ==
    Spec /\ WF_vars(Worker) /\ WF_vars(Ripen) /\ WF_vars(MainThread)

-----------------------------------------------------------------------------
QueueItems == [no: Nat \ {0}, attempts: Attempts, due: BOOLEAN]
Flights == [no: Nat \ {0}, attempts: Attempts]
Held == {queue[k].no : k \in 1..Len(queue)}
         \cup (IF flight = None THEN {} ELSE {flight.no})

(* Items, answers and threads keep their types, and an answer belongs to   *)
(* an attempt.                                                             *)
TypeOK ==
    /\ transport \in Transports /\ log \in Seq([kind: Kinds, id: 1..MaxSubmissions])
    /\ queue \in Seq(QueueItems) /\ flight \in Flights \cup {None}
    /\ reply \in Answers \cup {None} /\ (flight = None => reply = None)
    /\ sent \subseteq 1..Len(log) /\ dropped \subseteq 1..Len(log)
    /\ main \in {"running", "draining", "joining", "closed", "exited"}
    /\ worker \in {"running", "ended"} /\ closing \in BOOLEAN
    /\ wire \subseteq Flights /\ refusing \in BOOLEAN
    /\ stored \subseteq 1..MaxSubmissions

(* Every submission is in exactly one place: sent, dropped, or still held  *)
(* by the publisher, and there once.                                       *)
Accounted ==
    /\ 1..Len(log) = sent \cup dropped \cup Held
    /\ sent \cap dropped = {} /\ Held \cap (sent \cup dropped) = {}
    /\ \A j, k \in 1..Len(queue) : queue[j].no = queue[k].no => j = k
    /\ flight # None => \A k \in 1..Len(queue) : queue[k].no # flight.no

(* However submissions, retries and the worker interleave, the buffer and  *)
(* the worker together hold at most one item more than max_buffer.         *)
Bounded ==
    Len(queue) + (IF flight = None THEN 0 ELSE 1) <= MaxBuffer + 1

(* A message counted as sent over HTTP is stored, unless the backend has   *)
(* begun to refuse messages with the 409 it also has for duplicates: no    *)
(* timeout, retry or late answer makes the publisher believe in a message  *)
(* that is lost.                                                           *)
SentIsHandled ==
    transport = "http" => \A n \in sent : log[n].id \in stored \/ refusing

Ledger == INSTANCE DeliveryLedger WITH submitted <- Len(log)

(* The publisher keeps its promise: see DeliveryLedger.                    *)
ImplementsLedger == Ledger!Spec

(* Even with a backend that never answers, every submission is sent or     *)
(* dropped in the end, unless the process ends under the worker's hands.   *)
EverySubmissionSettles ==
    \A n \in 1..MaxSubmissions :
        n \in 1..Len(log) ~> n \in sent \cup dropped \/ main = "exited"

-----------------------------------------------------------------------------
(* What docs say and the code does not keep: see README.                   *)

(* A 409 means that the message is stored.  It fails: the backend answers  *)
(* 409 to a message of an ended mission, too.                              *)
SentIsStored == transport = "http" => \A n \in sent : log[n].id \in stored

(* When the buffer is full, the oldest item is dropped.  It fails: the     *)
(* front of the buffer may be the newest heartbeat.                        *)
OldestIsDropped ==
    [][\A n \in dropped' \ dropped :
         main = "running" /\ Len(log') > Len(log) =>
           \A k \in 1..Len(queue) : n <= queue[k].no]_vars
=============================================================================
