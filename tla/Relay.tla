-------------------------------- MODULE Relay --------------------------------
(***************************************************************************)
(* What stands between a request and the worker that answers it: the proxy *)
(* of the OpenAI routes and the calls of an agent's turn.  A request holds *)
(* a lease while it talks to the worker.  What the worker streams arrives  *)
(* in pieces cut anywhere; each relay keeps the unfinished rest and passes *)
(* whole records on - server-sent lines, NDJSON lines or WAV files.        *)
(***************************************************************************)
EXTENDS Naturals, Sequences, FiniteSets

CONSTANTS Requests, MaxRecords, MaxSegments, None

VARIABLES kind,      \* the relay that serves each request
          stage,     \* where it is
          in_flight, \* the leases of the worker
          wire,      \* what the worker has sent and has not arrived
          pending,   \* what has arrived and is not a whole record yet
          sent,      \* the records the worker has begun, by number
          got,       \* the records passed on
          segments,  \* the sentences still to be spoken
          outcome    \* how the request ended

relayVars == <<kind, stage, in_flight, wire, pending, sent, got, segments, outcome>>

\* A proxied answer in one body, a proxied stream, and the agent's streamed
\* completion, transcription and speech.
Kinds == {"body", "proxy", "chat", "asr", "speech"}
Streams == Kinds \ {"body"}

\* A record is its bytes and what ends it: a newline, or the last byte that
\* its RIFF header announces.
Text(i) == [record |-> i, ends |-> FALSE]
Mark(i) == [record |-> i, ends |-> TRUE]

\* The units of records first..last; the last may lack its newline.
Units(first, last, closed) ==
  LET all == [u \in 1..(2 * (last + 1 - first)) |->
                IF u % 2 = 1 THEN Text(first + (u - 1) \div 2)
                ELSE Mark(first + (u - 1) \div 2)]
  IN IF closed THEN all ELSE SubSeq(all, 1, Len(all) - 1)

Whole(p) == Cardinality({u \in DOMAIN p : p[u].ends})
Records(p) == [k \in 1..Whole(p) |-> p[2 * k - 1].record]

\* Mutant: what follows the last whole record of a piece is forgotten.
RestForgotten(p) == IF Whole(p) > 0 THEN <<>> ELSE p

Rest(p) == SubSeq(p, 2 * Whole(p) + 1, Len(p))

Init ==
  /\ kind = [r \in Requests |-> None]
  /\ stage = [r \in Requests |-> "idle"]
  /\ in_flight = 0
  /\ wire = [r \in Requests |-> <<>>]
  /\ pending = [r \in Requests |-> <<>>]
  /\ sent = [r \in Requests |-> 0]
  /\ got = [r \in Requests |-> <<>>]
  /\ segments = [r \in Requests |-> 0]
  /\ outcome = [r \in Requests |-> "none"]

Set(f, r, v) == [f EXCEPT ![r] = v]

\* No key, another origin, not ready, no such workload or model, a body that is
\* no JSON, no place in the queue: nothing has been leased.
Refuse(r) ==
  /\ stage[r] = "idle"
  /\ stage' = Set(stage, r, "ended")
  /\ outcome' = Set(outcome, r, "refused")
  /\ UNCHANGED <<kind, in_flight, wire, pending, sent, got, segments>>

\* acquire_requested
Acquire(r) ==
  /\ stage[r] = "idle"
  /\ \E k \in Kinds :
       /\ kind' = Set(kind, r, k)
       /\ \E n \in IF k = "speech" THEN 1..MaxSegments ELSE {1} :
            segments' = Set(segments, r, n)
  /\ stage' = Set(stage, r, "leased")
  /\ in_flight' = in_flight + 1
  /\ UNCHANGED <<wire, pending, sent, got, outcome>>

\* Mutant: the lease is given back by the callback and by the handler.
ReleaseTwice(r, end) ==
  /\ in_flight' = in_flight - 2
  /\ stage' = Set(stage, r, "ended")
  /\ outcome' = Set(outcome, r, end)
  /\ wire' = Set(wire, r, <<>>)
  /\ segments' = Set(segments, r, 0)

Release(r, end) ==
  /\ in_flight' = in_flight - 1
  /\ stage' = Set(stage, r, "ended")
  /\ outcome' = Set(outcome, r, end)
  /\ wire' = Set(wire, r, <<>>)
  /\ segments' = Set(segments, r, 0)

\* The engine has no such endpoint, cannot stream, or the body asks for what
\* the model, the engine or the workload's limits do not allow.
RefuseLeased(r) ==
  /\ stage[r] = "leased"
  /\ Release(r, "refused")
  /\ UNCHANGED <<kind, pending, sent, got>>

\* The request is posted.  What the worker will send is fixed here: some
\* records, the last of which may lack its newline.
Send(r) ==
  /\ stage[r] = "leased"
  /\ \E last \in sent[r]..MaxRecords, closed \in BOOLEAN :
       /\ closed \/ last > sent[r]
       /\ sent' = Set(sent, r, last)
       /\ wire' = Set(wire, r, Units(sent[r] + 1, last, closed))
  /\ stage' = Set(stage, r, "talking")
  /\ UNCHANGED <<kind, in_flight, pending, got, segments, outcome>>

\* The content receiver: what arrived joins the rest, and every whole record is
\* passed on.
Piece(r) ==
  /\ stage[r] = "talking"
  /\ \E n \in 1..Len(wire[r]) :
       LET all == pending[r] \o SubSeq(wire[r], 1, n)
       IN /\ wire' = Set(wire, r, SubSeq(wire[r], n + 1, Len(wire[r])))
          /\ IF kind[r] \in Streams
             THEN /\ got' = Set(got, r, got[r] \o Records(all))
                  /\ pending' = Set(pending, r, Rest(all))
             ELSE /\ pending' = Set(pending, r, all)
                  /\ UNCHANGED got
  /\ UNCHANGED <<kind, stage, in_flight, sent, segments, outcome>>

\* The client of a stream is gone: the receiver gives up on a record of what
\* arrived, or the callback throws, and the lease is released.
ClientGone(r) ==
  /\ stage[r] = "talking"
  /\ kind[r] \in Streams
  /\ wire[r] # <<>>
  /\ Release(r, "error")
  /\ UNCHANGED <<kind, pending, sent, got>>

\* The worker died, timed out, reported an error or sent no RIFF header.  The
\* proxy still passes on what had arrived.
WorkerFails(r) ==
  /\ stage[r] = "talking"
  /\ Release(r, "error")
  /\ got' = IF kind[r] = "proxy" /\ pending[r] # <<>>
            THEN Set(got, r, got[r] \o <<pending[r][1].record>>) ELSE got
  /\ pending' = Set(pending, r, <<>>)
  /\ UNCHANGED <<kind, sent>>

\* The stream is over.  The proxy passes on an unfinished line and reports an
\* empty stream; chat and asr drop what is unfinished; speech refuses it.
Passed(r) ==
  CASE kind[r] = "body" -> Records(pending[r]) \o [u \in DOMAIN Rest(pending[r]) |->
                                                     Rest(pending[r])[u].record]
    [] kind[r] = "proxy" -> got[r] \o [u \in DOMAIN pending[r] |-> pending[r][u].record]
    [] OTHER -> got[r]

WorkerEnds(r) ==
  /\ stage[r] = "talking"
  /\ wire[r] = <<>>
  /\ got' = Set(got, r, Passed(r))
  /\ LET failed == \/ kind[r] = "proxy" /\ Passed(r) = <<>>
                   \/ kind[r] = "speech" /\ pending[r] # <<>>
                   \/ kind[r] = "speech" /\ segments[r] = 1 /\ Passed(r) = <<>>
     IN IF segments[r] > 1 /\ ~failed
        THEN /\ stage' = Set(stage, r, "leased")    \* the next sentence
             /\ segments' = Set(segments, r, segments[r] - 1)
             /\ UNCHANGED <<in_flight, wire, outcome>>
        ELSE Release(r, IF failed THEN "error" ELSE "answered")
  /\ UNCHANGED <<kind, pending, sent>>

Next == \E r \in Requests :
  Refuse(r) \/ Acquire(r) \/ RefuseLeased(r) \/ Send(r) \/ Piece(r)
    \/ ClientGone(r) \/ WorkerFails(r) \/ WorkerEnds(r)

Spec == Init /\ [][Next]_relayVars

-----------------------------------------------------------------------------
TypeOK ==
  /\ kind \in [Requests -> Kinds \cup {None}]
  /\ stage \in [Requests -> {"idle", "leased", "talking", "ended"}]
  /\ in_flight \in Nat
  /\ sent \in [Requests -> 0..MaxRecords]
  /\ segments \in [Requests -> 0..MaxSegments]
  /\ outcome \in [Requests -> {"none", "refused", "error", "answered"}]

\* However the worker's bytes are cut, a client is passed the records in order,
\* none twice and none left out, and one that is told of success has had all of
\* them; only a line that the worker left without its newline may be missing
\* from an agent's text.
RelayedInOrder ==
  \A r \in Requests :
    /\ \A i \in DOMAIN got[r] : got[r][i] = i
    /\ Len(got[r]) <= sent[r]
    /\ outcome[r] = "answered" =>
         \/ Len(got[r]) = sent[r]
         \/ kind[r] \in {"chat", "asr"} /\ Len(got[r]) + 1 = sent[r] /\ pending[r] # <<>>

\* The worker's leases are the requests between acquire and release, so that
\* it can be neither evicted under a stream nor kept by one that ended.
LeasedWhileTalking ==
  in_flight = Cardinality({r \in Requests : stage[r] \in {"leased", "talking"}})
=============================================================================
