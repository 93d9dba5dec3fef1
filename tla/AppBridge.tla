------------------------------- MODULE AppBridge -------------------------------
(***************************************************************************)
(* The bridge between a browser and a private application: a reader thread *)
(* fills a bounded queue with what the application sends, and the request's *)
(* handler empties it into the response.  Both sleep on one condition       *)
(* variable.  Whoever drops the bridge cancels the reader, closes its       *)
(* socket and joins it.  The server's proxy and the client's app_http are   *)
(* the same program.                                                        *)
(***************************************************************************)
EXTENDS Naturals, Sequences, FiniteSets

CONSTANTS Limit,    \* 262144 bytes
          MaxSize,  \* the largest piece that arrives at once
          MaxPieces \* bound: the pieces that the application sends

VARIABLES reader,    \* the thread that talks to the application
          handler,   \* the request's thread
          asleep,    \* those of the two that wait for changed
          arriving,  \* the piece in the reader's hands, 0 when there is none
          chunks,    \* the queue: the sizes of its pieces, with their numbers
          queued,    \* their total as the bridge counts it
          arrived,   \* how many pieces have been queued
          delivered, \* the numbers of the pieces written to the client
          flags,     \* ready, finished and cancelled
          stopped    \* whether client.stop has closed the socket

bridgeVars == <<reader, handler, asleep, arriving, chunks, queued, arrived,
                delivered, flags, stopped>>

Init ==
  /\ reader = "none"
  /\ handler = "idle"
  /\ asleep = {}
  /\ arriving = 0
  /\ chunks = <<>>
  /\ queued = 0
  /\ arrived = 0
  /\ delivered = <<>>
  /\ flags = [ready |-> FALSE, finished |-> FALSE, cancelled |-> FALSE]
  /\ stopped = FALSE

Awake(thread) == thread \notin asleep
notify_all == asleep' = {}

\* changed.wait and wait_for: on with it when the condition holds, else sleep.
Wait(thread, condition, go) ==
  \/ condition /\ go
  \/ /\ ~condition
     /\ asleep' = asleep \cup {thread}
     /\ UNCHANGED <<reader, handler, arriving, chunks, queued, arrived, delivered,
                    flags, stopped>>

-----------------------------------------------------------------------------
(* The reader                                                              *)

Start ==
  /\ handler = "idle"
  /\ handler' = "awaiting"
  /\ reader' = "connecting"
  /\ UNCHANGED <<asleep, arriving, chunks, queued, arrived, delivered, flags, stopped>>

\* The response's headers; a bridge that was cancelled reads no further.
Headers ==
  /\ reader = "connecting"
  /\ ~stopped
  /\ flags' = [flags EXCEPT !.ready = TRUE]
  /\ reader' = IF flags.cancelled THEN "ending" ELSE "reading"
  /\ notify_all
  /\ UNCHANGED <<handler, arriving, chunks, queued, arrived, delivered, stopped>>

\* A piece comes from the socket ...
Arrive ==
  /\ reader = "reading"
  /\ ~stopped
  /\ arrived < MaxPieces
  /\ \E size \in 1..MaxSize : arriving' = size
  /\ reader' = "receiving"
  /\ UNCHANGED <<handler, asleep, chunks, queued, arrived, delivered, flags, stopped>>

\* ... and waits for room in the queue.
HasRoom == queued < Limit
Push ==
  /\ arrived' = arrived + 1
  /\ chunks' = Append(chunks, [number |-> arrived', size |-> arriving])
  /\ queued' = queued + arriving
  /\ arriving' = 0
  /\ reader' = "reading"
  /\ notify_all
  /\ UNCHANGED <<handler, delivered, flags, stopped>>

Receive ==
  /\ reader = "receiving"
  /\ Awake("reader")
  /\ Wait("reader", flags.cancelled \/ HasRoom,
       IF flags.cancelled
       THEN /\ reader' = "ending"
            /\ arriving' = 0
            /\ UNCHANGED <<handler, asleep, chunks, queued, arrived, delivered, flags, stopped>>
       ELSE Push)

\* The application has sent everything, died or not been there; the socket was
\* closed, or a read has timed out.
SendReturns ==
  /\ reader \in {"connecting", "reading"}
  /\ reader' = "ending"
  /\ UNCHANGED <<handler, asleep, arriving, chunks, queued, arrived, delivered, flags, stopped>>

Finish ==
  /\ reader = "ending"
  /\ flags' = [flags EXCEPT !.ready = TRUE, !.finished = TRUE]
  /\ reader' = "ended"
  /\ notify_all
  /\ UNCHANGED <<handler, arriving, chunks, queued, arrived, delivered, stopped>>

-----------------------------------------------------------------------------
(* The handler                                                             *)

\* Status and headers are taken once the bridge is ready; HTML is collected
\* and rewritten, anything else passed on piece by piece.
TakeHeaders ==
  /\ handler = "awaiting"
  /\ Awake("handler")
  /\ Wait("handler", flags.ready,
       /\ handler' \in {"collecting", "streaming"}
       /\ UNCHANGED <<reader, asleep, arriving, chunks, queued, arrived, delivered,
                      flags, stopped>>)

\* Ten seconds have passed; connecting takes no more than five, so a socket is
\* there to be closed.
NotReady ==
  /\ handler = "awaiting"
  /\ ~flags.ready
  /\ handler' = "dropping"
  /\ asleep' = asleep \ {"handler"}
  /\ UNCHANGED <<reader, arriving, chunks, queued, arrived, delivered, flags, stopped>>

Numbers(q) == [i \in DOMAIN q |-> q[i].number]

\* The sizes of a queue's pieces together, counted byte by byte.
Bytes(q) == Cardinality({b \in (DOMAIN q) \X (1..MaxSize) : b[2] <= q[b[1]].size})

\* All that is queued joins the page; it may be too large for one.
Collect ==
  /\ handler = "collecting"
  /\ Awake("handler")
  /\ Wait("handler", flags.finished \/ chunks # <<>>,
       /\ delivered' = delivered \o Numbers(chunks)
       /\ queued' = queued - Bytes(chunks)
       /\ chunks' = <<>>
       /\ IF chunks # <<>> THEN notify_all ELSE UNCHANGED asleep
       /\ \/ handler' = IF flags.finished THEN "answered" ELSE "collecting"
          \/ handler' = "dropping"
       /\ UNCHANGED <<reader, arriving, arrived, flags, stopped>>)

\* Mutant: the bytes that are handed out stay counted.
ProvideUncounted ==
  /\ handler = "streaming"
  /\ Awake("handler")
  /\ Wait("handler", flags.finished \/ chunks # <<>>,
       IF chunks = <<>>
       THEN /\ handler' = "answered"
            /\ UNCHANGED <<reader, asleep, arriving, chunks, queued, arrived, delivered,
                           flags, stopped>>
       ELSE /\ chunks' = Tail(chunks)
            /\ delivered' = Append(delivered, Head(chunks).number)
            /\ handler' \in {"streaming", "dropping"}
            /\ notify_all
            /\ UNCHANGED <<reader, arriving, queued, arrived, flags, stopped>>)

\* One piece; the write fails when the client has gone.
Provide ==
  /\ handler = "streaming"
  /\ Awake("handler")
  /\ Wait("handler", flags.finished \/ chunks # <<>>,
       IF chunks = <<>>
       THEN /\ handler' = "answered"
            /\ UNCHANGED <<reader, asleep, arriving, chunks, queued, arrived, delivered,
                           flags, stopped>>
       ELSE /\ chunks' = Tail(chunks)
            /\ queued' = queued - Head(chunks).size
            /\ delivered' = Append(delivered, Head(chunks).number)
            /\ handler' \in {"streaming", "dropping"}
            /\ notify_all
            /\ UNCHANGED <<reader, arriving, arrived, flags, stopped>>)

\* The destructor.
Cancel ==
  /\ handler \in {"dropping", "answered"}
  /\ flags' = [flags EXCEPT !.cancelled = TRUE]
  /\ stopped' = TRUE
  /\ notify_all
  /\ handler' = IF handler = "answered" THEN "answered_joining" ELSE "joining"
  /\ UNCHANGED <<reader, arriving, chunks, queued, arrived, delivered>>

Join ==
  /\ handler \in {"joining", "answered_joining"}
  /\ reader = "ended"
  /\ handler' = IF handler = "answered_joining" THEN "closed" ELSE "dropped"
  /\ UNCHANGED <<reader, asleep, arriving, chunks, queued, arrived, delivered, flags,
                 stopped>>

Reader == Headers \/ Arrive \/ Receive \/ SendReturns \/ Finish
Handler == TakeHeaders \/ NotReady \/ Collect \/ Provide \/ Cancel \/ Join
Next == Start \/ Reader \/ Handler

Spec == Init /\ [][Next]_bridgeVars

\* Threads go on, a read ends with data, with the end or after 3600 seconds,
\* and an application does not send for ever.
Fairness ==
  WF_bridgeVars(Receive) /\ WF_bridgeVars(SendReturns) /\ WF_bridgeVars(Finish)
    /\ WF_bridgeVars(Handler)

-----------------------------------------------------------------------------
PieceType == [number : Nat, size : 0..MaxSize]

TypeOK ==
  /\ reader \in {"none", "connecting", "reading", "receiving", "ending", "ended"}
  /\ handler \in {"idle", "awaiting", "collecting", "streaming", "answered", "dropping",
                  "joining", "answered_joining", "closed", "dropped"}
  /\ asleep \subseteq {"reader", "handler"}
  /\ arriving \in 0..MaxSize /\ arrived \in 0..MaxPieces /\ queued \in Nat
  /\ flags \in [ready : BOOLEAN, finished : BOOLEAN, cancelled : BOOLEAN]
  /\ stopped \in BOOLEAN
  /\ chunks \in Seq(PieceType) /\ delivered \in Seq(Nat)

\* Pieces reach the client in the order in which they arrived, none left out,
\* and an answer that was finished holds all that arrived - while the bridge
\* never holds more than its limit and one piece.
BridgeFaithful ==
  /\ delivered \o Numbers(chunks) = [i \in 1..arrived |-> i]
  /\ handler \in {"answered", "answered_joining", "closed"} => chunks = <<>> /\ flags.finished
  /\ queued = Bytes(chunks)
  /\ queued < Limit + MaxSize

\* Whoever waits for whom: a client that leaves while the queue is full, an
\* application that is silent or dies, an answer that is late - the handler
\* joins the reader in the end, and no thread is left behind.
BridgeEnds == (handler = "awaiting") ~> (handler \in {"closed", "dropped"})
=============================================================================
