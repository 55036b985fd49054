----------------------------- MODULE RunProgress -----------------------------
(* How a browser follows a Run: the worker stores its events in the Run's       *)
(* ledger and publishes text deltas through a bounded buffer over Redis         *)
(* (worker/executor.py, runs/realtime_buffer.py), an SSE stream replays the     *)
(* ledger and mixes the deltas in (api/routes/realtime.py), the Run's page      *)
(* reads its rows one table after the other (runs/query_repository.py), and a   *)
(* second stream follows a Skill interpretation (api/interpretation_stream.py). *)
(* Redis may lose anything, connections break, clients come back.               *)
EXTENDS Naturals, Sequences, SequencesExt

CONSTANTS
  MaxSequence,      \* bound on the event numbers of the Run
  PageSize,         \* list_events limit
  BufferCapacity,   \* capacity of the realtime buffer
  MaxConnects       \* bound on connections of the client

ASSUME ProgressAssumption ==
  /\ MaxSequence \in Nat /\ PageSize \in Nat \ {0} /\ BufferCapacity \in Nat \ {0}
  /\ MaxConnects \in Nat

VARIABLES
  runRow,       \* Run.status, its RunResult, whether another attempt holds it
  ledger,       \* RunEvent rows in order: sequence and kind
  engineSeq,    \* last number the engine of the attempt used
  outgoing,     \* the worker's realtime buffer
  channel,      \* what Redis holds for the subscriber
  stream,       \* the server side of the SSE connection
  socket,       \* messages sent and not yet received by the client
  client,       \* what the client has: stored events, everything shown, last id
  page,         \* the client's detail request: what it has read so far
  request,      \* SkillInterpretationRequest.status
  watch         \* the interpretation stream: what it told, what it was told with

progressVars == <<runRow, ledger, engineSeq, outgoing, channel, stream, socket, client, page,
                  request, watch>>
workerSide == <<runRow, ledger, engineSeq, outgoing, channel>>
clientSide == <<stream, socket, client>>
restOfProgress == <<page, request, watch>>

Terminal == {"SUCCEEDED", "FAILED", "CANCELLED"}
NoStream == [state |-> "closed", persisted |-> 0, realtime |-> 0, replay |-> FALSE,
             finished |-> FALSE, subscribed |-> FALSE]
ProgressInit ==
  /\ runRow = [status |-> "RUNNING", result |-> FALSE]
  /\ ledger = <<[seq |-> 1, kind |-> "snapshot", status |-> "RUNNING"]>>
  /\ engineSeq = 1
  /\ outgoing = <<>> /\ channel = <<>>
  /\ stream = NoStream /\ socket = <<>>
  /\ client = [stored |-> <<>>, shown |-> <<>>, last |-> 0, connects |-> 0, ended |-> FALSE]
  /\ page = [step |-> "none", status |-> "none", result |-> FALSE]
  /\ request = "RUNNING"
  /\ watch = [state |-> "open", told |-> "none", truth |-> "none", holds |-> "none", sent |-> <<>>]
-----------------------------------------------------------------------------
(* _next_sequence, taken under the Run's row lock. *)
NextSequence == IF ledger = <<>> THEN 1 ELSE Last(ledger).seq + 1
Event(seq, kind, status) == [seq |-> seq, kind |-> kind, status |-> status]

(* append_agent_event: an event of the engine keeps its number, which may leave *)
(* a gap for the deltas before it; one that somebody else has overtaken is      *)
(* refused and its attempt fails.                                               *)
AppendAgentEvent ==
  /\ runRow.status = "RUNNING" /\ engineSeq < MaxSequence
  /\ engineSeq + 1 >= NextSequence
  /\ engineSeq' = engineSeq + 1
  /\ ledger' = Append(ledger, Event(engineSeq + 1, "agent", "RUNNING"))
  /\ UNCHANGED <<runRow, outgoing, channel, clientSide, restOfProgress>>

(* A text delta takes a number and is never stored; a full buffer drops it. *)
Enqueue(queue, delta) == IF Len(queue) < BufferCapacity THEN Append(queue, delta) ELSE queue
EmitDelta ==
  /\ runRow.status = "RUNNING" /\ engineSeq < MaxSequence
  /\ engineSeq' = engineSeq + 1
  /\ outgoing' = Enqueue(outgoing, engineSeq + 1)
  /\ UNCHANGED <<runRow, ledger, channel, clientSide, restOfProgress>>
(* _deliver and BestEffortPublisher.publish: lost when Redis fails or cools     *)
(* down, or when nobody is subscribed.                                          *)
DeliverDelta ==
  /\ outgoing # <<>>
  /\ outgoing' = Tail(outgoing)
  /\ channel' \in {channel, IF stream.subscribed THEN Append(channel, Head(outgoing)) ELSE channel}
  /\ UNCHANGED <<runRow, ledger, engineSeq, clientSide, restOfProgress>>
(* aclose: what the drain time does not cover is thrown away. *)
CloseBuffer ==
  /\ runRow.status # "RUNNING" /\ outgoing # <<>>
  /\ outgoing' = <<>>
  /\ UNCHANGED <<runRow, ledger, engineSeq, channel, clientSide, restOfProgress>>

(* A user's cancellation request or an approval writes an event of its own; the *)
(* engine's next number is then behind the ledger.                              *)
AppendPlatformEvent ==
  /\ runRow.status = "RUNNING" /\ NextSequence <= MaxSequence
  /\ ledger' = Append(ledger, Event(NextSequence, "platform", "RUNNING"))
  /\ UNCHANGED <<runRow, engineSeq, outgoing, channel, clientSide, restOfProgress>>
(* finalize_execution: result, last event, status and snapshot in one commit. *)
FinalizeRun(status) ==
  /\ runRow.status = "RUNNING"
  /\ runRow' = [status |-> status, result |-> status = "SUCCEEDED"]
  /\ ledger' = ledger \o <<Event(NextSequence, "agent", status),
                           Event(NextSequence + 1, "snapshot", status)>>
  /\ UNCHANGED <<engineSeq, outgoing, channel, clientSide, restOfProgress>>
(* The attempt is lost: a retry starts with the number after the ledger's last. *)
RestartAttempt ==
  /\ runRow.status = "RUNNING" /\ NextSequence <= MaxSequence
  /\ ledger' = Append(ledger, Event(NextSequence, "snapshot", "RUNNING"))
  /\ engineSeq' = NextSequence
  /\ outgoing' = <<>>
  /\ UNCHANGED <<runRow, channel, clientSide, restOfProgress>>
-----------------------------------------------------------------------------
(* run_events: the client names the last event it has, the status of the Run is *)
(* read before the stream begins.                                               *)
Connect ==
  /\ stream.state = "closed" /\ ~client.ended /\ client.connects < MaxConnects
  /\ \E subscribed \in BOOLEAN :                        \* RedisError on subscribe
       stream' = [state |-> "open", persisted |-> client.last, realtime |-> client.last,
                  replay |-> TRUE, finished |-> runRow.status \in Terminal,
                  subscribed |-> subscribed]
  /\ client' = [client EXCEPT !.connects = @ + 1]
  /\ socket' = <<>> /\ channel' = <<>>
  /\ UNCHANGED <<runRow, ledger, engineSeq, outgoing, restOfProgress>>

(* list_events(after, limit): the rows beyond after, ordered by sequence. *)
RowsUpTo(after) ==
  CHOOSE k \in 0..Len(ledger) : \A i \in DOMAIN ledger : ledger[i].seq <= after <=> i <= k
PageEnd(from) == IF from + PageSize < Len(ledger) THEN from + PageSize ELSE Len(ledger)
EventsAfter(after) == SubSeq(ledger, RowsUpTo(after) + 1, PageEnd(RowsUpTo(after)))
Message(event) == [kind |-> "event", seq |-> event.seq]
EndsRun(events) == \E i \in DOMAIN events : events[i].kind = "snapshot" /\ events[i].status \in Terminal
Close == [NoStream EXCEPT !.state = "closed"]
(* One turn of the loop that polls: everything new is sent, a finished Run with *)
(* nothing new ends the stream, more pages are read at once.                    *)
PollLedger ==
  LET events == EventsAfter(stream.persisted)
      finished == stream.finished \/ EndsRun(events)
  IN  /\ stream.state = "open"
      /\ socket' = socket \o [i \in DOMAIN events |-> Message(events[i])]
                          \o IF finished /\ events = <<>> THEN <<[kind |-> "end", seq |-> 0]>> ELSE <<>>
      /\ stream' = IF finished /\ events = <<>> THEN Close
                   ELSE [stream EXCEPT !.persisted = IF events = <<>> THEN @ ELSE Last(events).seq,
                                       !.replay = events # <<>>, !.finished = finished]
      /\ UNCHANGED <<workerSide, client, restOfProgress>>
(* A turn that takes a delta from Redis: late ones are dropped. *)
Newest == IF stream.persisted > stream.realtime THEN stream.persisted ELSE stream.realtime
NewerDelta(seq) == seq > stream.realtime        \* a mistake: only compared with other deltas
DeltaIsNew(seq) == seq > Newest
TakeDelta ==
  /\ stream.state = "open" /\ ~stream.replay /\ stream.subscribed /\ channel # <<>>
  /\ channel' = Tail(channel)
  /\ IF DeltaIsNew(Head(channel))
     THEN /\ socket' = Append(socket, [kind |-> "delta", seq |-> Head(channel)])
          /\ stream' = [stream EXCEPT !.realtime = Head(channel)]
     ELSE UNCHANGED <<socket, stream>>
  /\ UNCHANGED <<runRow, ledger, engineSeq, outgoing, client, restOfProgress>>
LoseRedis ==
  /\ stream.state = "open" /\ stream.subscribed
  /\ stream' = [stream EXCEPT !.subscribed = FALSE]
  /\ channel' = <<>>
  /\ UNCHANGED <<runRow, ledger, engineSeq, outgoing, socket, client, restOfProgress>>

(* _sse_message: only stored events carry an id, the browser resumes from it. *)
EveryMessageHasId(message) == TRUE      \* a mistake: a delta moves the browser's position
CarriesId(message) == message.kind = "event"
Receive ==
  /\ socket # <<>>
  /\ socket' = Tail(socket)
  /\ client' = LET message == Head(socket) IN
       IF message.kind = "end" THEN [client EXCEPT !.ended = TRUE]
       ELSE [client EXCEPT !.shown = Append(@, [kind |-> message.kind, seq |-> message.seq,
                                                conn |-> client.connects]),
                           !.stored = IF message.kind = "event" THEN Append(@, message.seq) ELSE @,
                           !.last = IF CarriesId(message) THEN message.seq ELSE @]
  /\ UNCHANGED <<workerSide, stream, restOfProgress>>
(* The connection breaks with messages still under way. *)
Disconnect ==
  /\ stream.state = "open"
  /\ stream' = Close /\ socket' = <<>> /\ channel' = <<>>
  /\ UNCHANGED <<runRow, ledger, engineSeq, outgoing, client, restOfProgress>>
-----------------------------------------------------------------------------
(* get_detail: READ COMMITTED statements one after the other, the Run first.    *)
ReadRunRow ==
  /\ page.step = "none"
  /\ page' = [page EXCEPT !.step = "row", !.status = runRow.status]
  /\ UNCHANGED <<workerSide, clientSide, request, watch>>
ReadResult ==
  /\ page.step = "row"
  /\ page' = [page EXCEPT !.step = "shown", !.result = runRow.result]
  /\ UNCHANGED <<workerSide, clientSide, request, watch>>
ResultFirst ==                  \* a mistake: the result is read before the Run
  /\ page.step = "none"
  /\ page' = [page EXCEPT !.step = "row", !.result = runRow.result]
  /\ UNCHANGED <<workerSide, clientSide, request, watch>>
RowLast ==
  /\ page.step = "row"
  /\ page' = [page EXCEPT !.step = "shown", !.status = runRow.status]
  /\ UNCHANGED <<workerSide, clientSide, request, watch>>
SwappedReads == ResultFirst \/ RowLast
ReadDetail == ReadRunRow \/ ReadResult
-----------------------------------------------------------------------------
(* The interpretation request ends once; an unknown one may still be finished.  *)
SettleRequest(status) ==
  /\ request \in {"RUNNING", "UNKNOWN"} \ {status}
  /\ request' = status
  /\ UNCHANGED <<workerSide, clientSide, page, watch>>
(* interpretation_events: the row is confirmed before the wait and again after  *)
(* it; what the channel says of an outcome is never passed on.                  *)
RequestTerminal == request \in {"SUCCEEDED", "FAILED", "UNKNOWN"}
Tell(what) == [watch EXCEPT !.state = "ended", !.told = what, !.truth = request,
                            !.sent = Append(@, what)]
ConfirmFirst ==
  /\ watch.state = "open" /\ watch.holds = "none"
  /\ watch' = IF RequestTerminal THEN Tell(request)
              ELSE [watch EXCEPT !.holds = "waiting"]
  /\ UNCHANGED <<workerSide, clientSide, page, request>>
TakeProgress(message) ==
  /\ watch.state = "open" /\ watch.holds = "waiting"
  /\ watch' = [watch EXCEPT !.holds = message]
  /\ UNCHANGED <<workerSide, clientSide, page, request>>
ForwardsAny(message) == TRUE                    \* a mistake: an announced outcome is passed on
ForwardsMessage(message) == message = "delta"
ConfirmAgain ==
  /\ watch.state = "open" /\ watch.holds \in {"delta", "SUCCEEDED", "nothing"}
  /\ watch' = IF RequestTerminal THEN Tell(request)
              ELSE IF watch.holds = "nothing" \/ ~ForwardsMessage(watch.holds)
              THEN [watch EXCEPT !.holds = "none"]
              ELSE [watch EXCEPT !.holds = "none",
                                 !.sent = IF Len(@) < 2 THEN Append(@, watch.holds) ELSE @]
  /\ UNCHANGED <<workerSide, clientSide, page, request>>
(* No Redis, or the stream's time is up: the client is told to look again. *)
WatchFails ==
  /\ watch.state = "open" /\ watch.holds \in {"waiting", "none"}
  /\ watch' = [watch EXCEPT !.state = "ended", !.told = "disconnected"]
  /\ UNCHANGED <<workerSide, clientSide, page, request>>

(* Following a Run, opening its page and watching an interpretation touch       *)
(* different rows: a behaviour does one of them.                                *)
FollowNext ==
  \/ AppendAgentEvent \/ EmitDelta \/ DeliverDelta \/ CloseBuffer \/ AppendPlatformEvent
  \/ RestartAttempt
  \/ \E status \in Terminal : FinalizeRun(status)
  \/ Connect \/ PollLedger \/ TakeDelta \/ LoseRedis \/ Receive \/ Disconnect
PageNext == ReadDetail \/ \E status \in Terminal : FinalizeRun(status)
WatchNext ==
  \/ \E status \in {"SUCCEEDED", "FAILED", "UNKNOWN"} : SettleRequest(status)
  \/ ConfirmFirst \/ ConfirmAgain \/ WatchFails
  \/ \E message \in {"delta", "SUCCEEDED", "nothing"} : TakeProgress(message)
-----------------------------------------------------------------------------
ProgressTypeOK ==
  /\ runRow.status \in Terminal \cup {"RUNNING"} /\ runRow.result \in BOOLEAN
  /\ engineSeq \in 0..MaxSequence /\ Len(outgoing) <= BufferCapacity
  /\ stream.state \in {"open", "closed"} /\ client.connects \in 0..MaxConnects
  /\ page.step \in {"none", "row", "shown"}
  /\ watch.state \in {"open", "ended"}

Sequences(events) == [i \in DOMAIN events |-> events[i].seq]
(* Whatever breaks and however often it comes back, the client has the Run's    *)
(* events in order, none twice and none left out, and a stream that ended has   *)
(* brought all of them: run_events goes on from the id the client received last.*)
ClientFollowsLedger ==
  /\ IsPrefix(client.stored, Sequences(ledger))
  /\ client.ended => Len(client.stored) = Len(ledger)

(* A text delta is shown only while it is news: never after an event that was   *)
(* stored later, nor out of order with a delta of the same connection.          *)
DeltasAreFresh ==
  \A i, j \in DOMAIN client.shown :
    /\ i < j /\ client.shown[j].kind = "delta"
    /\ client.shown[i].kind = "event" \/ client.shown[i].conn = client.shown[j].conn
    => client.shown[i].seq < client.shown[j].seq

(* A Run's page that says SUCCEEDED shows the result: get_detail reads the Run  *)
(* before the rows that are committed with its status.                          *)
DetailHasResult == page.step = "shown" /\ page.status = "SUCCEEDED" => page.result

(* The interpretation stream announces an outcome only when the request's row   *)
(* has it, as its last message, whatever was published before the commit.       *)
OutcomeFromRow ==
  /\ watch.told \in {"SUCCEEDED", "FAILED", "UNKNOWN"} => watch.truth = watch.told
  /\ \A i \in DOMAIN watch.sent : watch.sent[i] # "delta" => i = Len(watch.sent) /\ watch.state = "ended"
ProgressIsTrue == ClientFollowsLedger /\ DeltasAreFresh /\ DetailHasResult /\ OutcomeFromRow
=============================================================================
