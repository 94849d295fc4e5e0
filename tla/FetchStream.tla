------------------------------ MODULE FetchStream ------------------------------
(***************************************************************************)
(* One fetch() on Android, from the call to the last piece of its body:    *)
(* the promise and the body stream (fetch.ts, ReadableStream.ts) on the    *)
(* JavaScript thread, the OkHttp thread that sends the request and waits   *)
(* for the answer, and the thread FetchModule starts to read a streamed    *)
(* body.  A request without a body streams its answer; one with a body     *)
(* uploads it piece by piece and gets its answer whole.  The native side   *)
(* keeps what it reads until the body stream asks for it (streamStart) and *)
(* posts it to JavaScript from then on.                                    *)
(***************************************************************************)
EXTENDS Naturals, Sequences

CONSTANTS
  MaxChunks,   \* bound on the pieces of an answer
  MaxUploads,  \* bound on the pieces of an upload
  Faults       \* the failures that happen

FaultKind == {"refuse", "network", "timeout", "upload"}

ASSUME FetchAssumption ==
  MaxChunks \in Nat /\ MaxUploads \in Nat /\ Faults \subseteq FaultKind

VARIABLES
  mode,        \* "stream": a GET; "upload": a request with a body
  phase,       \* how far fetch() is
  verdict,     \* what Promise.race was won by
  abortedAt,   \* when the signal was aborted
  listener,    \* the response listener is there
  inbox,       \* events posted to the JavaScript thread
  jsPc,        \* where JavaScript is inside streamStart
  readable,    \* the body stream
  errored,
  queue,
  reads,       \* reads that wait
  started,     \* streamStart was sent
  subscribed,  \* the body stream listens to zynth.fetch.stream
  seen,        \* history: the pieces the body stream took
  pump,        \* pumpUploadStreamToNative
  uploads,     \* pieces of the upload that the pump handed over
  door,        \* the channel: absent, open, complete, or removed
  channel,     \* its queue
  net,         \* where the OkHttp thread is
  calls,       \* the call is in calls
  cancelled,   \* who cancelled the call
  cut,         \* history: the answer broke off inside onResponse
  reader,      \* the thread that reads a streamed body
  hand,        \* what it is about to emit
  torn,        \* history: pieces it put into a list already taken away
  sent,        \* pieces it read
  startedStreams, pendingChunks, pendingEnd

promiseVars == <<phase, verdict, abortedAt, listener>>
bodyVars    == <<readable, errored, queue, reads, started, subscribed, seen>>
uploadVars  == <<door, channel>>
callVars    == <<calls, cancelled>>
readerVars  == <<reader, hand, sent, torn>>
mapVars     == <<startedStreams, pendingChunks, pendingEnd>>
vars == <<mode, promiseVars, inbox, jsPc, bodyVars, pump, uploads, uploadVars,
          net, callVars, cut, readerVars, mapVars>>

Piece == [type : {"chunk"}, n : 1 .. MaxChunks]
Event == Piece \cup [type : {"end", "error", "response", "failure"}]

TypeOK ==
  /\ mode \in {"stream", "upload"}
  /\ phase \in {"preparing", "asked", "ok", "failed"}
  /\ verdict \in {"none", "response", "failure", "aborted", "upload"}
  /\ abortedAt \in {"never", "early", "asked", "late"}
  /\ inbox \in Seq(Event) /\ jsPc \in {"free", "flushing", "ending"}
  /\ readable \in {"none", "open", "ended", "cancelled"}
  /\ {queue, seen, pendingChunks} \subseteq Seq(Piece) /\ reads \in 0 .. 1
  /\ {listener, errored, started, subscribed, calls, cut, startedStreams}
       \subseteq BOOLEAN
  /\ pump \in {"off", "on", "done"} /\ uploads \in 0 .. MaxUploads
  /\ door \in {"none", "open", "complete", "gone"}
  /\ channel \in Seq({"chunk", "complete", "abort"})
  /\ net \in {"none", "sending", "waiting", "announcing", "body", "over"}
  /\ cancelled \in {"no", "app", "timeout"}
  /\ reader \in {"none", "reading", "kept", "adding", "orphan", "direct", "done"}
  /\ hand \in Seq(Event) /\ sent \in 0 .. MaxChunks /\ torn \subseteq 1 .. MaxChunks
  /\ pendingEnd \in {"none", "end", "error"}

Init ==
  /\ mode \in {"stream", "upload"}
  /\ phase = "preparing" /\ verdict = "none" /\ abortedAt = "never"
  /\ listener = FALSE /\ inbox = <<>> /\ jsPc = "free"
  /\ readable = "none" /\ errored = FALSE /\ queue = <<>> /\ reads = 0
  /\ started = FALSE /\ subscribed = FALSE /\ seen = <<>>
  /\ pump = "off" /\ uploads = 0 /\ door = "none" /\ channel = <<>>
  /\ net = "none" /\ calls = FALSE /\ cancelled = "no" /\ cut = FALSE
  /\ reader = "none" /\ hand = <<>> /\ sent = 0 /\ torn = {}
  /\ startedStreams = FALSE /\ pendingChunks = <<>> /\ pendingEnd = "none"

-----------------------------------------------------------------------------
(* Native calls, run on the JavaScript thread. *)

\* Mutant: the channel leaves the map and its queue is told nothing.
ForgetChannel ==
  /\ door' = (IF door = "none" THEN "none" ELSE "gone")
  /\ channel' = channel

\* UploadChannel.abort on a channel taken out of the map: a closed one is
\* left as it is.
AbortChannel ==
  /\ door' = (IF door = "none" THEN "none" ELSE "gone")
  /\ channel' = (IF door = "open" THEN Append(channel, "abort") ELSE channel)

\* cancel, and uploadAbort: only a call still in the map is cancelled.
NativeCancel ==
  /\ AbortChannel
  /\ calls' = FALSE
  /\ cancelled' = (IF calls THEN "app" ELSE cancelled)

-----------------------------------------------------------------------------
(* fetch() and the signal. *)

\* The request goes out even when the signal was aborted meanwhile.
Send ==
  /\ phase = "preparing" /\ phase' = "asked" /\ listener' = TRUE
  /\ calls' = TRUE
  /\ IF mode = "upload" THEN pump' = "on" /\ door' = "open" /\ net' = "sending"
                        ELSE net' = "waiting" /\ UNCHANGED <<pump, door>>
  /\ UNCHANGED <<mode, verdict, abortedAt, inbox, jsPc, bodyVars, uploads,
                 channel, cancelled, cut, readerVars, mapVars>>

\* The native side refuses the request at once (a bad URL, a body it cannot
\* read): fetch throws, and its response listener stays.
Refused ==
  /\ "refuse" \in Faults
  /\ phase = "preparing" /\ phase' = "failed" /\ listener' = TRUE
  /\ UNCHANGED <<mode, verdict, abortedAt, inbox, jsPc, bodyVars, pump, uploads,
                 uploadVars, net, callVars, cut, readerVars, mapVars>>

\* controller.abort(): onAbort is registered until the race is over, and has
\* a promise to reject from the moment the request is sent.
Abort ==
  /\ jsPc = "free" /\ abortedAt = "never"
  /\ abortedAt' = CASE phase = "preparing" -> "early"
                    [] phase = "asked"     -> "asked"
                    [] OTHER               -> "late"
  /\ IF phase \in {"preparing", "asked"}
       THEN NativeCancel
       ELSE UNCHANGED <<uploadVars, callVars>>
  /\ verdict' = (IF phase = "asked" /\ verdict = "none" THEN "aborted" ELSE verdict)
  /\ UNCHANGED <<mode, phase, listener, inbox, jsPc, bodyVars, pump, uploads, net,
                 cut, readerVars, mapVars>>

\* fetch continues after the race, as a microtask: before any other event.
Continue ==
  /\ phase = "asked" /\ verdict # "none"
  /\ IF verdict = "response" /\ abortedAt = "never"
       THEN /\ phase' = "ok"
            /\ IF mode = "stream"
                 THEN readable' = "open" /\ subscribed' = TRUE
                 ELSE UNCHANGED <<readable, subscribed>>
       ELSE phase' = "failed" /\ UNCHANGED <<readable, subscribed>>
  /\ UNCHANGED <<mode, verdict, abortedAt, listener, inbox, jsPc, errored, queue,
                 reads, started, seen, pump, uploads, uploadVars, net, callVars,
                 cut, readerVars, mapVars>>

-----------------------------------------------------------------------------
(* The body stream. *)

Taking == readable = "open" /\ ~errored

Enqueue(chunks) ==
  LET given == IF reads < Len(chunks) THEN reads ELSE Len(chunks)
  IN  IF Taking
        THEN /\ seen' = seen \o chunks /\ reads' = reads - given
             /\ queue' = queue \o SubSeq(chunks, given + 1, Len(chunks))
        ELSE UNCHANGED <<seen, reads, queue>>

\* Mutant: a read that waits when the body ends goes on waiting.
CloseQuietly ==
  IF Taking THEN readable' = "ended" /\ UNCHANGED <<reads, errored>>
            ELSE UNCHANGED <<readable, reads, errored>>

Close ==
  IF Taking THEN readable' = "ended" /\ reads' = 0 /\ errored' = errored
            ELSE UNCHANGED <<readable, reads, errored>>

\* A stream that was closed can still become errored.
Fail == errored' = TRUE /\ reads' = 0 /\ readable' = readable

Finish(type) ==
  /\ subscribed' = FALSE
  /\ IF type = "end" THEN Close ELSE Fail
  /\ UNCHANGED <<queue, seen>>

OnStream(e) ==
  IF ~subscribed THEN UNCHANGED <<readable, errored, queue, reads, subscribed, seen>>
  ELSE IF e.type = "chunk" THEN Enqueue(<<e>>) /\ UNCHANGED <<readable, errored, subscribed>>
  ELSE Finish(e.type)

\* An event posted by a native thread; microtasks come first.
OnEvent ==
  /\ jsPc = "free" /\ inbox # <<>> /\ inbox' = Tail(inbox)
  /\ ~(phase = "asked" /\ verdict # "none")
  /\ LET e == Head(inbox)
     IN  IF e.type \in {"response", "failure"}
           THEN /\ listener' = FALSE
                /\ verdict' = (IF listener /\ phase = "asked" THEN e.type ELSE verdict)
                /\ UNCHANGED bodyVars
           ELSE OnStream(e) /\ UNCHANGED <<listener, verdict, started>>
  /\ UNCHANGED <<mode, phase, abortedAt, jsPc, pump, uploads, uploadVars, net,
                 callVars, cut, readerVars, mapVars>>

\* read(): the consumer waits for each read before the next.  The first one
\* that has to wait asks the native side to start.
Read ==
  /\ jsPc = "free" /\ readable # "none" /\ reads = 0 /\ ~errored
  /\ IF queue # <<>>
       THEN queue' = Tail(queue) /\ UNCHANGED <<reads, started, startedStreams, jsPc>>
       ELSE /\ readable = "open"
            /\ reads' = 1 /\ queue' = queue /\ started' = TRUE
            /\ IF started THEN UNCHANGED <<startedStreams, jsPc>>
                          ELSE startedStreams' = TRUE /\ jsPc' = "flushing"
  /\ UNCHANGED <<mode, promiseVars, inbox, readable, errored, subscribed, seen, pump,
                 uploads, uploadVars, net, callVars, cut, readerVars,
                 pendingChunks, pendingEnd>>

\* Mutant: what was kept is posted like any other event.
FlushPosted ==
  /\ jsPc = "flushing" /\ jsPc' = "ending"
  /\ inbox' = inbox \o pendingChunks /\ pendingChunks' = <<>>
  /\ UNCHANGED <<mode, promiseVars, bodyVars, pump, uploads, uploadVars, net,
                 callVars, cut, readerVars, startedStreams, pendingEnd>>

\* The list of kept pieces leaves its map: the reader may still hold it.
TakeList ==
  /\ jsPc = "flushing" /\ jsPc' = "ending" /\ pendingChunks' = <<>>
  /\ UNCHANGED <<mode, promiseVars, inbox, readable, errored, started, subscribed,
                 pump, uploads, uploadVars, net, callVars, cut, sent,
                 startedStreams, pendingEnd>>

Emitted(chunks) == IF subscribed THEN Enqueue(chunks) ELSE UNCHANGED <<seen, reads, queue>>

\* Mutant: only the first piece that was kept is emitted.
FlushFirst ==
  /\ TakeList /\ UNCHANGED <<torn, hand>>
  /\ Emitted(IF pendingChunks = <<>> THEN <<>> ELSE <<Head(pendingChunks)>>)
  /\ reader' = (IF reader = "adding" THEN "orphan" ELSE reader)

\* flushPending emits from the JavaScript thread, so not through the inbox.
FlushChunks ==
  /\ TakeList /\ UNCHANGED <<torn, hand>>
  /\ Emitted(pendingChunks)
  /\ reader' = (IF reader = "adding" THEN "orphan" ELSE reader)

\* The reader adds its piece while flushPending walks the list: the walk
\* throws after the piece it is at, and streamStart fails.
FlushThrows ==
  /\ TakeList /\ reader = "adding" /\ reader' = "reading" /\ hand' = <<>>
  /\ \E k \in DOMAIN pendingChunks :
       /\ Emitted(SubSeq(pendingChunks, 1, k))
       /\ torn' = torn \cup {pendingChunks[i].n : i \in k + 1 .. Len(pendingChunks)}
                       \cup {hand[1].n}

FlushEnd ==
  /\ jsPc = "ending" /\ jsPc' = "free" /\ pendingEnd' = "none"
  /\ IF pendingEnd # "none" /\ subscribed
       THEN Finish(pendingEnd)
       ELSE UNCHANGED <<readable, errored, queue, reads, subscribed, seen>>
  /\ UNCHANGED <<mode, promiseVars, inbox, started, pump, uploads, uploadVars, net,
                 callVars, cut, readerVars, startedStreams, pendingChunks>>

\* reader.cancel(): the listener stays until the native side says it is over.
CancelBody ==
  /\ jsPc = "free" /\ readable = "open" /\ readable' = "cancelled"
  /\ queue' = <<>> /\ reads' = 0 /\ NativeCancel
  /\ UNCHANGED <<mode, promiseVars, inbox, jsPc, errored, started, subscribed, seen,
                 pump, uploads, net, cut, readerVars, mapVars>>

-----------------------------------------------------------------------------
(* The upload: the pump on the JavaScript thread, the channel between. *)

\* A chunk, or the end of the upload, for a channel that is still open.
PumpChunk ==
  /\ jsPc = "free" /\ pump = "on" /\ door = "open"
  /\ \/ /\ uploads < MaxUploads /\ uploads' = uploads + 1
        /\ channel' = Append(channel, "chunk") /\ UNCHANGED <<pump, door>>
     \/ /\ channel' = Append(channel, "complete") /\ door' = "complete"
        /\ pump' = "done" /\ UNCHANGED uploads
  /\ UNCHANGED <<mode, promiseVars, inbox, jsPc, bodyVars, net, callVars, cut,
                 readerVars, mapVars>>

\* The channel is gone, or the stream that is uploaded fails: the upload is
\* aborted, and so is the fetch.
PumpFails ==
  /\ jsPc = "free" /\ pump = "on" /\ pump' = "done"
  /\ door = "gone" \/ "upload" \in Faults
  /\ NativeCancel
  /\ verdict' = (IF phase = "asked" /\ verdict = "none" THEN "upload" ELSE verdict)
  /\ UNCHANGED <<mode, phase, abortedAt, listener, inbox, jsPc, bodyVars, uploads,
                 net, cut, readerVars, mapVars>>

-----------------------------------------------------------------------------
(* The OkHttp thread. *)

Answer(type) == inbox' = Append(inbox, [type |-> type])

\* Mutant: nobody is told of a failure while the request is being sent.
OnFailureSilent ==
  /\ net' = "over" /\ calls' = FALSE /\ AbortChannel
  /\ UNCHANGED <<cancelled, inbox>>

OnFailure ==
  /\ net' = "over" /\ calls' = FALSE /\ AbortChannel /\ Answer("failure")
  /\ UNCHANGED cancelled

\* writeTo blocks in queue.take, whatever happens to the call meanwhile.
\* The write of a chunk fails when the call is cancelled, unless the sink only
\* buffers it.
TakeUpload ==
  /\ net = "sending" /\ channel # <<>>
  /\ LET e == Head(channel)
     IN  \/ /\ e = "abort" \/ (e = "chunk" /\ cancelled # "no")
            /\ net' = "over" /\ calls' = FALSE /\ Answer("failure")
            /\ door' = "gone"
            /\ channel' = Tail(channel) \o (IF door = "open" THEN <<"abort">> ELSE <<>>)
         \/ /\ e # "abort" /\ channel' = Tail(channel)
            /\ net' = (IF e = "complete" THEN "waiting" ELSE "sending")
            /\ UNCHANGED <<calls, inbox, door>>
  /\ UNCHANGED <<mode, promiseVars, jsPc, bodyVars, pump, uploads, cancelled, cut,
                 readerVars, mapVars>>

CallFails ==
  /\ net = "waiting" /\ (cancelled # "no" \/ "network" \in Faults)
  /\ OnFailure
  /\ UNCHANGED <<mode, promiseVars, jsPc, bodyVars, pump, uploads, cut, readerVars,
                 mapVars>>

Busy == net \in {"sending", "waiting", "body"} \/ reader \notin {"none", "done"}

\* callTimeout: OkHttp cancels the call itself.
TimeOut ==
  /\ "timeout" \in Faults /\ cancelled = "no" /\ Busy
  /\ cancelled' = "timeout"
  /\ UNCHANGED <<mode, promiseVars, inbox, jsPc, bodyVars, pump, uploads, uploadVars,
                 net, calls, cut, readerVars, mapVars>>

\* onResponse: a streamed answer gets its thread before it is announced.
Headers ==
  /\ net = "waiting"
  /\ IF mode = "stream" THEN net' = "announcing" /\ reader' = "reading"
                        ELSE net' = "body" /\ reader' = reader
  /\ UNCHANGED <<mode, promiseVars, inbox, jsPc, bodyVars, pump, uploads, uploadVars,
                 callVars, cut, hand, sent, torn, mapVars>>

\* Mutant: the call counts as over once its answer is announced.
AnnounceAndForget ==
  /\ net = "announcing" /\ net' = "over" /\ Answer("response")
  /\ calls' = FALSE
  /\ UNCHANGED <<mode, promiseVars, jsPc, bodyVars, pump, uploads, uploadVars,
                 cancelled, cut, readerVars, mapVars>>

Announce ==
  /\ net = "announcing" /\ net' = "over" /\ Answer("response")
  /\ UNCHANGED <<mode, promiseVars, jsPc, bodyVars, pump, uploads, uploadVars,
                 callVars, cut, readerVars, mapVars>>

WholeBody ==
  /\ net = "body" /\ net' = "over" /\ cancelled = "no"
  /\ Answer("response") /\ calls' = FALSE /\ door' = "gone"
  /\ UNCHANGED <<mode, promiseVars, jsPc, bodyVars, pump, uploads, channel, cancelled,
                 cut, readerVars, mapVars>>

\* The body breaks off inside onResponse: OkHttp calls nobody back twice, so
\* the exception is only logged and the call stays in the map.
BodyCut ==
  /\ net = "body" /\ net' = "over" /\ cut' = TRUE
  /\ cancelled # "no" \/ "network" \in Faults
  /\ UNCHANGED <<mode, promiseVars, inbox, jsPc, bodyVars, pump, uploads, uploadVars,
                 callVars, readerVars, mapVars>>

-----------------------------------------------------------------------------
(* The thread of a streamed answer: emitStream looks whether the stream has *)
(* started, and only then emits or keeps what was read.                     *)

Look(e) ==
  /\ hand' = <<e>>
  /\ reader' = (IF startedStreams THEN "direct" ELSE "kept")

ReadNetwork ==
  /\ reader = "reading"
  /\ \/ /\ cancelled = "no" /\ sent < MaxChunks /\ sent' = sent + 1
        /\ Look([type |-> "chunk", n |-> sent + 1])
     \/ cancelled = "no" /\ sent' = sent /\ Look([type |-> "end"])
     \/ /\ cancelled # "no" \/ "network" \in Faults
        /\ sent' = sent /\ Look([type |-> "error"])
  /\ UNCHANGED <<mode, promiseVars, inbox, jsPc, bodyVars, pump, uploads, uploadVars,
                 net, callVars, cut, torn, mapVars>>

\* A piece is kept in two steps: getOrPut finds the list, add puts the piece
\* into it, wherever the list is by then.
FindList ==
  /\ reader = "kept" /\ hand[1].type = "chunk" /\ reader' = "adding"
  /\ UNCHANGED <<mode, promiseVars, inbox, jsPc, bodyVars, pump, uploads, uploadVars,
                 net, callVars, cut, hand, sent, torn, mapVars>>

AddToList ==
  /\ reader \in {"adding", "orphan"} /\ reader' = "reading" /\ hand' = <<>>
  /\ IF reader = "adding"
       THEN pendingChunks' = Append(pendingChunks, hand[1]) /\ UNCHANGED torn
       ELSE torn' = torn \cup {hand[1].n} /\ UNCHANGED pendingChunks
  /\ UNCHANGED <<mode, promiseVars, inbox, jsPc, bodyVars, pump, uploads, uploadVars,
                 net, callVars, cut, sent, startedStreams, pendingEnd>>

\* Anything else is emitted, or kept, in one step.  After the last the call
\* is over.
EmitStream ==
  LET e == hand[1]
  IN  /\ reader = "direct" \/ (reader = "kept" /\ e.type # "chunk")
      /\ hand' = <<>>
      /\ IF reader = "direct" THEN inbox' = Append(inbox, e) /\ UNCHANGED pendingEnd
                              ELSE inbox' = inbox /\ pendingEnd' = e.type
      /\ IF e.type = "chunk"
           THEN reader' = "reading" /\ UNCHANGED <<calls, door>>
           ELSE reader' = "done" /\ calls' = FALSE
                /\ door' = (IF door = "none" THEN "none" ELSE "gone")
      /\ UNCHANGED <<mode, promiseVars, jsPc, bodyVars, pump, uploads, channel, net,
                     cancelled, cut, sent, torn, startedStreams, pendingChunks>>

-----------------------------------------------------------------------------
JavaScript == Send \/ Refused \/ Abort \/ Continue \/ OnEvent \/ Read \/ CancelBody
              \/ FlushChunks \/ FlushThrows \/ FlushEnd \/ PumpChunk \/ PumpFails
OkHttp == TakeUpload \/ CallFails \/ TimeOut \/ Headers \/ Announce \/ WholeBody
          \/ BodyCut
Reader == ReadNetwork \/ FindList \/ AddToList \/ EmitStream
Next == JavaScript \/ OkHttp \/ Reader

Spec == Init /\ [][Next]_vars

\* The threads run; a cancelled call fails.  Nothing makes the network
\* answer, the consumer read, or the application go on with its upload.
FairSpec ==
  /\ Spec
  /\ WF_vars(Send) /\ WF_vars(Continue) /\ WF_vars(OnEvent)
  /\ WF_vars(FlushChunks) /\ WF_vars(FlushEnd)
  /\ WF_vars(PumpFails /\ door = "gone")
  /\ WF_vars(TakeUpload) /\ WF_vars(Announce)
  /\ WF_vars(FindList \/ AddToList \/ EmitStream)
  /\ WF_vars(CallFails /\ cancelled # "no")
  /\ WF_vars(BodyCut /\ cancelled # "no")
  /\ WF_vars(ReadNetwork /\ cancelled # "no")

-----------------------------------------------------------------------------
\* What was kept too late: after streamStart looked for it.
Stranded == started /\ jsPc = "free" /\ (pendingChunks # <<>> \/ pendingEnd # "none")

\* The pieces a consumer sees come in the order they were read, none twice,
\* whatever the two threads do during streamStart.
InOrder == \A i, j \in DOMAIN seen : i < j => seen[i].n < seen[j].n

\* A body that ends as complete is complete, except for pieces that the
\* native side still keeps or tore: that emitStream and flushPending meet, a
\* piece being looked up before streamStart and kept after it, is the one way
\* to a truncated body.
NothingMissing ==
  readable = "ended" =>
    \A n \in 1 .. sent :
      \/ n \in torn
      \/ \E i \in DOMAIN (seen \o pendingChunks) : (seen \o pendingChunks)[i].n = n

\* An abort that comes once the request is out reaches the native call, as
\* long as anything of it is left to stop.
AbortStops == (abortedAt = "asked" /\ Busy) => cancelled = "app"

\* A call the application cancels ends, even one blocked on the next piece
\* of its upload.
CancelEnds == (cancelled = "app") ~> (net = "over" /\ reader \in {"none", "done"})

\* Once the OkHttp thread is through, fetch settles, unless the answer was
\* cut off inside onResponse.
AnswerSettles == (net = "over") ~> (phase \in {"ok", "failed"} \/ cut)

\* When everything has been read, no read waits, unless it waits for what
\* was stranded.
ReadsEnd == (reader = "done") ~> (reads = 0 \/ Stranded)

\* A native timeout settles the fetch.
TimeoutAnswers == (cancelled = "timeout") ~> (phase # "asked")
=============================================================================
