--------------------------- MODULE FetchStreamProofs ---------------------------
(***************************************************************************)
(* Proofs about FetchStream, for any number of pieces and any failures: an *)
(* abort of a request that is out reaches the native call, the pieces of a *)
(* body are seen in the order in which they were read, and none is lost    *)
(* but by the race that the model names.                                   *)
(***************************************************************************)
EXTENDS FetchStream, SequenceTheorems, TLAPS

-----------------------------------------------------------------------------
(* Types. *)

\* What the reader thread emits.
StreamEvent == Piece \cup [type : {"end", "error"}]

Flags == /\ listener \in BOOLEAN /\ errored \in BOOLEAN /\ started \in BOOLEAN
         /\ subscribed \in BOOLEAN /\ calls \in BOOLEAN /\ cut \in BOOLEAN
         /\ startedStreams \in BOOLEAN

JsTypes ==
  /\ mode \in {"stream", "upload"}
  /\ phase \in {"preparing", "asked", "ok", "failed"}
  /\ verdict \in {"none", "response", "failure", "aborted", "upload"}
  /\ abortedAt \in {"never", "early", "asked", "late"}
  /\ jsPc \in {"free", "flushing", "ending"}
  /\ readable \in {"none", "open", "ended", "cancelled"} /\ reads \in 0 .. 1
  /\ pump \in {"off", "on", "done"} /\ uploads \in 0 .. MaxUploads

NetTypes ==
  /\ door \in {"none", "open", "complete", "gone"}
  /\ channel \in Seq({"chunk", "complete", "abort"})
  /\ net \in {"none", "sending", "waiting", "announcing", "body", "over"}
  /\ cancelled \in {"no", "app", "timeout"}

\* The sequences of pieces and events, and the reader, which holds an event
\* from the moment it looked whether the stream has started.
ReaderTypes ==
  /\ inbox \in Seq(Event) /\ queue \in Seq(Piece) /\ seen \in Seq(Piece)
  /\ pendingChunks \in Seq(Piece) /\ pendingEnd \in {"none", "end", "error"}
  /\ reader \in {"none", "reading", "kept", "adding", "orphan", "direct", "done"}
  /\ sent \in 0 .. MaxChunks /\ torn \subseteq 1 .. MaxChunks
  /\ hand \in Seq(Event)
  /\ reader \in {"kept", "adding", "orphan", "direct"} =>
       \E e \in StreamEvent : hand = <<e>>
  /\ reader \in {"adding", "orphan"} => hand[1].type = "chunk"

Typing == Flags /\ JsTypes /\ NetTypes /\ ReaderTypes

LEMMA TypingIsTypeOK == Typing => TypeOK
  BY DEF Typing, Flags, JsTypes, NetTypes, ReaderTypes, TypeOK

LEMMA EventTypes ==
  /\ StreamEvent \subseteq Event /\ Piece \subseteq Event
  /\ \A e \in Event : /\ e.type \in {"chunk", "end", "error", "response", "failure"}
                      /\ e.type = "chunk" => e \in Piece
  /\ \A e \in StreamEvent : e.type \in {"chunk", "end", "error"}
  /\ \A e \in Piece : e.type = "chunk" /\ e.n \in 1 .. MaxChunks
  /\ \A k \in {"end", "error"} : [type |-> k] \in StreamEvent
  /\ \A k \in {"end", "error", "response", "failure"} : [type |-> k] \in Event
  BY DEF StreamEvent, Piece, Event

LEMMA TypingInit == Init => Typing
<1> SUFFICES ASSUME Init PROVE Typing
  OBVIOUS
<1>1. Flags
  BY Zenon DEF Init, Flags
<1>2. JsTypes
  BY FetchAssumption DEF Init, JsTypes
<1>3. NetTypes /\ ReaderTypes
  <2>1. \A S : <<>> \in Seq(S)
    BY EmptySeq
  <2> QED
    BY <2>1, FetchAssumption DEF Init, NetTypes, ReaderTypes
<1> QED
  BY <1>1, <1>2, <1>3 DEF Typing

\* What takes a piece of a body, types apart.
LEMMA EnqueueTyped ==
  ASSUME Typing, NEW chunks \in Seq(Piece),
         Enqueue(chunks) \/ Emitted(chunks) \/ UNCHANGED <<seen, reads, queue>>
  PROVE  seen' \in Seq(Piece) /\ queue' \in Seq(Piece) /\ reads' \in 0 .. 1
         /\ (seen' = seen \/ seen' = seen \o chunks)
<1> DEFINE given == IF reads < Len(chunks) THEN reads ELSE Len(chunks)
<1>0. /\ seen \in Seq(Piece) /\ queue \in Seq(Piece) /\ reads \in 0 .. 1
      /\ Len(chunks) \in Nat
  BY LenProperties DEF Typing, JsTypes, ReaderTypes
<1>1. CASE UNCHANGED <<seen, reads, queue>>
  BY <1>0, <1>1
<1>2. CASE Taking /\ Enqueue(chunks)
  <2>1. /\ seen' = seen \o chunks /\ reads' = reads - given
        /\ queue' = queue \o SubSeq(chunks, given + 1, Len(chunks))
    BY <1>2 DEF Enqueue
  <2>2. given \in 0 .. 1 /\ given <= reads /\ given + 1 \in Int
    <3>1. CASE reads < Len(chunks)
      BY <1>0, <3>1
    <3>2. CASE ~(reads < Len(chunks))
      <4>1. given = Len(chunks) /\ Len(chunks) <= reads
        BY <1>0, <3>2
      <4> HIDE DEF given
      <4> QED
        BY <1>0, <4>1
    <3> QED
      BY <3>1, <3>2
  <2>3. SubSeq(chunks, given + 1, Len(chunks)) \in Seq(Piece)
    <3>1. \A i \in given + 1 .. Len(chunks) : chunks[i] \in Piece
      BY <1>0, <2>2, ElementOfSeq
    <3> QED
      BY <1>0, <2>2, <3>1, SubSeqProperties
  <2> HIDE DEF given
  <2>4. seen' \in Seq(Piece) /\ queue' \in Seq(Piece)
    BY <1>0, <2>1, <2>3, ConcatProperties
  <2>5. reads' \in 0 .. 1
    BY <1>0, <2>1, <2>2
  <2> QED
    BY <2>1, <2>4, <2>5
<1>3. CASE ~Taking /\ Enqueue(chunks)
  BY <1>1, <1>3 DEF Enqueue
<1> QED
  BY <1>1, <1>2, <1>3 DEF Emitted

LEMMA AbortTyped ==
  ASSUME Typing, AbortChannel
  PROVE  /\ door' \in {"none", "open", "complete", "gone"}
         /\ channel' \in Seq({"chunk", "complete", "abort"})
<1>1. channel \in Seq({"chunk", "complete", "abort"})
  BY DEF Typing, NetTypes
<1>2. Append(channel, "abort") \in Seq({"chunk", "complete", "abort"})
  BY <1>1, AppendProperties
<1> QED
  BY <1>1, <1>2 DEF AbortChannel, Typing, NetTypes

LEMMA AnswerTyped ==
  ASSUME Typing, NEW k \in {"response", "failure"}, Answer(k)
  PROVE  inbox' \in Seq(Event)
<1>1. inbox \in Seq(Event) /\ [type |-> k] \in Event
  BY EventTypes DEF Typing, ReaderTypes
<1> QED
  BY <1>1, AppendProperties DEF Answer

\* The JavaScript side: fetch() and the signal, the body stream, the pump.
LEMMA TypingJavaScript ==
  ASSUME Typing, JavaScript
  PROVE  Typing'
<1> USE FetchAssumption
<1> USE DEF promiseVars, bodyVars, uploadVars, callVars, readerVars, mapVars
<1>0. Flags /\ JsTypes /\ NetTypes /\ ReaderTypes
  BY DEF Typing
<1>1. CASE Send
  <2>1. Flags'
    BY <1>0, <1>1, Zenon DEF Send, Flags
  <2>2. JsTypes' /\ NetTypes'
    BY <1>0, <1>1 DEF Send, JsTypes, NetTypes
  <2>3. ReaderTypes'
    BY <1>0, <1>1 DEF Send, ReaderTypes
  <2> QED
    BY <2>1, <2>2, <2>3 DEF Typing
<1>2. CASE Refused
  <2>1. Flags'
    BY <1>0, <1>2, Zenon DEF Refused, Flags
  <2>2. JsTypes' /\ NetTypes' /\ ReaderTypes'
    BY <1>0, <1>2 DEF Refused, JsTypes, NetTypes, ReaderTypes
  <2> QED
    BY <2>1, <2>2 DEF Typing
<1>3. CASE Abort
  <2>1. Flags'
    BY <1>0, <1>3 DEF Abort, NativeCancel, Flags
  <2>2. JsTypes' /\ ReaderTypes'
    BY <1>0, <1>3 DEF Abort, JsTypes, ReaderTypes
  <2>3. NetTypes'
    BY <1>0, <1>3, AbortTyped DEF Abort, NativeCancel, NetTypes
  <2> QED
    BY <2>1, <2>2, <2>3 DEF Typing
<1>4. CASE Continue
  <2>1. Flags'
    BY <1>0, <1>4 DEF Continue, Flags
  <2>2. JsTypes' /\ NetTypes' /\ ReaderTypes'
    BY <1>0, <1>4 DEF Continue, JsTypes, NetTypes, ReaderTypes
  <2> QED
    BY <2>1, <2>2 DEF Typing
<1>5. CASE OnEvent
  <2> DEFINE e == Head(inbox)
  <2>1. e \in Event /\ inbox' \in Seq(Event)
    BY <1>0, <1>5, HeadTailProperties DEF OnEvent, ReaderTypes
  <2>2. CASE e.type \in {"response", "failure"}
    <3>1. /\ listener' = FALSE /\ UNCHANGED bodyVars
          /\ verdict' = (IF listener /\ phase = "asked" THEN e.type ELSE verdict)
      BY <1>5, <2>2 DEF OnEvent
    <3>2. Flags'
      BY <1>0, <1>5, <3>1, Zenon DEF OnEvent, Flags
    <3>3. JsTypes' /\ NetTypes' /\ ReaderTypes'
      BY <1>0, <1>5, <2>1, <2>2, <3>1 DEF OnEvent, JsTypes, NetTypes, ReaderTypes
    <3> QED
      BY <3>2, <3>3 DEF Typing
  <2>3. CASE e.type \notin {"response", "failure"}
    <3>1. OnStream(e) /\ UNCHANGED <<listener, verdict, started>>
      BY <1>5, <2>3 DEF OnEvent
    <3>2. /\ seen' \in Seq(Piece) /\ queue' \in Seq(Piece) /\ reads' \in 0 .. 1
          /\ readable' \in {"none", "open", "ended", "cancelled"}
      <4>1. CASE subscribed /\ e.type = "chunk"
        <5>1. e \in Piece
          BY <2>1, <4>1, EventTypes
        <5>2. <<e>> \in Seq(Piece) /\ Enqueue(<<e>>) /\ readable' = readable
          BY <3>1, <4>1, <5>1 DEF OnStream
        <5> QED
          BY <1>0, <5>2, EnqueueTyped DEF Typing, JsTypes
      <4>2. CASE ~(subscribed /\ e.type = "chunk")
        BY <1>0, <3>1, <4>2 DEF OnStream, Finish, Close, Fail, JsTypes, ReaderTypes
      <4> QED
        BY <4>1, <4>2
    <3>3. errored' \in BOOLEAN /\ subscribed' \in BOOLEAN
      BY <1>0, <3>1, Zenon DEF OnStream, Finish, Close, Fail, Flags
    <3>4. Flags'
      BY <1>0, <1>5, <3>1, <3>3 DEF OnEvent, Flags
    <3>5. JsTypes' /\ NetTypes' /\ ReaderTypes'
      BY <1>0, <1>5, <2>1, <3>1, <3>2 DEF OnEvent, JsTypes, NetTypes, ReaderTypes
    <3> QED
      BY <3>4, <3>5 DEF Typing
  <2> QED
    BY <2>2, <2>3
<1>6. CASE Read
  <2>1. Flags'
    BY <1>0, <1>6, Zenon DEF Read, Flags
  <2>2. queue' \in Seq(Piece)
    BY <1>0, <1>6, HeadTailProperties DEF Read, ReaderTypes
  <2>3. JsTypes' /\ NetTypes' /\ ReaderTypes'
    BY <1>0, <1>6, <2>2 DEF Read, JsTypes, NetTypes, ReaderTypes
  <2> QED
    BY <2>1, <2>3 DEF Typing
<1>7. CASE CancelBody
  <2>1. Flags'
    BY <1>0, <1>7 DEF CancelBody, NativeCancel, Flags
  <2>2. <<>> \in Seq(Piece)
    BY EmptySeq
  <2>3. JsTypes' /\ ReaderTypes'
    BY <1>0, <1>7, <2>2 DEF CancelBody, JsTypes, ReaderTypes
  <2>4. NetTypes'
    BY <1>0, <1>7, AbortTyped DEF CancelBody, NativeCancel, NetTypes
  <2> QED
    BY <2>1, <2>3, <2>4 DEF Typing
<1>8. CASE FlushChunks \/ FlushThrows
  <2>1. /\ UNCHANGED <<mode, phase, verdict, abortedAt, readable, pump, uploads>>
        /\ UNCHANGED <<door, channel, net, cancelled>>
        /\ UNCHANGED <<listener, errored, started, subscribed, calls, cut, startedStreams>>
        /\ UNCHANGED <<inbox, pendingEnd, sent>> /\ pendingChunks' = <<>>
        /\ jsPc' = "ending"
    BY <1>8 DEF FlushChunks, FlushThrows, TakeList
  <2>2. pendingChunks \in Seq(Piece) /\ DOMAIN pendingChunks = 1 .. Len(pendingChunks)
    BY <1>0, LenProperties DEF ReaderTypes
  <2>3. seen' \in Seq(Piece) /\ queue' \in Seq(Piece) /\ reads' \in 0 .. 1
    <3>1. ASSUME NEW k \in DOMAIN pendingChunks
          PROVE  SubSeq(pendingChunks, 1, k) \in Seq(Piece)
      <4>1. \A i \in 1 .. k : pendingChunks[i] \in Piece
        BY <2>2, ElementOfSeq
      <4>2. 1 \in Int /\ k \in Int
        BY <2>2
      <4> QED
        BY <4>1, <4>2, SubSeqProperties
    <3> QED
      BY <1>8, <2>2, <3>1, EnqueueTyped DEF FlushChunks, FlushThrows
  <2>4. ReaderTypes'
    <3>1. <<>> \in Seq(Piece) /\ <<>> \in Seq(Event)
      BY EmptySeq
    <3>2. CASE FlushChunks
      BY <1>0, <2>1, <2>3, <3>1, <3>2 DEF FlushChunks, ReaderTypes
    <3>3. CASE FlushThrows
      <4>1. hand[1] \in Piece
        BY <1>0, <3>3, EventTypes DEF FlushThrows, ReaderTypes
      <4>2. \A i \in 1 .. Len(pendingChunks) : pendingChunks[i].n \in 1 .. MaxChunks
        BY <2>2, ElementOfSeq, EventTypes
      <4>3. hand[1].n \in 1 .. MaxChunks
        BY <4>1, EventTypes
      <4>4. torn' \subseteq 1 .. MaxChunks
        <5>1. PICK k \in DOMAIN pendingChunks :
                torn' = torn \cup {pendingChunks[i].n : i \in k + 1 .. Len(pendingChunks)}
                             \cup {hand[1].n}
          BY <3>3 DEF FlushThrows
        <5>2. \A i \in k + 1 .. Len(pendingChunks) : i \in 1 .. Len(pendingChunks)
          BY <2>2
        <5> QED
          BY <1>0, <4>2, <4>3, <5>1, <5>2 DEF ReaderTypes
      <4>5. reader' = "reading" /\ hand' = <<>>
        BY <3>3 DEF FlushThrows
      <4> QED
        BY <1>0, <2>1, <2>3, <3>1, <4>4, <4>5 DEF ReaderTypes
    <3> QED
      BY <1>8, <3>2, <3>3
  <2>5. Flags'
    BY <1>0, <2>1 DEF Flags
  <2>6. JsTypes' /\ NetTypes'
    BY <1>0, <2>1, <2>3 DEF JsTypes, NetTypes
  <2> QED
    BY <2>4, <2>5, <2>6 DEF Typing
<1>9. CASE FlushEnd
  <2>1. errored' \in BOOLEAN /\ subscribed' \in BOOLEAN
    BY <1>0, <1>9, Zenon DEF FlushEnd, Finish, Close, Fail, Flags
  <2>2. Flags'
    BY <1>0, <1>9, <2>1 DEF FlushEnd, Flags
  <2>3. JsTypes' /\ NetTypes' /\ ReaderTypes'
    BY <1>0, <1>9 DEF FlushEnd, Finish, Close, Fail, JsTypes, NetTypes, ReaderTypes
  <2> QED
    BY <2>2, <2>3 DEF Typing
<1>10. CASE PumpChunk
  <2>1. channel' \in Seq({"chunk", "complete", "abort"})
    BY <1>0, <1>10, AppendProperties DEF PumpChunk, NetTypes
  <2>2. Flags'
    BY <1>0, <1>10 DEF PumpChunk, Flags
  <2>3. JsTypes' /\ NetTypes' /\ ReaderTypes'
    BY <1>0, <1>10, <2>1 DEF PumpChunk, JsTypes, NetTypes, ReaderTypes
  <2> QED
    BY <2>2, <2>3 DEF Typing
<1>11. CASE PumpFails
  <2>1. Flags'
    BY <1>0, <1>11 DEF PumpFails, NativeCancel, Flags
  <2>2. JsTypes' /\ ReaderTypes'
    BY <1>0, <1>11 DEF PumpFails, JsTypes, ReaderTypes
  <2>3. NetTypes'
    BY <1>0, <1>11, AbortTyped DEF PumpFails, NativeCancel, NetTypes
  <2> QED
    BY <2>1, <2>2, <2>3 DEF Typing
<1> QED
  BY <1>1, <1>2, <1>3, <1>4, <1>5, <1>6, <1>7, <1>8, <1>9, <1>10, <1>11 DEF JavaScript

\* The OkHttp thread.
LEMMA TypingOkHttp ==
  ASSUME Typing, OkHttp
  PROVE  Typing'
<1> USE FetchAssumption
<1> USE DEF promiseVars, bodyVars, uploadVars, callVars, readerVars, mapVars
<1>0. Flags /\ JsTypes /\ NetTypes /\ ReaderTypes
  BY DEF Typing
<1>1. CASE TakeUpload
  <2>1. inbox' \in Seq(Event)
    BY <1>0, <1>1, AnswerTyped DEF TakeUpload, ReaderTypes
  <2>2. Flags'
    BY <1>0, <1>1 DEF TakeUpload, Flags
  <2>3. channel' \in Seq({"chunk", "complete", "abort"})
    <3>1. Tail(channel) \in Seq({"chunk", "complete", "abort"})
      BY <1>0, <1>1, HeadTailProperties DEF TakeUpload, NetTypes
    <3>2. Tail(channel) \o <<"abort">> \in Seq({"chunk", "complete", "abort"})
          /\ Tail(channel) \o <<>> \in Seq({"chunk", "complete", "abort"})
      <4>1. <<"abort">> \in Seq({"chunk", "complete", "abort"})
            /\ <<>> \in Seq({"chunk", "complete", "abort"})
        OBVIOUS
      <4> QED
        BY <3>1, <4>1, ConcatProperties
    <3>3. \/ channel' = Tail(channel) \/ channel' = Tail(channel) \o <<"abort">>
          \/ channel' = Tail(channel) \o <<>>
      BY <1>1 DEF TakeUpload
    <3> QED
      BY <3>1, <3>2, <3>3
  <2>4. JsTypes' /\ NetTypes'
    BY <1>0, <1>1, <2>3 DEF TakeUpload, JsTypes, NetTypes
  <2>5. ReaderTypes'
    BY <1>0, <1>1, <2>1 DEF TakeUpload, ReaderTypes
  <2> QED
    BY <2>2, <2>4, <2>5 DEF Typing
<1>2. CASE CallFails
  <2>1. Flags'
    BY <1>0, <1>2 DEF CallFails, OnFailure, Flags
  <2>2. JsTypes' /\ NetTypes'
    BY <1>0, <1>2, AbortTyped DEF CallFails, OnFailure, JsTypes, NetTypes
  <2>3. ReaderTypes'
    BY <1>0, <1>2, AnswerTyped DEF CallFails, OnFailure, ReaderTypes
  <2> QED
    BY <2>1, <2>2, <2>3 DEF Typing
<1>3. CASE TimeOut \/ BodyCut
  <2>1. Flags'
    BY <1>0, <1>3, Zenon DEF TimeOut, BodyCut, Flags
  <2>2. JsTypes' /\ NetTypes' /\ ReaderTypes'
    BY <1>0, <1>3 DEF TimeOut, BodyCut, JsTypes, NetTypes, ReaderTypes
  <2> QED
    BY <2>1, <2>2 DEF Typing
<1>4. CASE Headers
  <2>1. Flags' /\ JsTypes' /\ NetTypes'
    BY <1>0, <1>4 DEF Headers, Flags, JsTypes, NetTypes
  <2>2. ReaderTypes'
    BY <1>0, <1>4 DEF Headers, ReaderTypes
  <2> QED
    BY <2>1, <2>2 DEF Typing
<1>5. CASE Announce \/ WholeBody
  <2>1. inbox' \in Seq(Event)
    BY <1>5, AnswerTyped DEF Announce, WholeBody
  <2>2. Flags' /\ JsTypes' /\ NetTypes'
    BY <1>0, <1>5 DEF Announce, WholeBody, Flags, JsTypes, NetTypes
  <2>3. ReaderTypes'
    BY <1>0, <1>5, <2>1 DEF Announce, WholeBody, ReaderTypes
  <2> QED
    BY <2>2, <2>3 DEF Typing
<1> QED
  BY <1>1, <1>2, <1>3, <1>4, <1>5 DEF OkHttp

\* The thread of a streamed answer.
LEMMA TypingReader ==
  ASSUME Typing, Reader
  PROVE  Typing'
<1> USE FetchAssumption
<1> USE DEF promiseVars, bodyVars, uploadVars, callVars, readerVars, mapVars
<1>0. Flags /\ JsTypes /\ NetTypes /\ ReaderTypes
  BY DEF Typing
<1>1. CASE ReadNetwork
  <2>1. Flags' /\ JsTypes' /\ NetTypes'
    BY <1>0, <1>1 DEF ReadNetwork, Flags, JsTypes, NetTypes
  <2>2. /\ sent' \in 0 .. MaxChunks /\ reader' \in {"direct", "kept"}
        /\ \E e \in StreamEvent : hand' = <<e>>
    <3>1. PICK e : /\ hand' = <<e>> /\ reader' \in {"direct", "kept"}
                   /\ \/ /\ sent < MaxChunks /\ sent' = sent + 1
                         /\ e = [type |-> "chunk", n |-> sent + 1]
                      \/ sent' = sent /\ e = [type |-> "end"]
                      \/ sent' = sent /\ e = [type |-> "error"]
      BY <1>1 DEF ReadNetwork, Look
    <3>2. sent \in 0 .. MaxChunks
      BY <1>0 DEF ReaderTypes
    <3>3. sent' \in 0 .. MaxChunks
      BY <3>1, <3>2
    <3>4. sent < MaxChunks => [type |-> "chunk", n |-> sent + 1] \in StreamEvent
      BY <3>2 DEF StreamEvent, Piece
    <3> QED
      BY <3>1, <3>3, <3>4, EventTypes
  <2>3. hand' \in Seq(Event)
    BY <2>2, EventTypes
  <2>4. ReaderTypes'
    BY <1>0, <1>1, <2>2, <2>3 DEF ReadNetwork, ReaderTypes
  <2> QED
    BY <2>1, <2>4 DEF Typing
<1>2. CASE FindList
  <2>1. Flags' /\ JsTypes' /\ NetTypes'
    BY <1>0, <1>2 DEF FindList, Flags, JsTypes, NetTypes
  <2>2. ReaderTypes'
    BY <1>0, <1>2 DEF FindList, ReaderTypes
  <2> QED
    BY <2>1, <2>2 DEF Typing
<1>3. CASE AddToList
  <2>1. hand[1] \in Piece
    BY <1>0, <1>3, EventTypes DEF AddToList, ReaderTypes
  <2>2. Append(pendingChunks, hand[1]) \in Seq(Piece) /\ hand[1].n \in 1 .. MaxChunks
    BY <1>0, <2>1, AppendProperties, EventTypes DEF ReaderTypes
  <2>3. Flags' /\ JsTypes' /\ NetTypes'
    BY <1>0, <1>3 DEF AddToList, Flags, JsTypes, NetTypes
  <2>4. hand' = <<>> /\ <<>> \in Seq(Event) /\ reader' = "reading"
    BY <1>3, EmptySeq DEF AddToList
  <2>5. ReaderTypes'
    BY <1>0, <1>3, <2>2, <2>4 DEF AddToList, ReaderTypes
  <2> QED
    BY <2>3, <2>5 DEF Typing
<1>4. CASE EmitStream
  <2>1. hand[1] \in StreamEvent
    BY <1>0, <1>4 DEF EmitStream, ReaderTypes
  <2>2. Append(inbox, hand[1]) \in Seq(Event)
    BY <1>0, <2>1, AppendProperties, EventTypes DEF ReaderTypes
  <2>f. Flags'
    BY <1>0, <1>4 DEF EmitStream, Flags
  <2>n. JsTypes' /\ NetTypes'
    BY <1>0, <1>4 DEF EmitStream, JsTypes, NetTypes
  <2>3. Flags' /\ JsTypes' /\ NetTypes'
    BY <2>f, <2>n
  <2>4. /\ hand' = <<>> /\ <<>> \in Seq(Event) /\ reader' \in {"reading", "done"}
        /\ hand[1].type # "chunk" => hand[1].type \in {"end", "error"}
        /\ reader # "direct" => hand[1].type # "chunk"
    BY <1>4, <2>1, EmptySeq, EventTypes DEF EmitStream
  <2>5. inbox' \in Seq(Event) /\ pendingEnd' \in {"none", "end", "error"}
    BY <1>0, <1>4, <2>2, <2>4 DEF EmitStream, ReaderTypes
  <2>6. ReaderTypes'
    BY <1>0, <1>4, <2>4, <2>5 DEF EmitStream, ReaderTypes
  <2> QED
    BY <2>3, <2>6 DEF Typing
<1> QED
  BY <1>1, <1>2, <1>3, <1>4 DEF Reader

LEMMA TypingStep == Typing /\ [Next]_vars => Typing'
<1>1. ASSUME Typing, UNCHANGED vars PROVE Typing'
  BY <1>1 DEF vars, promiseVars, bodyVars, uploadVars, callVars, readerVars, mapVars,
     Typing, Flags, JsTypes, NetTypes, ReaderTypes
<1> QED
  BY <1>1, TypingJavaScript, TypingOkHttp, TypingReader DEF Next

\* TypeOK holds in every reachable state.
THEOREM TypesHold == Spec => []TypeOK
  BY TypingInit, TypingStep, TypingIsTypeOK, PTL DEF Spec

-----------------------------------------------------------------------------
(* An abort reaches the call. *)

\* A streamed answer is read after its headers came, and a call that goes on
\* can still be cancelled, or was.
Reachable ==
  /\ phase = "preparing" =>
       net = "none" /\ reader = "none" /\ abortedAt \in {"never", "early"}
  /\ mode = "upload" => reader = "none" /\ net # "announcing"
  /\ mode = "stream" => net \notin {"sending", "body"}
  /\ reader # "none" => net \in {"announcing", "over"}
  /\ Busy => calls \/ cancelled = "app"
  /\ AbortStops

LEMMA ReachableInit == Init => Reachable
  BY DEF Init, Reachable, Busy, AbortStops

LEMMA ReachableStep == Typing /\ Reachable /\ [Next]_vars => Reachable'
<1> SUFFICES ASSUME Typing, Reachable, [Next]_vars PROVE Reachable'
  OBVIOUS
<1> USE DEF promiseVars, bodyVars, uploadVars, callVars, readerVars, mapVars,
            Reachable, AbortStops, Busy
<1>0. Flags /\ JsTypes /\ NetTypes /\ ReaderTypes
  BY DEF Typing
<1>1. CASE Send
  BY <1>0, <1>1 DEF Send, JsTypes
<1>2. CASE Refused
  BY <1>2 DEF Refused
<1>3. CASE Abort
  BY <1>0, <1>3 DEF Abort, NativeCancel, Flags, JsTypes
<1>4. CASE Continue
  BY <1>4 DEF Continue
<1>5. CASE OnEvent
  BY <1>5 DEF OnEvent
<1>6. CASE Read
  BY <1>6 DEF Read
<1>7. CASE CancelBody
  BY <1>7 DEF CancelBody, NativeCancel
<1>8. CASE FlushChunks
  BY <1>0, <1>8 DEF FlushChunks, TakeList
<1>9. CASE FlushThrows
  BY <1>0, <1>9 DEF FlushThrows, TakeList
<1>10. CASE FlushEnd
  BY <1>10 DEF FlushEnd
<1>11. CASE PumpChunk
  BY <1>11 DEF PumpChunk
<1>12. CASE PumpFails
  BY <1>12 DEF PumpFails, NativeCancel
<1>13. CASE TakeUpload
  BY <1>0, <1>13 DEF TakeUpload, JsTypes
<1>14. CASE CallFails
  BY <1>14 DEF CallFails, OnFailure
<1>15. CASE TimeOut
  BY <1>15 DEF TimeOut
<1>16. CASE Headers
  BY <1>0, <1>16 DEF Headers, JsTypes
<1>17. CASE Announce
  BY <1>17 DEF Announce
<1>18. CASE WholeBody
  BY <1>0, <1>18 DEF WholeBody, JsTypes
<1>19. CASE BodyCut
  BY <1>19 DEF BodyCut
<1>20. CASE ReadNetwork
  BY <1>20 DEF ReadNetwork, Look
<1>21. CASE FindList \/ AddToList
  BY <1>21 DEF FindList, AddToList
<1>22. CASE EmitStream
  BY <1>0, <1>22 DEF EmitStream, ReaderTypes
<1>23. CASE UNCHANGED vars
  BY <1>23 DEF vars
<1> QED
  BY <1>1, <1>2, <1>3, <1>4, <1>5, <1>6, <1>7, <1>8, <1>9, <1>10, <1>11, <1>12,
     <1>13, <1>14, <1>15, <1>16, <1>17, <1>18, <1>19, <1>20, <1>21, <1>22, <1>23
     DEF Next, JavaScript, OkHttp, Reader

\* An abort that comes once the request is out cancels the native call, as
\* long as anything of it is left to stop.
THEOREM AbortStopsHolds == Spec => []AbortStops
<1>1. Reachable => AbortStops
  BY DEF Reachable
<1> QED
  BY <1>1, TypingInit, TypingStep, ReachableInit, ReachableStep, PTL DEF Spec

-----------------------------------------------------------------------------
(* The order of the pieces. *)

Rising(s) ==
  \A i, j \in DOMAIN s :
    i < j /\ s[i].type = "chunk" /\ s[j].type = "chunk" => s[i].n < s[j].n
Below(s, t) ==
  \A i \in DOMAIN s : \A j \in DOMAIN t :
    s[i].type = "chunk" /\ t[j].type = "chunk" => s[i].n < t[j].n
UpTo(s, n) == \A i \in DOMAIN s : s[i].type = "chunk" => s[i].n <= n
NoChunk(s) == \A i \in DOMAIN s : s[i].type # "chunk"

\* A part of a sequence without gaps is as ordered as the whole.
LEMMA PartOrder ==
  ASSUME NEW s, NEW t, NEW d \in Nat, DOMAIN s \subseteq Nat, DOMAIN t \subseteq Nat,
         \A i \in DOMAIN t : i + d \in DOMAIN s /\ t[i] = s[i + d]
  PROVE  /\ Rising(s) => Rising(t)
         /\ \A u : Below(s, u) => Below(t, u)
         /\ \A u : Below(u, s) => Below(u, t)
         /\ \A n : UpTo(s, n) => UpTo(t, n)
         /\ NoChunk(s) => NoChunk(t)
<1>1. ASSUME Rising(s) PROVE Rising(t)
  <2> SUFFICES ASSUME NEW i \in DOMAIN t, NEW j \in DOMAIN t, i < j,
                      t[i].type = "chunk", t[j].type = "chunk"
               PROVE  t[i].n < t[j].n
    BY DEF Rising
  <2>1. /\ i + d \in DOMAIN s /\ t[i] = s[i + d]
        /\ j + d \in DOMAIN s /\ t[j] = s[j + d] /\ i + d < j + d
    OBVIOUS
  <2> QED
    BY <1>1, <2>1 DEF Rising
<1> QED
  BY <1>1 DEF Below, UpTo, NoChunk

LEMMA TailOrder ==
  ASSUME NEW s \in Seq(Event), s # <<>>
  PROVE  /\ Rising(s) => Rising(Tail(s))
         /\ \A u : Below(s, u) => Below(Tail(s), u)
         /\ \A u : Below(u, s) => Below(u, Tail(s))
         /\ \A n : UpTo(s, n) => UpTo(Tail(s), n)
         /\ NoChunk(s) => NoChunk(Tail(s))
         /\ Rising(s) => Below(<<Head(s)>>, Tail(s))
         /\ \A u : Below(u, s) => Below(u, <<Head(s)>>)
         /\ \A u : Below(s, u) => Below(<<Head(s)>>, u)
         /\ \A n : UpTo(s, n) => UpTo(<<Head(s)>>, n)
<1>1. /\ Tail(s) \in Seq(Event) /\ Len(Tail(s)) = Len(s) - 1
      /\ \A i \in 1 .. Len(Tail(s)) : Tail(s)[i] = s[i + 1]
  BY HeadTailProperties
<1>2. /\ DOMAIN s = 1 .. Len(s) /\ DOMAIN Tail(s) = 1 .. Len(s) - 1
      /\ Len(s) \in Nat \ {0} /\ Head(s) = s[1]
  BY <1>1, LenProperties
<1>3. \A i \in DOMAIN Tail(s) : i + 1 \in DOMAIN s /\ Tail(s)[i] = s[i + 1] /\ 1 < i + 1
  BY <1>1, <1>2
<1>4. DOMAIN s \subseteq Nat /\ DOMAIN Tail(s) \subseteq Nat /\ 1 \in DOMAIN s
  BY <1>2
<1>5. /\ Rising(s) => Rising(Tail(s))
      /\ \A u : Below(s, u) => Below(Tail(s), u)
      /\ \A u : Below(u, s) => Below(u, Tail(s))
      /\ \A n : UpTo(s, n) => UpTo(Tail(s), n)
      /\ NoChunk(s) => NoChunk(Tail(s))
  BY <1>3, <1>4, PartOrder
<1>6. DOMAIN <<Head(s)>> = {1} /\ <<Head(s)>>[1] = s[1]
  BY <1>2
<1>7. Rising(s) => Below(<<Head(s)>>, Tail(s))
  BY <1>3, <1>4, <1>6 DEF Rising, Below
<1>8. /\ \A u : Below(u, s) => Below(u, <<Head(s)>>)
      /\ \A u : Below(s, u) => Below(<<Head(s)>>, u)
      /\ \A n : UpTo(s, n) => UpTo(<<Head(s)>>, n)
  BY <1>4, <1>6 DEF Below, UpTo
<1> QED
  BY <1>5, <1>7, <1>8

LEMMA AppendOrder ==
  ASSUME NEW s \in Seq(Event), NEW e \in Event
  PROVE  /\ Rising(s) /\ Below(s, <<e>>) => Rising(Append(s, e))
         /\ \A u : Below(s, u) /\ Below(<<e>>, u) => Below(Append(s, e), u)
         /\ \A u : Below(u, s) /\ Below(u, <<e>>) => Below(u, Append(s, e))
         /\ \A n : UpTo(s, n) /\ UpTo(<<e>>, n) => UpTo(Append(s, e), n)
         /\ NoChunk(s) /\ e.type # "chunk" => NoChunk(Append(s, e))
<1> DEFINE t == Append(s, e)
<1>1. /\ t \in Seq(Event) /\ Len(t) = Len(s) + 1 /\ t[Len(s) + 1] = e
      /\ \A i \in 1 .. Len(s) : t[i] = s[i]
  BY AppendProperties
<1>2. /\ DOMAIN s = 1 .. Len(s) /\ DOMAIN t = 1 .. Len(s) + 1 /\ Len(s) \in Nat
  BY <1>1, LenProperties
<1> HIDE DEF t
<1>3. \A i \in DOMAIN t : (i \in DOMAIN s /\ t[i] = s[i]) \/ (i = Len(s) + 1 /\ t[i] = e)
  BY <1>1, <1>2
<1>4. DOMAIN <<e>> = {1} /\ <<e>>[1] = e
  OBVIOUS
<1>5. ASSUME Rising(s), Below(s, <<e>>) PROVE Rising(t)
  <2> SUFFICES ASSUME NEW i \in DOMAIN t, NEW j \in DOMAIN t, i < j,
                      t[i].type = "chunk", t[j].type = "chunk"
               PROVE  t[i].n < t[j].n
    BY DEF Rising
  <2>1. i \in DOMAIN s /\ t[i] = s[i]
    BY <1>2, <1>3
  <2>2. CASE j \in DOMAIN s /\ t[j] = s[j]
    BY <1>5, <2>1, <2>2 DEF Rising
  <2>3. CASE t[j] = e
    BY <1>4, <1>5, <2>1, <2>3 DEF Below
  <2> QED
    BY <1>3, <2>2, <2>3
<1>6. /\ \A u : Below(s, u) /\ Below(<<e>>, u) => Below(t, u)
      /\ \A u : Below(u, s) /\ Below(u, <<e>>) => Below(u, t)
      /\ \A n : UpTo(s, n) /\ UpTo(<<e>>, n) => UpTo(t, n)
      /\ NoChunk(s) /\ e.type # "chunk" => NoChunk(t)
  BY <1>3, <1>4 DEF Below, UpTo, NoChunk
<1> QED
  BY <1>5, <1>6 DEF t

\* A prefix.
LEMMA PrefixOrder ==
  ASSUME NEW s \in Seq(Piece), NEW k \in DOMAIN s, NEW t, t = SubSeq(s, 1, k)
  PROVE  /\ t \in Seq(Piece)
         /\ Rising(s) => Rising(t)
         /\ \A u : Below(s, u) => Below(t, u)
         /\ \A n : UpTo(s, n) => UpTo(t, n)
<1>1. DOMAIN s = 1 .. Len(s) /\ Len(s) \in Nat /\ \A i \in 1 .. Len(s) : s[i] \in Piece
  BY LenProperties, ElementOfSeq
<1>2. t \in Seq(Piece) /\ Len(t) = k /\ \A i \in 1 .. k : t[i] = s[i]
  <2>1. \A i \in 1 .. k : s[i] \in Piece
    BY <1>1
  <2>2. 1 \in Int /\ k \in Int /\ 1 <= k
    BY <1>1
  <2> QED
    BY <2>1, <2>2, SubSeqProperties
<1>3. DOMAIN t = 1 .. k
  BY <1>2
<1>4. \A i \in DOMAIN t : i + 0 \in DOMAIN s /\ t[i] = s[i + 0]
  BY <1>1, <1>2, <1>3
<1>5. DOMAIN s \subseteq Nat /\ DOMAIN t \subseteq Nat /\ 0 \in Nat
  BY <1>1, <1>3
<1>6. /\ Rising(s) => Rising(t)
      /\ \A u : Below(s, u) => Below(t, u)
      /\ \A n : UpTo(s, n) => UpTo(t, n)
  BY <1>4, <1>5, PartOrder
<1> QED
  BY <1>2, <1>6

\* The pieces pass from the reader's hand to the kept ones or the inbox, and
\* from both to the consumer.  Until streamStart has taken what was kept, that
\* comes before all that is posted; a piece that is to be kept was looked at
\* before streamStart, when nothing was posted.
Waiting  == jsPc = "flushing" \/ ~startedStreams
Ordered ==
  /\ Rising(seen) /\ Rising(inbox) /\ Below(seen, inbox)
  /\ Below(seen, hand) /\ Below(inbox, hand) /\ Below(pendingChunks, hand)
  /\ UpTo(seen, sent) /\ UpTo(inbox, sent) /\ UpTo(pendingChunks, sent) /\ UpTo(hand, sent)
  /\ Waiting => /\ seen = <<>> /\ Rising(pendingChunks) /\ Below(pendingChunks, inbox)
  /\ started <=> startedStreams
  /\ jsPc = "flushing" => startedStreams
  /\ ~startedStreams => NoChunk(inbox) /\ reader # "direct"
  /\ reader \in {"kept", "adding", "orphan"} => NoChunk(inbox)
  /\ reader \in {"none", "reading", "done"} => hand = <<>>

LEMMA OrderedInit == Init => Ordered
  BY DEF Init, Ordered, Waiting, Rising, Below, UpTo, NoChunk

\* An event that is not a piece of the body.
LEMMA AnswerOrder ==
  ASSUME Typing, Ordered, NEW k \in {"response", "failure"}, Answer(k),
         UNCHANGED <<seen, hand, pendingChunks, sent, startedStreams, started, reader, jsPc>>
  PROVE  Ordered'
<1> DEFINE e == [type |-> k]
<1>1. inbox \in Seq(Event) /\ e \in Event /\ e.type # "chunk" /\ inbox' = Append(inbox, e)
  BY EventTypes DEF Typing, ReaderTypes, Answer
<1> HIDE DEF e
<1>2. \A u : Below(u, <<e>>) /\ Below(<<e>>, u)
  BY <1>1 DEF Below
<1>3. \A n : UpTo(<<e>>, n)
  BY <1>1 DEF UpTo
<1> QED
  BY <1>1, <1>2, <1>3, AppendOrder DEF Ordered, Waiting

\* streamStart takes what was kept.
LEMMA FlushOrder ==
  ASSUME Typing, Ordered, jsPc = "flushing", jsPc' = "ending", pendingChunks' = <<>>,
         UNCHANGED <<inbox, sent, startedStreams, started>>,
         NEW chunks \in Seq(Piece), seen' = seen \/ seen' = seen \o chunks,
         Rising(chunks), Below(chunks, inbox), Below(chunks, hand), UpTo(chunks, sent),
         \/ hand' = hand /\ reader' = reader
         \/ hand' = hand /\ reader = "adding" /\ reader' = "orphan"
         \/ hand' = <<>> /\ reader' = "reading"
  PROVE  Ordered'
<1>1. seen = <<>> /\ startedStreams
  BY DEF Ordered, Waiting
<1>2. seen \o chunks = chunks
  BY <1>1
<1>3. /\ Rising(seen') /\ Below(seen', inbox) /\ Below(seen', hand) /\ UpTo(seen', sent)
  BY <1>1, <1>2 DEF Ordered
<1>4. \A u : Below(u, <<>>) /\ Below(<<>>, u)
  BY DEF Below
<1>5. \A n : UpTo(<<>>, n)
  BY DEF UpTo
<1>6. ~Waiting'
  BY <1>1 DEF Waiting
<1> QED
  BY <1>1, <1>3, <1>4, <1>5, <1>6 DEF Ordered

LEMMA OrderedStep == Typing /\ Reachable /\ Ordered /\ [Next]_vars => Ordered'
<1> SUFFICES ASSUME Typing, Reachable, Ordered, [Next]_vars PROVE Ordered'
  OBVIOUS
<1> USE DEF promiseVars, bodyVars, uploadVars, callVars, readerVars, mapVars
<1>0. /\ inbox \in Seq(Event) /\ seen \in Seq(Piece) /\ pendingChunks \in Seq(Piece)
      /\ Flags /\ JsTypes /\ ReaderTypes
  BY DEF Typing, ReaderTypes
<1>q. ASSUME UNCHANGED <<seen, inbox, hand, pendingChunks, sent, startedStreams, started,
                         reader, jsPc>>
      PROVE  Ordered'
  BY <1>q DEF Ordered, Waiting
<1>e. /\ \A u : Below(u, <<>>) /\ Below(<<>>, u)
      /\ \A n : UpTo(<<>>, n)
  BY DEF Below, UpTo
<1>1. ASSUME \/ Send \/ Refused \/ Abort \/ Continue \/ CancelBody \/ PumpChunk \/ PumpFails
             \/ TimeOut \/ BodyCut \/ UNCHANGED vars
      PROVE  Ordered'
  BY <1>1, <1>q DEF Send, Refused, Abort, Continue, CancelBody, PumpChunk, PumpFails, TimeOut,
     BodyCut, vars
<1>2. CASE OnEvent
  <2> DEFINE e == Head(inbox)
  <2>1. /\ jsPc = "free" /\ inbox # <<>> /\ inbox' = Tail(inbox)
        /\ UNCHANGED <<hand, pendingChunks, sent, startedStreams, started, reader, jsPc>>
    BY <1>2 DEF OnEvent
  <2>2. e \in Event
    BY <1>0, <2>1, HeadTailProperties
  <2>3. \/ seen' = seen
        \/ e.type = "chunk" /\ seen' = Append(seen, e) /\ e \in Piece
    <3>1. CASE e.type \in {"response", "failure"}
      BY <1>2, <3>1 DEF OnEvent
    <3>2. CASE e.type \notin {"response", "failure"}
      <4>1. OnStream(e)
        BY <1>2, <3>2 DEF OnEvent
      <4>2. CASE subscribed /\ e.type = "chunk"
        <5>1. e \in Piece /\ Enqueue(<<e>>)
          BY <2>2, <4>1, <4>2, EventTypes DEF OnStream
        <5>2. seen' = seen \/ seen' = seen \o <<e>>
          BY <5>1 DEF Enqueue
        <5>3. Append(seen, e) = seen \o <<e>>
          BY <1>0, <5>1, AppendIsConcat
        <5> QED
          BY <4>2, <5>1, <5>2, <5>3
      <4>3. CASE ~(subscribed /\ e.type = "chunk")
        BY <4>1, <4>3 DEF OnStream, Finish
      <4> QED
        BY <4>2, <4>3
    <3> QED
      BY <3>1, <3>2
  <2>4. /\ Rising(inbox') /\ Below(seen, inbox') /\ Below(inbox', hand) /\ UpTo(inbox', sent)
        /\ \A u : Below(u, inbox) => Below(u, inbox')
        /\ NoChunk(inbox) => NoChunk(inbox')
        /\ Below(<<e>>, inbox') /\ Below(seen, <<e>>) /\ Below(<<e>>, hand) /\ UpTo(<<e>>, sent)
    BY <1>0, <2>1, TailOrder DEF Ordered
  <2>5. /\ Rising(seen') /\ Below(seen', inbox') /\ Below(seen', hand) /\ UpTo(seen', sent)
    <3>1. CASE seen' = seen
      BY <2>4, <3>1 DEF Ordered
    <3>2. CASE e.type = "chunk" /\ seen' = Append(seen, e) /\ e \in Piece
      <4>1. seen \in Seq(Event)
        BY <1>0, EventTypes
      <4> QED
        BY <2>2, <2>4, <3>2, <4>1, AppendOrder DEF Ordered
    <3> QED
      BY <2>3, <3>1, <3>2
  <2>6. Waiting => seen' = seen
    <3>1. Waiting => NoChunk(inbox)
      BY <2>1 DEF Waiting, Ordered
    <3>2. 1 \in DOMAIN inbox /\ e = inbox[1]
      BY <1>0, <2>1, LenProperties
    <3> QED
      BY <2>3, <3>1, <3>2 DEF NoChunk
  <2> HIDE DEF e
  <2> QED
    BY <2>1, <2>4, <2>5, <2>6 DEF Ordered, Waiting
<1>3. CASE Read
  <2>1. /\ jsPc = "free" /\ UNCHANGED <<seen, inbox, hand, pendingChunks, sent, reader>>
        /\ \/ UNCHANGED <<started, startedStreams, jsPc>>
           \/ /\ ~started /\ started' = TRUE /\ startedStreams' = TRUE
              /\ jsPc' = "flushing"
           \/ started /\ started' = TRUE /\ UNCHANGED <<startedStreams, jsPc>>
    BY <1>3 DEF Read
  <2>2. CASE UNCHANGED <<started, startedStreams, jsPc>>
    BY <1>q, <2>1, <2>2
  <2>3. CASE ~started /\ started' = TRUE /\ startedStreams' = TRUE /\ jsPc' = "flushing"
    <3>1. ~startedStreams /\ Waiting
      BY <2>3 DEF Ordered, Waiting
    <3> QED
      BY <2>1, <2>3, <3>1 DEF Ordered, Waiting
  <2>4. CASE started /\ started' = TRUE /\ UNCHANGED <<startedStreams, jsPc>>
    BY <2>1, <2>4 DEF Ordered, Waiting
  <2> QED
    BY <2>1, <2>2, <2>3, <2>4
<1>4. CASE FlushChunks
  <2>1. /\ jsPc = "flushing" /\ jsPc' = "ending" /\ pendingChunks' = <<>>
        /\ UNCHANGED <<inbox, sent, startedStreams, started>>
        /\ hand' = hand
        /\ reader' = reader \/ (reader = "adding" /\ reader' = "orphan")
        /\ Emitted(pendingChunks)
    BY <1>4 DEF FlushChunks, TakeList
  <2>2. seen' = seen \/ seen' = seen \o pendingChunks
    BY <1>0, <2>1, EnqueueTyped
  <2>3. /\ Rising(pendingChunks) /\ Below(pendingChunks, inbox)
        /\ Below(pendingChunks, hand) /\ UpTo(pendingChunks, sent)
    BY <2>1 DEF Ordered, Waiting
  <2> QED
    BY <1>0, <2>1, <2>2, <2>3, FlushOrder
<1>5. CASE FlushThrows
  <2>1. /\ jsPc = "flushing" /\ jsPc' = "ending" /\ pendingChunks' = <<>>
        /\ UNCHANGED <<inbox, sent, startedStreams, started>>
        /\ hand' = <<>> /\ reader' = "reading"
    BY <1>5 DEF FlushThrows, TakeList
  <2>2. PICK k \in DOMAIN pendingChunks : Emitted(SubSeq(pendingChunks, 1, k))
    BY <1>5 DEF FlushThrows
  <2> DEFINE p == SubSeq(pendingChunks, 1, k)
  <2>3. /\ Rising(pendingChunks) /\ Below(pendingChunks, inbox)
        /\ Below(pendingChunks, hand) /\ UpTo(pendingChunks, sent)
    BY <2>1 DEF Ordered, Waiting
  <2>4. /\ p \in Seq(Piece) /\ Rising(p) /\ Below(p, inbox) /\ Below(p, hand) /\ UpTo(p, sent)
    BY <1>0, <2>3, PrefixOrder
  <2>5. seen' = seen \/ seen' = seen \o p
    BY <2>2, <2>4, EnqueueTyped
  <2> HIDE DEF p
  <2> QED
    BY <2>1, <2>4, <2>5, FlushOrder
<1>6. CASE FlushEnd
  <2>1. /\ jsPc = "ending" /\ jsPc' = "free"
        /\ UNCHANGED <<seen, inbox, hand, pendingChunks, sent, startedStreams, started, reader>>
    BY <1>6 DEF FlushEnd, Finish
  <2> QED
    BY <2>1 DEF Ordered, Waiting
<1>7. CASE TakeUpload
  <2>1. /\ UNCHANGED <<seen, hand, pendingChunks, sent, startedStreams, started, reader, jsPc>>
        /\ Answer("failure") \/ UNCHANGED inbox
    BY <1>7 DEF TakeUpload
  <2> QED
    BY <1>q, <2>1, AnswerOrder
<1>8. CASE CallFails
  BY <1>8, AnswerOrder DEF CallFails, OnFailure
<1>9. CASE Announce \/ WholeBody
  BY <1>9, AnswerOrder DEF Announce, WholeBody
<1>10. CASE Headers
  <2>1. /\ UNCHANGED <<seen, inbox, hand, pendingChunks, sent, startedStreams, started, jsPc>>
        /\ reader = "none" /\ reader' \in {"none", "reading"}
    BY <1>10 DEF Headers, Reachable
  <2> QED
    BY <2>1 DEF Ordered, Waiting
<1>11. CASE ReadNetwork
  <2>1. /\ reader = "reading"
        /\ UNCHANGED <<seen, inbox, pendingChunks, startedStreams, started, jsPc>>
        /\ reader' = (IF startedStreams THEN "direct" ELSE "kept")
    BY <1>11 DEF ReadNetwork, Look
  <2>2. PICK e : /\ hand' = <<e>>
                 /\ \/ sent' = sent + 1 /\ e = [type |-> "chunk", n |-> sent + 1]
                    \/ sent' = sent /\ e = [type |-> "end"]
                    \/ sent' = sent /\ e = [type |-> "error"]
    BY <1>11 DEF ReadNetwork, Look
  <2>3. sent \in Nat /\ seen \in Seq(Event) /\ pendingChunks \in Seq(Event)
    BY <1>0, EventTypes DEF ReaderTypes
  <2>4. ASSUME NEW s \in Seq(Event), UpTo(s, sent) PROVE Below(s, <<e>>) /\ UpTo(s, sent')
    <3>1. \A i \in DOMAIN s : s[i].type = "chunk" => s[i].n \in Int
      <4>1. \A i \in DOMAIN s : s[i] \in Event
        BY <2>4, LenProperties, ElementOfSeq
      <4>2. \A p \in Event : p.type = "chunk" => p.n \in Int
        BY EventTypes
      <4> QED
        BY <4>1, <4>2
    <3>2. \A x \in Int : x <= sent => x < sent + 1 /\ x <= sent + 1
      BY <2>3
    <3>3. DOMAIN <<e>> = {1} /\ <<e>>[1] = e
      OBVIOUS
    <3>4. CASE sent' = sent + 1 /\ e = [type |-> "chunk", n |-> sent + 1]
      BY <2>4, <3>1, <3>2, <3>3, <3>4 DEF Below, UpTo
    <3>5. CASE sent' = sent /\ e.type # "chunk"
      BY <2>4, <3>3, <3>5 DEF Below, UpTo
    <3> QED
      BY <2>2, <3>4, <3>5
  <2>5. UpTo(hand', sent')
    BY <2>2, <2>3 DEF UpTo
  <2>6. /\ Below(seen, hand') /\ Below(inbox, hand') /\ Below(pendingChunks, hand')
        /\ UpTo(seen, sent') /\ UpTo(inbox, sent') /\ UpTo(pendingChunks, sent')
    BY <1>0, <2>2, <2>3, <2>4 DEF Ordered
  <2> QED
    BY <1>0, <2>1, <2>5, <2>6 DEF Ordered, Waiting, Flags
<1>12. CASE FindList
  <2>1. /\ UNCHANGED <<seen, inbox, hand, pendingChunks, sent, startedStreams, started, jsPc>>
        /\ reader = "kept" /\ reader' = "adding"
    BY <1>12 DEF FindList
  <2> QED
    BY <2>1 DEF Ordered, Waiting
<1>13. CASE AddToList
  <2>1. /\ UNCHANGED <<seen, inbox, sent, startedStreams, started, jsPc>>
        /\ hand' = <<>> /\ reader \in {"adding", "orphan"} /\ reader' = "reading"
        /\ pendingChunks' = Append(pendingChunks, hand[1]) \/ pendingChunks' = pendingChunks
    BY <1>13 DEF AddToList
  <2>2. PICK h \in Event : hand = <<h>>
    BY <1>0, <2>1, EventTypes DEF ReaderTypes
  <2>3. hand[1] = h /\ pendingChunks \in Seq(Event)
    BY <1>0, <2>2, EventTypes
  <2>4. NoChunk(inbox)
    BY <2>1 DEF Ordered
  <2>5. \A u : Below(u, inbox)
    BY <2>4 DEF NoChunk, Below
  <2>6. UpTo(pendingChunks', sent)
    BY <2>1, <2>2, <2>3, AppendOrder DEF Ordered
  <2>7. Rising(pendingChunks) => Rising(pendingChunks')
    BY <2>1, <2>2, <2>3, AppendOrder DEF Ordered
  <2> QED
    BY <1>e, <2>1, <2>5, <2>6, <2>7, <2>4 DEF Ordered, Waiting
<1>14. CASE EmitStream
  <2>1. /\ UNCHANGED <<seen, pendingChunks, sent, startedStreams, started, jsPc>>
        /\ hand' = <<>> /\ reader \in {"direct", "kept"} /\ reader' \in {"reading", "done"}
        /\ IF reader = "direct" THEN inbox' = Append(inbox, hand[1]) ELSE inbox' = inbox
    BY <1>14 DEF EmitStream
  <2>2. CASE reader = "kept"
    BY <1>e, <2>1, <2>2 DEF Ordered, Waiting
  <2>3. CASE reader = "direct"
    <3>1. PICK h \in Event : hand = <<h>>
      BY <1>0, <2>1, EventTypes DEF ReaderTypes
    <3>2. inbox' = Append(inbox, h) /\ startedStreams
      BY <2>1, <2>3, <3>1 DEF Ordered
    <3>3. /\ Rising(inbox') /\ Below(seen, inbox') /\ UpTo(inbox', sent)
          /\ Below(pendingChunks, inbox) => Below(pendingChunks, inbox')
      BY <1>0, <3>1, <3>2, AppendOrder DEF Ordered
    <3> QED
      BY <1>e, <2>1, <3>2, <3>3 DEF Ordered, Waiting
  <2> QED
    BY <2>1, <2>2, <2>3
<1> QED
  BY <1>1, <1>2, <1>3, <1>4, <1>5, <1>6, <1>7, <1>8, <1>9, <1>10, <1>11, <1>12, <1>13, <1>14
     DEF Next, JavaScript, OkHttp, Reader

LEMMA OrderedIsInOrder == Typing /\ Ordered => InOrder
<1> SUFFICES ASSUME Typing, Ordered, NEW i \in DOMAIN seen, NEW j \in DOMAIN seen, i < j
             PROVE  seen[i].n < seen[j].n
  BY DEF InOrder
<1>1. seen \in Seq(Piece)
  BY DEF Typing, ReaderTypes
<1>2. seen[i] \in Piece /\ seen[j] \in Piece
  BY <1>1, LenProperties, ElementOfSeq
<1> QED
  BY <1>2, EventTypes DEF Ordered, Rising

\* A consumer sees the pieces of a body in the order they were read, none
\* twice.
THEOREM InOrderHolds == Spec => []InOrder
  BY TypingInit, TypingStep, ReachableInit, ReachableStep, OrderedInit, OrderedStep,
     OrderedIsInOrder, PTL DEF Spec
-----------------------------------------------------------------------------
(* No piece is lost while the body can still end as complete. *)

Numbers(s) == {s[i].n : i \in {j \in DOMAIN s : s[j].type = "chunk"}}

LEMMA NumbersAre ==
  ASSUME NEW s, NEW n
  PROVE  n \in Numbers(s) <=> \E i \in DOMAIN s : s[i].type = "chunk" /\ s[i].n = n
  BY DEF Numbers

LEMMA OneNumber ==
  ASSUME NEW e
  PROVE  Numbers(<<e>>) = (IF e.type = "chunk" THEN {e.n} ELSE {}) /\ Numbers(<<>>) = {}
<1>1. DOMAIN <<e>> = {1} /\ <<e>>[1] = e /\ DOMAIN <<>> = {}
  OBVIOUS
<1> DEFINE t == <<e>>
<1> HIDE DEF t
<1>2. Numbers(t) = (IF e.type = "chunk" THEN {e.n} ELSE {})
  <2>1. DOMAIN t = {1} /\ t[1] = e
    BY <1>1 DEF t
  <2>2. ASSUME NEW n PROVE n \in Numbers(t) <=> e.type = "chunk" /\ e.n = n
    BY <2>1, NumbersAre
  <2>3. CASE e.type = "chunk"
    BY <2>2, <2>3
  <2>4. CASE e.type # "chunk"
    BY <2>2, <2>4
  <2> QED
    BY <2>3, <2>4
<1>3. Numbers(<<>>) = {}
  BY <1>1, NumbersAre
<1> QED
  BY <1>2, <1>3 DEF t

LEMMA ConcatNumbers ==
  ASSUME NEW s \in Seq(Event), NEW t \in Seq(Event)
  PROVE  Numbers(s \o t) = Numbers(s) \cup Numbers(t)
<1> DEFINE u == s \o t
<1>1. /\ u \in Seq(Event) /\ Len(u) = Len(s) + Len(t)
      /\ \A i \in 1 .. Len(s) + Len(t) : u[i] = IF i <= Len(s) THEN s[i] ELSE t[i - Len(s)]
  BY ConcatProperties
<1>2. /\ Len(s) \in Nat /\ Len(t) \in Nat
      /\ DOMAIN s = 1 .. Len(s) /\ DOMAIN t = 1 .. Len(t) /\ DOMAIN u = 1 .. Len(s) + Len(t)
  BY <1>1, LenProperties
<1> HIDE DEF u
<1>3. ASSUME NEW i \in DOMAIN u
      PROVE  (i \in DOMAIN s /\ u[i] = s[i]) \/ (i - Len(s) \in DOMAIN t /\ u[i] = t[i - Len(s)])
  BY <1>1, <1>2
<1>4. ASSUME NEW i \in DOMAIN s PROVE i \in DOMAIN u /\ u[i] = s[i]
  BY <1>1, <1>2
<1>5. ASSUME NEW i \in DOMAIN t PROVE i + Len(s) \in DOMAIN u /\ u[i + Len(s)] = t[i]
  BY <1>1, <1>2
<1>6. Numbers(u) = Numbers(s) \cup Numbers(t)
  BY <1>3, <1>4, <1>5, NumbersAre
<1> QED
  BY <1>6 DEF u

LEMMA AppendNumbers ==
  ASSUME NEW s \in Seq(Event), NEW e \in Event
  PROVE  Numbers(Append(s, e)) = Numbers(s) \cup Numbers(<<e>>)
<1>1. Append(s, e) = s \o <<e>> /\ <<e>> \in Seq(Event)
  BY AppendIsConcat
<1> QED
  BY <1>1, ConcatNumbers

LEMMA TailNumbers ==
  ASSUME NEW s \in Seq(Event), s # <<>>
  PROVE  Numbers(s) = Numbers(<<Head(s)>>) \cup Numbers(Tail(s))
<1>1. Head(s) \in Event /\ Tail(s) \in Seq(Event) /\ s = <<Head(s)>> \o Tail(s)
  BY HeadTailProperties
<1>2. <<Head(s)>> \in Seq(Event)
  BY <1>1
<1> QED
  BY <1>1, <1>2, ConcatNumbers

LEMMA PrefixNumbers ==
  ASSUME NEW s \in Seq(Piece), NEW k \in DOMAIN s
  PROVE  Numbers(s) \subseteq Numbers(SubSeq(s, 1, k)) \cup {s[i].n : i \in k + 1 .. Len(s)}
<1> DEFINE p == SubSeq(s, 1, k)
<1>1. DOMAIN s = 1 .. Len(s) /\ Len(s) \in Nat /\ \A i \in 1 .. Len(s) : s[i] \in Piece
  BY LenProperties, ElementOfSeq
<1>2. Len(p) = k /\ (\A i \in 1 .. k : p[i] = s[i]) /\ DOMAIN p = 1 .. k
  <2>1. (\A i \in 1 .. k : s[i] \in Piece) /\ 1 \in Int /\ k \in Int /\ 1 <= k
    BY <1>1
  <2> QED
    BY <2>1, SubSeqProperties
<1> HIDE DEF p
<1>3. ASSUME NEW i \in DOMAIN s PROVE (i \in DOMAIN p /\ p[i] = s[i]) \/ i \in k + 1 .. Len(s)
  BY <1>1, <1>2
<1>4. Numbers(s) \subseteq Numbers(p) \cup {s[i].n : i \in k + 1 .. Len(s)}
  BY <1>3, NumbersAre
<1> QED
  BY <1>4 DEF p

\* While the body stream is open it listens, and streamStart runs to its end
\* before anything else happens to the stream.  The end of the body is the last
\* thing that the reader says.  Until then, every piece that was read is with
\* somebody.
Opening ==
  /\ readable = "none" => ~errored /\ ~subscribed /\ ~started
  /\ readable # "none" => phase = "ok"
  /\ readable = "open" /\ ~errored => subscribed
  /\ jsPc = "flushing" => Taking

EndIsLast ==
  /\ \A i \in DOMAIN inbox :
       inbox[i].type \in {"end", "error"} =>
         reader = "done" /\ \A j \in DOMAIN inbox : i < j => inbox[j].type # "chunk"
  /\ pendingEnd # "none" => reader = "done" /\ NoChunk(inbox)

Kept == torn \cup Numbers(seen) \cup Numbers(pendingChunks)

Whole ==
  /\ readable \in {"none", "open"} /\ ~errored =>
       1 .. sent \subseteq Kept \cup Numbers(inbox) \cup Numbers(hand)
  /\ readable = "ended" => reader = "done" /\ 1 .. sent \subseteq Kept

LEMMA OpeningInit == Init => Opening
  BY DEF Init, Opening, Taking

LEMMA OpeningStep == Typing /\ Opening /\ [Next]_vars => Opening'
<1> SUFFICES ASSUME Typing, Opening, [Next]_vars PROVE Opening'
  OBVIOUS
<1> USE DEF promiseVars, bodyVars, uploadVars, callVars, readerVars, mapVars,
            Opening, Taking
<1>0. Flags /\ JsTypes
  BY DEF Typing
<1>1. ASSUME UNCHANGED <<readable, errored, subscribed, started, jsPc>>,
             phase = "ok" => phase' = "ok"
      PROVE  Opening'
  BY <1>1
<1>2. CASE Send \/ Refused \/ Abort
  BY <1>0, <1>1, <1>2 DEF Send, Refused, Abort
<1>3. CASE Continue
  BY <1>0, <1>3 DEF Continue
<1>4. CASE OnEvent
  <2>1. /\ jsPc = "free" /\ UNCHANGED <<phase, jsPc, started>>
        /\ \/ UNCHANGED <<readable, errored, subscribed>>
           \/ subscribed /\ \E type \in {"end", "error"} : Finish(type)
           \/ subscribed /\ \E type : type # "end" /\ Finish(type)
    BY <1>4 DEF OnEvent, OnStream
  <2> QED
    BY <1>0, <2>1 DEF Finish, Close, Fail
<1>5. CASE Read
  BY <1>0, <1>5 DEF Read
<1>6. CASE CancelBody
  BY <1>6 DEF CancelBody
<1>7. CASE FlushChunks \/ FlushThrows
  BY <1>0, <1>7 DEF FlushChunks, FlushThrows, TakeList
<1>8. CASE FlushEnd
  BY <1>0, <1>8 DEF FlushEnd, Finish, Close, Fail
<1>9. CASE PumpChunk \/ PumpFails
  BY <1>1, <1>9 DEF PumpChunk, PumpFails
<1>10. CASE OkHttp
  BY <1>1, <1>10 DEF OkHttp, TakeUpload, CallFails, TimeOut, Headers, Announce, WholeBody, BodyCut
<1>11. CASE Reader
  BY <1>1, <1>11 DEF Reader, ReadNetwork, FindList, AddToList, EmitStream
<1>12. CASE UNCHANGED vars
  BY <1>1, <1>12 DEF vars
<1> QED
  BY <1>2, <1>3, <1>4, <1>5, <1>6, <1>7, <1>8, <1>9, <1>10, <1>11, <1>12
     DEF Next, JavaScript
LEMMA EndInit == Init => EndIsLast
  BY DEF Init, EndIsLast, NoChunk

\* Another event is posted: not the end while there may be more.
LEMMA AppendEnd ==
  ASSUME EndIsLast, NEW e \in Event, inbox \in Seq(Event), inbox' = Append(inbox, e),
         pendingEnd' = pendingEnd,
         \/ e.type \in {"response", "failure"} /\ reader' = reader
         \/ e.type = "chunk" /\ reader # "done"
         \/ e.type \in {"end", "error"} /\ reader # "done" /\ reader' = "done"
  PROVE  EndIsLast'
<1>1. /\ DOMAIN inbox = 1 .. Len(inbox) /\ DOMAIN inbox' = 1 .. Len(inbox) + 1
      /\ Len(inbox) \in Nat /\ inbox'[Len(inbox) + 1] = e
      /\ \A i \in 1 .. Len(inbox) : inbox'[i] = inbox[i]
  BY AppendProperties, LenProperties
<1>2. \A i \in DOMAIN inbox' : \/ i \in DOMAIN inbox /\ inbox'[i] = inbox[i]
                               \/ i = Len(inbox) + 1 /\ inbox'[i] = e
  BY <1>1
<1>3. ASSUME NEW i \in DOMAIN inbox', inbox'[i].type \in {"end", "error"}
      PROVE  reader' = "done" /\ \A j \in DOMAIN inbox' : i < j => inbox'[j].type # "chunk"
  <2>1. CASE i \in DOMAIN inbox /\ inbox'[i] = inbox[i]
    <3>1. reader = "done" /\ \A j \in DOMAIN inbox : i < j => inbox[j].type # "chunk"
      BY <1>3, <2>1 DEF EndIsLast
    <3>2. e.type # "chunk" /\ reader' = "done"
      BY <3>1
    <3> QED
      BY <1>2, <3>1, <3>2
  <2>2. CASE i = Len(inbox) + 1 /\ inbox'[i] = e
    <3>1. reader' = "done"
      BY <1>3, <2>2
    <3>2. \A j \in DOMAIN inbox' : ~(i < j)
      BY <1>1, <2>2
    <3> QED
      BY <3>1, <3>2
  <2> QED
    BY <1>2, <2>1, <2>2
<1>4. pendingEnd # "none" => reader = "done" /\ NoChunk(inbox)
  BY DEF EndIsLast
<1>5. pendingEnd' # "none" => reader' = "done" /\ NoChunk(inbox')
  <2> SUFFICES ASSUME pendingEnd' # "none" PROVE reader' = "done" /\ NoChunk(inbox')
    OBVIOUS
  <2>1. reader = "done" /\ NoChunk(inbox)
    BY <1>4
  <2>2. e.type # "chunk" /\ reader' = reader
    BY <2>1
  <2> QED
    BY <1>2, <2>1, <2>2 DEF NoChunk
<1> QED
  BY <1>3, <1>5 DEF EndIsLast

LEMMA EndStep == Typing /\ Reachable /\ Ordered /\ EndIsLast /\ [Next]_vars => EndIsLast'
<1> SUFFICES ASSUME Typing, Reachable, Ordered, EndIsLast, [Next]_vars PROVE EndIsLast'
  OBVIOUS
<1> USE DEF promiseVars, bodyVars, uploadVars, callVars, readerVars, mapVars
<1>0. /\ inbox \in Seq(Event) /\ ReaderTypes
      /\ \A k \in {"response", "failure"} : [type |-> k] \in Event /\ [type |-> k].type = k
  BY EventTypes DEF Typing, ReaderTypes
<1>1. ASSUME UNCHANGED inbox, pendingEnd' \in {pendingEnd, "none"},
             reader = "done" => reader' = "done"
      PROVE  EndIsLast'
  BY <1>1 DEF EndIsLast, NoChunk
<1>2. ASSUME NEW k \in {"response", "failure"}, Answer(k), UNCHANGED <<pendingEnd, reader>>
      PROVE  EndIsLast'
  <2> DEFINE e == [type |-> k]
  <2>1. e \in Event /\ e.type \in {"response", "failure"} /\ inbox' = Append(inbox, e)
    BY <1>0, <1>2 DEF Answer
  <2> HIDE DEF e
  <2> QED
    BY <1>0, <1>2, <2>1, AppendEnd
<1>3. CASE Send \/ Refused \/ Abort \/ Continue \/ CancelBody \/ PumpChunk \/ PumpFails \/ Read
  BY <1>1, <1>3 DEF Send, Refused, Abort, Continue, CancelBody, PumpChunk, PumpFails, Read
<1>4. CASE OnEvent
  <2>1. inbox # <<>> /\ inbox' = Tail(inbox) /\ UNCHANGED <<pendingEnd, reader>>
    BY <1>4 DEF OnEvent
  <2>2. /\ DOMAIN inbox = 1 .. Len(inbox) /\ DOMAIN inbox' = 1 .. Len(inbox) - 1
        /\ Len(inbox) \in Nat \ {0} /\ \A i \in DOMAIN inbox' : inbox'[i] = inbox[i + 1]
    BY <1>0, <2>1, HeadTailProperties, LenProperties
  <2>3. \A i \in DOMAIN inbox' : i + 1 \in DOMAIN inbox /\ inbox'[i] = inbox[i + 1]
    BY <2>2
  <2>4. \A i, j \in DOMAIN inbox' : i < j => i + 1 < j + 1
    BY <2>2
  <2> QED
    BY <2>1, <2>3, <2>4 DEF EndIsLast, NoChunk
<1>5. CASE FlushChunks \/ FlushThrows
  BY <1>1, <1>5 DEF FlushChunks, FlushThrows, TakeList
<1>6. CASE FlushEnd
  BY <1>1, <1>6 DEF FlushEnd
<1>7. CASE TakeUpload
  <2>1. UNCHANGED <<pendingEnd, reader>> /\ (Answer("failure") \/ UNCHANGED inbox)
    BY <1>7 DEF TakeUpload
  <2> QED
    BY <1>1, <1>2, <2>1
<1>8. CASE CallFails \/ Announce \/ WholeBody
  BY <1>2, <1>8 DEF CallFails, OnFailure, Announce, WholeBody
<1>9. CASE TimeOut \/ BodyCut
  BY <1>1, <1>9 DEF TimeOut, BodyCut
<1>10. CASE Headers
  <2>1. reader # "done" /\ UNCHANGED <<inbox, pendingEnd>>
    BY <1>10 DEF Headers, Reachable
  <2> QED
    BY <1>1, <2>1
<1>11. CASE ReadNetwork \/ FindList \/ AddToList
  <2>1. reader # "done" /\ UNCHANGED <<inbox, pendingEnd>>
    BY <1>11 DEF ReadNetwork, FindList, AddToList
  <2> QED
    BY <1>1, <2>1
<1>12. CASE EmitStream
  <2> DEFINE e == hand[1]
  <2>1. PICK h \in StreamEvent : hand = <<h>>
    BY <1>0, <1>12 DEF EmitStream, ReaderTypes
  <2>2. e = h /\ e \in Event /\ e.type \in {"chunk", "end", "error"}
    BY <2>1, EventTypes
  <2>3. reader # "done" /\ (e.type # "chunk" => reader' = "done")
    BY <1>12 DEF EmitStream
  <2>4. CASE reader = "direct"
    <3>1. inbox' = Append(inbox, e) /\ UNCHANGED pendingEnd
      BY <1>12, <2>4 DEF EmitStream
    <3> HIDE DEF e
    <3> QED
      BY <1>0, <2>2, <2>3, <3>1, AppendEnd
  <2>5. CASE reader # "direct"
    <3>1. UNCHANGED inbox /\ reader = "kept" /\ e.type # "chunk"
      BY <1>12, <2>5 DEF EmitStream
    <3>2. NoChunk(inbox)
      BY <3>1 DEF Ordered
    <3> QED
      BY <2>3, <3>1, <3>2 DEF EndIsLast, NoChunk
  <2> QED
    BY <2>4, <2>5
<1>13. CASE UNCHANGED vars
  BY <1>1, <1>13 DEF vars
<1> QED
  BY <1>3, <1>4, <1>5, <1>6, <1>7, <1>8, <1>9, <1>10, <1>11, <1>12, <1>13
     DEF Next, JavaScript, OkHttp, Reader
LEMMA WholeInit == Init => Whole
  BY DEF Init, Whole

\* Nothing moves but what is not a piece.
LEMMA WholeKept ==
  ASSUME Whole, UNCHANGED <<seen, pendingChunks, hand, torn, sent>>,
         Numbers(inbox') = Numbers(inbox), reader' = reader,
         \/ UNCHANGED <<readable, errored>>
         \/ readable' = "cancelled" \/ (errored' = TRUE /\ readable' = readable)
         \/ readable = "none" /\ ~errored /\ readable' = "open"
  PROVE  Whole'
  BY DEF Whole, Kept

LEMMA WholeStep ==
  Typing /\ Reachable /\ Ordered /\ Opening /\ EndIsLast /\ Whole /\ [Next]_vars => Whole'
<1> SUFFICES ASSUME Typing, Reachable, Ordered, Opening, EndIsLast, Whole, [Next]_vars
             PROVE  Whole'
  OBVIOUS
<1> USE DEF promiseVars, bodyVars, uploadVars, callVars, readerVars, mapVars
<1>0. /\ Flags /\ JsTypes /\ ReaderTypes
      /\ inbox \in Seq(Event) /\ seen \in Seq(Event) /\ pendingChunks \in Seq(Event)
      /\ hand \in Seq(Event) /\ pendingChunks \in Seq(Piece)
  <2>1. Seq(Piece) \subseteq Seq(Event)
    BY EventTypes, SeqMonotonic
  <2> QED
    BY <2>1 DEF Typing, ReaderTypes
<1>1. ASSUME NEW k \in {"response", "failure"}, Answer(k),
             UNCHANGED <<seen, pendingChunks, hand, torn, sent, reader, readable, errored>>
      PROVE  Whole'
  <2> DEFINE e == [type |-> k]
  <2>1. e \in Event /\ e.type # "chunk" /\ inbox' = Append(inbox, e)
    BY <1>1, EventTypes DEF Answer
  <2> HIDE DEF e
  <2>2. Numbers(inbox') = Numbers(inbox)
    <3>1. Numbers(<<e>>) = {}
      BY <2>1, OneNumber
    <3>2. Numbers(Append(inbox, e)) = Numbers(inbox) \cup Numbers(<<e>>)
      BY <1>0, <2>1, AppendNumbers
    <3> QED
      BY <2>1, <3>1, <3>2
  <2> QED
    BY <1>1, <2>2, WholeKept
<1>2. CASE Send \/ Refused \/ Abort \/ PumpChunk \/ PumpFails \/ Read \/ CancelBody
  BY <1>2, WholeKept DEF Send, Refused, Abort, PumpChunk, PumpFails, Read, CancelBody
<1>3. CASE Continue
  <2>1. \/ UNCHANGED <<readable, errored>>
        \/ readable = "none" /\ ~errored /\ readable' = "open"
    BY <1>0, <1>3 DEF Continue, Opening, JsTypes
  <2> QED
    BY <1>3, <2>1, WholeKept DEF Continue
<1>4. CASE OnEvent
  <2> DEFINE e == Head(inbox)
  <2>1. /\ inbox # <<>> /\ inbox' = Tail(inbox) /\ e \in Event
        /\ UNCHANGED <<pendingChunks, hand, torn, sent, reader>>
    BY <1>0, <1>4, HeadTailProperties DEF OnEvent
  <2>2. Numbers(inbox) = Numbers(<<e>>) \cup Numbers(inbox')
    BY <1>0, <2>1, TailNumbers
  <2>3. CASE e.type = "chunk"
    <3>1. OnStream(e) /\ e \in Piece
      BY <1>4, <2>1, <2>3, EventTypes DEF OnEvent
    <3>2. CASE Taking /\ subscribed
      <4>1. Enqueue(<<e>>) /\ UNCHANGED <<readable, errored>>
        BY <2>3, <3>1, <3>2 DEF OnStream
      <4>2. seen' = seen \o <<e>> /\ <<e>> \in Seq(Event)
        BY <2>1, <3>2, <4>1 DEF Enqueue
      <4>3. Numbers(seen') = Numbers(seen) \cup Numbers(<<e>>)
        BY <1>0, <4>2, ConcatNumbers
      <4> HIDE DEF e
      <4> QED
        BY <2>1, <2>2, <3>2, <4>1, <4>3 DEF Whole, Kept, Taking
    <3>3. CASE ~(Taking /\ subscribed)
      <4>1. /\ UNCHANGED <<readable, errored>>
            /\ seen' = seen
        BY <2>3, <3>1, <3>3 DEF OnStream, Enqueue
      <4>2. ~NoChunk(inbox)
        <5>1. 1 \in DOMAIN inbox /\ e = inbox[1]
          BY <1>0, <2>1, LenProperties
        <5> QED
          BY <2>3, <5>1 DEF NoChunk
      <4>3. ~(readable \in {"none", "open"} /\ ~errored)
        BY <3>3, <4>2 DEF Opening, Ordered, Taking
      <4> QED
        BY <2>1, <4>1, <4>3 DEF Whole, Kept
    <3> QED
      BY <3>2, <3>3
  <2>4. CASE e.type # "chunk"
    <3>1. Numbers(inbox') = Numbers(inbox) /\ seen' = seen
      <4>1. Numbers(<<e>>) = {}
        BY <2>4, OneNumber
      <4>2. seen' = seen
        BY <1>4, <2>4 DEF OnEvent, OnStream, Finish
      <4> QED
        BY <2>2, <4>1, <4>2
    <3>2. CASE readable' = "ended" /\ readable # "ended"
      <4>1. e.type = "end" /\ Taking
        BY <1>4, <2>4, <3>2 DEF OnEvent, OnStream, Finish, Close, Fail
      <4>2. 1 \in DOMAIN inbox /\ e = inbox[1] /\ DOMAIN inbox = 1 .. Len(inbox) /\ Len(inbox) \in Nat
        BY <1>0, <2>1, LenProperties
      <4>3. reader = "done" /\ NoChunk(inbox)
        <5>1. reader = "done" /\ \A j \in DOMAIN inbox : 1 < j => inbox[j].type # "chunk"
          BY <4>1, <4>2 DEF EndIsLast
        <5>2. \A j \in DOMAIN inbox : j = 1 \/ 1 < j
          BY <4>2
        <5> QED
          BY <2>4, <4>2, <5>1, <5>2 DEF NoChunk
      <4>4. Numbers(inbox) = {} /\ Numbers(hand) = {}
        BY <4>3, NumbersAre, OneNumber DEF NoChunk, Ordered
      <4> QED
        BY <2>1, <3>1, <3>2, <4>1, <4>3, <4>4 DEF Whole, Kept, Taking
    <3>3. CASE ~(readable' = "ended" /\ readable # "ended")
      <4>1. \/ UNCHANGED <<readable, errored>>
            \/ errored' = TRUE /\ readable' = readable
        BY <1>4, <2>4, <3>3 DEF OnEvent, OnStream, Finish, Close, Fail
      <4> QED
        BY <2>1, <3>1, <4>1, WholeKept
    <3> QED
      BY <3>2, <3>3
  <2> QED
    BY <2>3, <2>4
<1>5. ASSUME TakeList, NEW chunks \in Seq(Piece), Emitted(chunks),
             \/ UNCHANGED <<torn, hand>> /\ chunks = pendingChunks
             \/ /\ hand' = <<>> /\ torn \subseteq torn'
                /\ Numbers(pendingChunks) \subseteq Numbers(chunks) \cup torn'
                /\ Numbers(hand) \subseteq torn'
      PROVE  Whole'
  <2>1. /\ UNCHANGED <<inbox, readable, errored, sent>> /\ readable = "open" /\ ~errored
        /\ pendingChunks' = <<>> /\ subscribed
    BY <1>5 DEF TakeList, Opening, Taking
  <2>2. seen' = seen \o chunks
    BY <1>5, <2>1 DEF Emitted, Enqueue, Taking
  <2>3. Numbers(seen') = Numbers(seen) \cup Numbers(chunks)
    <3>1. chunks \in Seq(Event)
      BY <1>5, EventTypes, SeqMonotonic
    <3> QED
      BY <1>0, <2>2, <3>1, ConcatNumbers
  <2>4. Numbers(pendingChunks') = {} /\ Numbers(<<>>) = {}
    BY <2>1, OneNumber
  <2> QED
    BY <1>5, <2>1, <2>3, <2>4 DEF Whole, Kept
<1>6. CASE FlushChunks
  BY <1>0, <1>5, <1>6 DEF FlushChunks
<1>7. CASE FlushThrows
  <2>1. TakeList /\ reader = "adding" /\ hand' = <<>>
    BY <1>7 DEF FlushThrows
  <2>2. PICK k \in DOMAIN pendingChunks :
          /\ Emitted(SubSeq(pendingChunks, 1, k))
          /\ torn' = torn \cup {pendingChunks[i].n : i \in k + 1 .. Len(pendingChunks)}
                          \cup {hand[1].n}
    BY <1>7 DEF FlushThrows
  <2> DEFINE p == SubSeq(pendingChunks, 1, k)
             tail == {pendingChunks[i].n : i \in k + 1 .. Len(pendingChunks)}
  <2>3. p \in Seq(Piece)
    BY <1>0, PrefixOrder
  <2>4. Numbers(pendingChunks) \subseteq Numbers(p) \cup tail
    BY <1>0, PrefixNumbers
  <2>5. Numbers(hand) \subseteq {hand[1].n}
    <3>1. PICK h : hand = <<h>>
      BY <1>0, <2>1 DEF ReaderTypes
    <3>2. Numbers(<<h>>) \subseteq {h.n}
      BY OneNumber
    <3> QED
      BY <3>1, <3>2
  <2>6. torn' = torn \cup tail \cup {hand[1].n} /\ Emitted(p)
    BY <2>2
  <2> HIDE DEF p, tail
  <2> QED
    BY <1>5, <2>1, <2>3, <2>4, <2>5, <2>6
<1>8. CASE FlushEnd
  <2>1. UNCHANGED <<seen, inbox, pendingChunks, hand, torn, sent, reader>>
    BY <1>8 DEF FlushEnd, Finish
  <2>2. CASE readable' = "ended" /\ readable # "ended"
    <3>1. pendingEnd # "none" /\ Taking
      BY <1>8, <2>2 DEF FlushEnd, Finish, Close, Fail
    <3>2. reader = "done" /\ NoChunk(inbox)
      BY <3>1 DEF EndIsLast
    <3>3. Numbers(inbox) = {} /\ Numbers(hand) = {}
      BY <3>2, NumbersAre, OneNumber DEF NoChunk, Ordered
    <3> QED
      BY <2>1, <2>2, <3>1, <3>2, <3>3 DEF Whole, Kept, Taking
  <2>3. CASE ~(readable' = "ended" /\ readable # "ended")
    <3>1. \/ UNCHANGED <<readable, errored>>
          \/ errored' = TRUE /\ readable' = readable
      BY <1>8, <2>3 DEF FlushEnd, Finish, Close, Fail
    <3> QED
      BY <2>1, <3>1, WholeKept
  <2> QED
    BY <2>2, <2>3
<1>9. CASE TakeUpload
  <2>1. /\ UNCHANGED <<seen, pendingChunks, hand, torn, sent, reader, readable, errored>>
        /\ Answer("failure") \/ UNCHANGED inbox
    BY <1>9 DEF TakeUpload
  <2> QED
    BY <1>1, <2>1, WholeKept
<1>10. CASE CallFails \/ Announce \/ WholeBody
  BY <1>1, <1>10 DEF CallFails, OnFailure, Announce, WholeBody
<1>11. CASE TimeOut \/ BodyCut
  BY <1>11, WholeKept DEF TimeOut, BodyCut
<1>12. CASE Headers
  <2>1. /\ UNCHANGED <<seen, inbox, pendingChunks, hand, torn, sent, readable, errored>>
        /\ reader # "done"
    BY <1>12 DEF Headers, Reachable
  <2> QED
    BY <2>1 DEF Whole, Kept
<1>13. CASE ReadNetwork
  <2>1. /\ reader = "reading" /\ hand = <<>>
        /\ UNCHANGED <<seen, inbox, pendingChunks, torn, readable, errored>>
    BY <1>13 DEF ReadNetwork, Ordered
  <2>2. PICK e : /\ hand' = <<e>>
                 /\ \/ sent' = sent + 1 /\ e.type = "chunk" /\ e.n = sent + 1
                    \/ sent' = sent
    BY <1>13 DEF ReadNetwork, Look
  <2>3. 1 .. sent' \subseteq 1 .. sent \cup Numbers(hand')
    <3>1. CASE sent' = sent + 1 /\ e.type = "chunk" /\ e.n = sent + 1
      <4>1. Numbers(hand') = {sent + 1}
        BY <2>2, <3>1, OneNumber
      <4>2. 1 .. sent + 1 = 1 .. sent \cup {sent + 1}
        BY <1>0 DEF ReaderTypes
      <4> QED
        BY <3>1, <4>1, <4>2
    <3>2. CASE sent' = sent
      BY <3>2
    <3> QED
      BY <2>2, <3>1, <3>2
  <2>4. Numbers(hand) = {}
    BY <2>1, OneNumber
  <2> QED
    BY <2>1, <2>3, <2>4 DEF Whole, Kept
<1>14. CASE FindList
  <2>1. /\ UNCHANGED <<seen, inbox, pendingChunks, hand, torn, sent, readable, errored>>
        /\ reader # "done"
    BY <1>14 DEF FindList
  <2> QED
    BY <2>1 DEF Whole, Kept
<1>15. CASE AddToList \/ EmitStream
  <2> DEFINE e == hand[1]
  <2>1. PICK h \in StreamEvent : hand = <<h>>
    BY <1>0, <1>15 DEF AddToList, EmitStream, ReaderTypes
  <2>2. e = h /\ e \in Event /\ hand = <<e>>
    BY <2>1, EventTypes
  <2>3. /\ UNCHANGED <<seen, sent, readable, errored>> /\ hand' = <<>> /\ reader # "done"
        /\ \/ pendingChunks' = Append(pendingChunks, e) /\ UNCHANGED <<inbox, torn>>
           \/ torn' = torn \cup {e.n} /\ UNCHANGED <<inbox, pendingChunks>>
           \/ inbox' = Append(inbox, e) /\ UNCHANGED <<torn, pendingChunks>>
           \/ e.type # "chunk" /\ UNCHANGED <<inbox, torn, pendingChunks>>
    BY <1>15 DEF AddToList, EmitStream
  <2> HIDE DEF e
  <2>4. /\ Numbers(pendingChunks) \subseteq Numbers(pendingChunks')
        /\ Numbers(inbox) \subseteq Numbers(inbox') /\ torn \subseteq torn'
        /\ Numbers(hand) \subseteq Numbers(pendingChunks') \cup Numbers(inbox') \cup torn'
    <3>1. Numbers(hand) = (IF e.type = "chunk" THEN {e.n} ELSE {})
      BY <2>2, OneNumber
    <3>2. /\ Numbers(Append(inbox, e)) = Numbers(inbox) \cup Numbers(hand)
          /\ Numbers(Append(pendingChunks, e)) = Numbers(pendingChunks) \cup Numbers(hand)
      BY <1>0, <2>2, AppendNumbers
    <3> QED
      BY <2>3, <3>1, <3>2
  <2> QED
    BY <2>3, <2>4 DEF Whole, Kept
<1>16. CASE UNCHANGED vars
  BY <1>16, WholeKept DEF vars
<1> QED
  BY <1>2, <1>3, <1>4, <1>6, <1>7, <1>8, <1>9, <1>10, <1>11, <1>12, <1>13, <1>14, <1>15, <1>16
     DEF Next, JavaScript, OkHttp, Reader

LEMMA WholeIsNothingMissing == Typing /\ Whole => NothingMissing
<1> SUFFICES ASSUME Typing, Whole, readable = "ended", NEW n \in 1 .. sent, n \notin torn
             PROVE  \E i \in DOMAIN (seen \o pendingChunks) : (seen \o pendingChunks)[i].n = n
  BY DEF NothingMissing
<1> DEFINE s == seen \o pendingChunks
<1>1. seen \in Seq(Event) /\ pendingChunks \in Seq(Event)
  <2>1. Seq(Piece) \subseteq Seq(Event)
    BY EventTypes, SeqMonotonic
  <2> QED
    BY <2>1 DEF Typing, ReaderTypes
<1>2. n \in Numbers(seen) \cup Numbers(pendingChunks)
  BY DEF Whole, Kept
<1>3. n \in Numbers(s)
  BY <1>1, <1>2, ConcatNumbers
<1> HIDE DEF s
<1>4. \E i \in DOMAIN s : s[i].n = n
  BY <1>3, NumbersAre
<1> QED
  BY <1>4 DEF s

\* A body that ends as complete lacks nothing but what the native side still
\* keeps or tore while streamStart ran, whatever the interleaving of the reader
\* thread with streamStart, for any number of pieces.
THEOREM NothingMissingHolds == Spec => []NothingMissing
  BY TypingInit, TypingStep, ReachableInit, ReachableStep, OrderedInit, OrderedStep,
     OpeningInit, OpeningStep, EndInit, EndStep, WholeInit, WholeStep,
     WholeIsNothingMissing, PTL DEF Spec
================================================================================
