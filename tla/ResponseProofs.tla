--------------------------- MODULE ResponseProofs ---------------------------
(***************************************************************************)
(* What RecordedResponse.cfg and WafPipeline.cfg show of small bodies and  *)
(* rule sets, for every limit, any rules and reloads, and bodies of every  *)
(* length: first where the bytes of a response are, whatever               *)
(* responseRecorder is asked to do; then one response on its way through   *)
(* the recorder; then the request whose rules decide about it.             *)
(***************************************************************************)
EXTENDS WafPipeline, RecordedResponse, SequenceTheorems, DataLemmas

(* The recorder.  The bytes are held in the buffer, all of them and none   *)
(* on the wire, or, once the recorder is a pass-through, they are on the   *)
(* wire, all of them unless the client has gone.                           *)
ContentType == {"none", "plain", "custom", "upstream"}

(* The recorders of bodies over Octet that are given the statuses in Code.  *)
Recorders(Octet, Code) ==
  [header : ContentType,
   status : Code \cup {Unset, OK},
   sentHeader : ContentType,
   wire : Seq(Octet), gone : BOOLEAN,
   statusCode : Code \cup {Unset, OK},
   written : BOOLEAN, passthrough : BOOLEAN, partial : BOOLEAN,
   body : Seq(Octet)]

(* Of a recorder that was made to inspected the response, or not, and has    *)
(* been sent these bytes.                                                  *)
Whereabouts(o, sent, inspected) ==
  /\ o.written => o.statusCode # Unset
  /\ Len(o.body) <= limit
  /\ ~o.passthrough => o.wire = <<>> /\ o.body = sent
  /\ (o.passthrough /\ ~o.gone) => o.wire = sent
  /\ (inspected /\ o.passthrough) => o.partial
-----------------------------------------------------------------------------
LEMMA LimitPositive == limit \in Nat \ {0}
  BY ResponseRecorderAssumption DEF limit

(* What the client's side leaves alone in the recorder. *)
SameRecorder(p, o) ==
  /\ p.gone = o.gone /\ p.statusCode = o.statusCode /\ p.written = o.written
  /\ p.passthrough = o.passthrough /\ p.partial = o.partial /\ p.body = o.body

LEMMA ClientHeaderResult ==
  ASSUME NEW Octet, NEW Code, NEW o \in Recorders(Octet, Code),
         NEW code \in Code \cup {OK}
  PROVE  /\ ClientHeader(o, code) \in Recorders(Octet, Code)
         /\ ClientHeader(o, code).wire = o.wire
         /\ SameRecorder(ClientHeader(o, code), o)
<1>1. CASE o.status = Unset
  <2>1. ClientHeader(o, code) =
          [o EXCEPT !.status = code, !.sentHeader = o.header]
    BY <1>1 DEF ClientHeader
  <2> QED BY <2>1 DEF Recorders, SameRecorder
<1>2. CASE o.status # Unset
  BY <1>2 DEF ClientHeader, SameRecorder
<1> QED BY <1>1, <1>2

(* The client's side adds bytes at the end of the wire, and only there.    *)
LEMMA ClientWriteResult ==
  ASSUME NEW Octet, NEW Code, NEW o \in Recorders(Octet, Code),
         NEW bytes \in Seq(Octet)
  PROVE  /\ ClientWrite(o, bytes) \in Recorders(Octet, Code)
         /\ ClientWrite(o, bytes).wire =
              IF o.gone THEN o.wire ELSE o.wire \o bytes
         /\ SameRecorder(ClientWrite(o, bytes), o)
<1> DEFINE h == ClientHeader(o, OK)
<1>1. h \in Recorders(Octet, Code) /\ h.wire = o.wire /\ SameRecorder(h, o)
  BY ClientHeaderResult
<1>2. ClientWrite(o, bytes) =
        [h EXCEPT !.wire = IF o.gone THEN h.wire ELSE h.wire \o bytes]
  BY <1>1 DEF ClientWrite, Recorders
<1> HIDE DEF h
<1>3. (IF o.gone THEN h.wire ELSE h.wire \o bytes) \in Seq(Octet)
  BY <1>1 DEF Recorders
<1> QED BY <1>1, <1>2, <1>3 DEF SameRecorder, Recorders

(* What release makes of a recorder. *)
IsRelease(p, o) ==
  /\ p.passthrough = TRUE /\ p.partial = TRUE
  /\ p.gone = o.gone /\ p.statusCode = o.statusCode /\ p.written = o.written
  /\ p.body = o.body /\ p.wire = IF o.gone THEN o.wire ELSE o.wire \o o.body

LEMMA ReleaseResult ==
  ASSUME NEW Octet, NEW Code, NEW o \in Recorders(Octet, Code)
  PROVE  Release(o) \in Recorders(Octet, Code) /\ IsRelease(Release(o), o)
<1>1. /\ Released(o) \in Recorders(Octet, Code)
      /\ Released(o).passthrough = TRUE /\ Released(o).partial = TRUE
      /\ Released(o).body = o.body /\ Released(o).gone = o.gone
      /\ Released(o).statusCode = o.statusCode
      /\ Released(o).written = o.written
      /\ Released(o).wire = o.wire
  BY DEF Released, Recorders
<1>2. o.body \in Seq(Octet) /\ o.wire \in Seq(Octet)
  BY DEF Recorders
<1>3. CASE o.body = <<>>
  <2>1. o.wire \o o.body = o.wire
    BY <1>2, <1>3, ConcatEmptySeq
  <2> QED BY <1>1, <1>3, <2>1 DEF Release, IsRelease
<1>4. CASE o.body # <<>>
  BY <1>1, <1>2, <1>4, ClientWriteResult DEF Release, SameRecorder, IsRelease
<1> QED BY <1>3, <1>4

LEMMA WriteHeaderResult ==
  ASSUME NEW Octet, NEW Code, NEW o \in Recorders(Octet, Code),
         NEW code \in Code \cup {OK}
  PROVE  LET h == WriteHeader(o, code)
         IN  /\ h \in Recorders(Octet, Code) /\ h.statusCode = code
             /\ h.wire = o.wire /\ h.gone = o.gone /\ h.written = o.written
             /\ h.passthrough = o.passthrough /\ h.partial = o.partial
             /\ h.body = o.body
<1> DEFINE k == [o EXCEPT !.statusCode = code]
<1>1. /\ k \in Recorders(Octet, Code) /\ k.statusCode = code
      /\ k.wire = o.wire /\ k.gone = o.gone /\ k.written = o.written
      /\ k.passthrough = o.passthrough
      /\ k.partial = o.partial /\ k.body = o.body
  BY DEF Recorders
<1>2. WriteHeader(o, code) = ClientHeader(k, code)
  BY DEF WriteHeader
<1> HIDE DEF k
<1> QED BY <1>1, <1>2, ClientHeaderResult DEF SameRecorder

LEMMA DefaultHeaderResult ==
  ASSUME NEW Octet, NEW Code, NEW o \in Recorders(Octet, Code),
         o.written => o.statusCode # Unset
  PROVE  LET h == [DefaultHeader(o) EXCEPT !.written = TRUE]
         IN  /\ h \in Recorders(Octet, Code)
             /\ h.written /\ h.statusCode # Unset
             /\ h.wire = o.wire /\ h.gone = o.gone
             /\ h.passthrough = o.passthrough /\ h.partial = o.partial
             /\ h.body = o.body
<1> DEFINE k == DefaultHeader(o)
<1>1. /\ k \in Recorders(Octet, Code) /\ k.statusCode # Unset
      /\ k.wire = o.wire /\ k.gone = o.gone
      /\ k.passthrough = o.passthrough
      /\ k.partial = o.partial /\ k.body = o.body
  BY WriteHeaderResult DEF DefaultHeader, OK, Unset
<1> HIDE DEF k
<1>2. /\ [k EXCEPT !.written = TRUE] \in Recorders(Octet, Code)
      /\ [k EXCEPT !.written = TRUE].written
      /\ [k EXCEPT !.written = TRUE].statusCode = k.statusCode
      /\ [k EXCEPT !.written = TRUE].wire = k.wire
      /\ [k EXCEPT !.written = TRUE].gone = k.gone
      /\ [k EXCEPT !.written = TRUE].passthrough = k.passthrough
      /\ [k EXCEPT !.written = TRUE].partial = k.partial
      /\ [k EXCEPT !.written = TRUE].body = k.body
  BY <1>1 DEF Recorders
<1> QED BY <1>1, <1>2 DEF k
-----------------------------------------------------------------------------
(* Write and Flush keep the bytes where Whereabouts says.                  *)
LEMMA WriteKeeps ==
  ASSUME NEW Octet, NEW Code, NEW o \in Recorders(Octet, Code),
         NEW bytes \in Seq(Octet), NEW sent \in Seq(Octet), NEW inspected,
         Whereabouts(o, sent, inspected)
  PROVE  /\ Write(o, bytes) \in Recorders(Octet, Code)
         /\ Whereabouts(Write(o, bytes), sent \o bytes, inspected)
         /\ Write(o, bytes).gone = o.gone
         /\ o.passthrough => Write(o, bytes).passthrough
         /\ ~o.passthrough /\ Fits(o, bytes) => Write(o, bytes).wire = <<>>
<1> DEFINE h == [DefaultHeader(o) EXCEPT !.written = TRUE]
<1>1. /\ h \in Recorders(Octet, Code) /\ h.written /\ h.statusCode # Unset
      /\ h.wire = o.wire /\ h.gone = o.gone /\ h.passthrough = o.passthrough
      /\ h.partial = o.partial /\ h.body = o.body
  BY DefaultHeaderResult DEF Whereabouts
<1>2. Whereabouts(h, sent, inspected)
  BY <1>1 DEF Whereabouts
<1> HIDE DEF h
<1>3. /\ sent \o bytes \in Seq(Octet)
      /\ bytes \in Seq(Octet) /\ h.body \in Seq(Octet)
  BY <1>1 DEF Recorders
<1>4. Fits(h, bytes) <=> Fits(o, bytes)
  BY <1>1 DEF Fits
<1>5. CASE h.passthrough
  <2>1. Write(o, bytes) = ClientWrite(h, bytes)
    BY <1>5 DEF Write, h
  <2>2. /\ Write(o, bytes) \in Recorders(Octet, Code)
        /\ Write(o, bytes).wire = IF h.gone THEN h.wire ELSE h.wire \o bytes
        /\ SameRecorder(Write(o, bytes), h)
    BY <1>1, <1>3, <2>1, ClientWriteResult
  <2> QED BY <1>1, <1>2, <1>5, <2>2 DEF Whereabouts, SameRecorder
<1>6. CASE ~h.passthrough /\ Fits(h, bytes)
  <2>1. Write(o, bytes) = [h EXCEPT !.body = @ \o bytes]
    BY <1>6 DEF Write, h
  <2>2. Len(h.body \o bytes) <= limit /\ h.body \o bytes \in Seq(Octet)
    BY <1>3, <1>6, ConcatProperties DEF Fits
  <2> QED BY <1>1, <1>2, <1>6, <2>1, <2>2 DEF Whereabouts, Recorders
<1>7. CASE ~h.passthrough /\ ~Fits(h, bytes)
  <2>1. Write(o, bytes) = ClientWrite(Release(h), bytes)
    BY <1>7 DEF Write, h
  <2>2. h.wire = <<>> /\ h.body = sent
    BY <1>2, <1>7 DEF Whereabouts
  <2>3. h.wire \o h.body = sent
    BY <2>2, ConcatEmptySeq
  <2>4. Release(h) \in Recorders(Octet, Code) /\ IsRelease(Release(h), h)
    BY <1>1, ReleaseResult
  <2>5. /\ Write(o, bytes) \in Recorders(Octet, Code)
        /\ Write(o, bytes).wire = IF Release(h).gone THEN Release(h).wire
                                  ELSE Release(h).wire \o bytes
        /\ SameRecorder(Write(o, bytes), Release(h))
    BY <1>3, <2>1, <2>4, ClientWriteResult
  <2>6. /\ Write(o, bytes).wire = IF h.gone THEN h.wire ELSE sent \o bytes
        /\ Write(o, bytes).passthrough = TRUE /\ Write(o, bytes).partial = TRUE
        /\ Write(o, bytes).body = h.body /\ Write(o, bytes).gone = h.gone
        /\ Write(o, bytes).statusCode = h.statusCode
    BY <2>3, <2>4, <2>5 DEF SameRecorder, IsRelease
  <2> QED BY <1>1, <1>2, <1>7, <1>4, <2>5, <2>6 DEF Whereabouts
<1> QED BY <1>1, <1>5, <1>6, <1>7

LEMMA FlushKeeps ==
  ASSUME NEW Octet, NEW Code, NEW o \in Recorders(Octet, Code),
         NEW sent \in Seq(Octet), NEW inspected, Whereabouts(o, sent, inspected)
  PROVE  /\ Flush(o) \in Recorders(Octet, Code)
         /\ Whereabouts(Flush(o), sent, inspected)
         /\ ~o.gone => Flush(o).wire = sent
         /\ Flush(o).gone = o.gone
<1> DEFINE h == IF o.passthrough THEN o ELSE Release(o)
<1>1. /\ h \in Recorders(Octet, Code) /\ Whereabouts(h, sent, inspected)
      /\ (~o.gone => h.wire = sent) /\ h.gone = o.gone
  <2>1. CASE o.passthrough
    BY <2>1 DEF Whereabouts
  <2>2. CASE ~o.passthrough
    <3>1. o.wire \o o.body = sent
      BY <2>2, ConcatEmptySeq DEF Whereabouts
    <3>2. Release(o) \in Recorders(Octet, Code) /\ IsRelease(Release(o), o)
      BY ReleaseResult
    <3> QED BY <2>2, <3>1, <3>2 DEF Whereabouts, IsRelease
  <2> QED BY <2>1, <2>2
<1> HIDE DEF h
<1>2. Flush(o) = ClientHeader(h, OK)
  BY DEF Flush, h
<1>3. /\ ClientHeader(h, OK) \in Recorders(Octet, Code)
      /\ ClientHeader(h, OK).wire = h.wire
      /\ SameRecorder(ClientHeader(h, OK), h)
  BY <1>1, ClientHeaderResult
<1> QED BY <1>1, <1>2, <1>3 DEF Whereabouts, SameRecorder

LEMMA SetHeaderResult ==
  ASSUME NEW Octet, NEW Code, NEW o \in Recorders(Octet, Code),
         NEW type \in ContentType
  PROVE  /\ SetHeader(o, type) \in Recorders(Octet, Code)
         /\ SetHeader(o, type).wire = o.wire
         /\ SameRecorder(SetHeader(o, type), o)
BY DEF SetHeader, Recorders, SameRecorder

LEMMA HeaderKeeps ==
  ASSUME NEW Octet, NEW Code, NEW o \in Recorders(Octet, Code),
         NEW sent \in Seq(Octet), NEW inspected, NEW type \in ContentType,
         NEW code \in Code, code # Unset,
         Whereabouts(o, sent, inspected)
  PROVE  /\ WriteHeader(SetHeader(o, type), code) \in Recorders(Octet, Code)
         /\ Whereabouts(WriteHeader(SetHeader(o, type), code), sent, inspected)
         /\ WriteHeader(SetHeader(o, type), code).wire = o.wire
         /\ WriteHeader(SetHeader(o, type), code).gone = o.gone
         /\ WriteHeader(SetHeader(o, type), code).passthrough = o.passthrough
<1>1. /\ SetHeader(o, type) \in Recorders(Octet, Code)
      /\ SetHeader(o, type).wire = o.wire
      /\ SameRecorder(SetHeader(o, type), o)
  BY SetHeaderResult
<1> QED BY <1>1, WriteHeaderResult DEF Whereabouts, SameRecorder
-----------------------------------------------------------------------------
(* A new recorder has been sent nothing. *)
LEMMA NewRecorderResult ==
  ASSUME NEW Octet, NEW Code, NEW inspected \in BOOLEAN
  PROVE  /\ NewRecorder(inspected) \in Recorders(Octet, Code)
         /\ Whereabouts(NewRecorder(inspected), <<>>, inspected)
<1>1. <<>> \in Seq(Octet) /\ Len(<<>>) = 0
  BY EmptySeq
<1> DEFINE o == NewRecorder(inspected)
<1>2. o \in Recorders(Octet, Code)
  BY <1>1 DEF NewRecorder, Recorders, Unset, ContentType
<1>3. /\ o.written = FALSE /\ o.body = <<>> /\ o.wire = <<>>
      /\ o.passthrough = ~inspected
  BY DEF NewRecorder
<1>4. Len(o.body) <= limit
  BY <1>1, <1>3, LimitPositive
<1> QED BY <1>2, <1>3, <1>4 DEF Whereabouts

(* copyResponse sends what is still held. *)
LEMMA CopyResult ==
  ASSUME NEW Octet, NEW Code, NEW o \in Recorders(Octet, Code),
         NEW sent \in Seq(Octet), NEW inspected, Whereabouts(o, sent, inspected)
  PROVE  /\ CopyResponse(o) \in Recorders(Octet, Code)
         /\ SameRecorder(CopyResponse(o), o)
         /\ CopyResponse(o).wire = IF o.gone THEN o.wire ELSE sent
<1>1. CASE o.passthrough
  BY <1>1 DEF CopyResponse, SameRecorder, Whereabouts
<1>2. CASE ~o.passthrough
  <2>1. CopyResponse(o) = ClientWrite(o, o.body) /\ o.body \in Seq(Octet)
    BY <1>2 DEF CopyResponse, Recorders
  <2>2. o.wire \o o.body = sent
    BY <1>2, ConcatEmptySeq DEF Whereabouts
  <2> QED BY <2>1, <2>2, ClientWriteResult
<1> QED BY <1>1, <1>2
-----------------------------------------------------------------------------
(* One response: RecordedResponse. *)

RecordedInv ==
  /\ upstreamBody \in Seq(Byte)
  /\ stage \in {"upstream", "returned", "whole", "cut"}
  /\ recorder \in Recorders(Byte, StatusCode)
  /\ Len(recorder.body) <= limit
  /\ recorder.written => recorder.statusCode # Unset
  /\ (Inspect /\ recorder.passthrough) => recorder.partial
  /\ stage \in {"upstream", "returned"} => Whereabouts(recorder, upstreamBody, Inspect)
-----------------------------------------------------------------------------
LEMMA InitRecordedInv == RecordedInit => RecordedInv
<1> SUFFICES ASSUME RecordedInit PROVE RecordedInv
  OBVIOUS
<1>1. /\ recorder \in Recorders(Byte, StatusCode)
      /\ Whereabouts(recorder, upstreamBody, Inspect)
  BY NewRecorderResult, RecordedResponseAssumption DEF RecordedInit
<1> QED BY <1>1, EmptySeq DEF RecordedInit, RecordedInv, Whereabouts

LEMMA NextRecordedInv == RecordedInv /\ [RecordedNext]_recordedVars => RecordedInv'
<1> SUFFICES ASSUME RecordedInv, [RecordedNext]_recordedVars PROVE RecordedInv'
  OBVIOUS
<1>1. ASSUME NEW code \in StatusCode, UpstreamHeader(code) PROVE RecordedInv'
  BY <1>1, HeaderKeeps, RecordedResponseAssumption
     DEF RecordedInv, UpstreamHeader, Whereabouts, ContentType
<1>2. ASSUME NEW bytes \in Writes, UpstreamWrite(bytes) PROVE RecordedInv'
  <2>1. bytes \in Seq(Byte)
    BY RecordedResponseAssumption
  <2>2. /\ recorder' \in Recorders(Byte, StatusCode)
        /\ Whereabouts(recorder', upstreamBody', Inspect) /\ upstreamBody' \in Seq(Byte)
    BY <1>2, <2>1, WriteKeeps DEF RecordedInv, UpstreamWrite
  <2> QED BY <1>2, <2>2 DEF RecordedInv, UpstreamWrite, Whereabouts
<1>3. CASE UpstreamFlush
  BY <1>3, FlushKeeps DEF RecordedInv, UpstreamFlush, Whereabouts
<1>4. CASE ClientLeaves
  BY <1>4 DEF RecordedInv, ClientLeaves, Whereabouts, Recorders
<1>5. CASE UpstreamDone
  BY <1>5 DEF RecordedInv, UpstreamDone, Whereabouts
<1>6. CASE Deliver
  BY <1>6, CopyResult DEF RecordedInv, Deliver, SameRecorder
<1>7. CASE Discard
  BY <1>7 DEF RecordedInv, Discard
<1>8. CASE UNCHANGED recordedVars
  BY <1>8 DEF RecordedInv, recordedVars, Whereabouts
<1> QED BY <1>1, <1>2, <1>3, <1>4, <1>5, <1>6, <1>7, <1>8 DEF RecordedNext

LEMMA RecordedInvariance == RecordedSpec => []RecordedInv
  BY InitRecordedInv, NextRecordedInv, PTL DEF RecordedSpec

(* The recorder's fields and the client's view stay in their ranges        *)
(* through every Write, WriteHeader and Flush of response.go.              *)
THEOREM RecorderTypeCorrect == RecordedSpec => []RecordedTypeOK
<1>1. RecordedInv => RecordedTypeOK
  BY DEF RecordedInv, RecordedTypeOK, Recorders
<1> QED BY <1>1, RecordedInvariance, PTL

(* responseRecorder never holds more than max_response_body_size bytes.    *)
THEOREM NeverHoldsMore == RecordedSpec => []BufferBounded
<1>1. RecordedInv => BufferBounded
  BY DEF RecordedInv, BufferBounded
<1> QED BY <1>1, RecordedInvariance, PTL

(* A response that responseRecorder has not released is whole in its       *)
(* buffer, and no byte of it is on the wire.                               *)
THEOREM HeldWholeOrPassedOn == RecordedSpec => []HeldBodyIsWhole
<1>1. RecordedInv => HeldBodyIsWhole
  BY DEF RecordedInv, HeldBodyIsWhole, Whereabouts
<1> QED BY <1>1, RecordedInvariance, PTL

(* responseRecorder.Flush sends everything the upstream wrote before it.   *)
THEOREM FlushReachesClient == RecordedSpec => FlushDelivers
<1>1. RecordedInv /\ UpstreamFlush /\ ~recorder.gone => recorder'.wire = upstreamBody
  BY FlushKeeps DEF RecordedInv, UpstreamFlush
<1>2. RecordedInv /\ [RecordedNext]_recordedVars =>
        [(UpstreamFlush /\ ~recorder.gone) => recorder'.wire = upstreamBody]_recordedVars
  BY <1>1
<1> QED BY <1>2, RecordedInvariance, PTL DEF RecordedSpec, FlushDelivers
-----------------------------------------------------------------------------
(* Every step of a recorded response is a step of the pipe.                *)
LEMMA StepIsPipeStep ==
  RecordedInv /\ RecordedInv' /\ [RecordedNext]_recordedVars => [Pipe!PipeNext]_(Pipe!pipeVars)
<1> SUFFICES ASSUME RecordedInv, RecordedInv', [RecordedNext]_recordedVars
             PROVE  [Pipe!PipeNext]_(Pipe!pipeVars)
  OBVIOUS
<1> DEFINE End == IF stage \in {"upstream", "returned"} THEN "open" ELSE stage
<1>0. Pipe!pipeVars = <<upstreamBody, recorder.wire, End>>
  BY DEF Pipe!pipeVars
<1>1. ASSUME NEW code \in StatusCode, UpstreamHeader(code)
      PROVE  UNCHANGED Pipe!pipeVars
  BY <1>1, HeaderKeeps, RecordedResponseAssumption
     DEF RecordedInv, UpstreamHeader, Pipe!pipeVars, ContentType
<1>2. ASSUME NEW bytes \in Writes, UpstreamWrite(bytes)
      PROVE  Pipe!HoldBack(bytes) \/ Pipe!PassOn(bytes)
  <2>1. /\ stage = "upstream" /\ stage' = "upstream"
        /\ upstreamBody' = upstreamBody \o bytes
    BY <1>2 DEF UpstreamWrite
  <2>2. /\ Whereabouts(recorder, upstreamBody, Inspect)
        /\ Whereabouts(recorder', upstreamBody', Inspect) /\ recorder'.gone = recorder.gone
        /\ (recorder.passthrough => recorder'.passthrough)
        /\ (recorder.gone => recorder'.wire = recorder.wire)
    <3>1. bytes \in Seq(Byte)
      BY RecordedResponseAssumption
    <3> DEFINE h == [DefaultHeader(recorder) EXCEPT !.written = TRUE]
    <3>2. /\ h \in Recorders(Byte, StatusCode) /\ h.gone = recorder.gone
          /\ h.wire = recorder.wire /\ h.passthrough = recorder.passthrough
      <4>1. /\ recorder \in Recorders(Byte, StatusCode)
            /\ recorder.written => recorder.statusCode # Unset
        BY DEF RecordedInv
      <4> QED BY <4>1, DefaultHeaderResult
    <3>3. \/ recorder' = ClientWrite(h, bytes)
          \/ ~h.passthrough /\ recorder' = [h EXCEPT !.body = @ \o bytes]
          \/ recorder' = ClientWrite(Release(h), bytes)
      BY <1>2 DEF UpstreamWrite, Write
    <3> HIDE DEF h
    <3>4. recorder'.gone = recorder.gone /\ (recorder.gone => recorder'.wire = recorder.wire)
          /\ (recorder.passthrough => recorder'.passthrough)
      <4>1. CASE recorder' = ClientWrite(h, bytes)
        BY <3>1, <3>2, <4>1, ClientWriteResult DEF SameRecorder
      <4>2. CASE ~h.passthrough /\ recorder' = [h EXCEPT !.body = @ \o bytes]
        BY <3>2, <4>2 DEF Recorders
      <4>3. CASE recorder' = ClientWrite(Release(h), bytes)
        <5>1. Release(h) \in Recorders(Byte, StatusCode)
              /\ IsRelease(Release(h), h)
          BY <3>2, ReleaseResult
        <5>2. /\ recorder'.gone = Release(h).gone
              /\ recorder'.passthrough = Release(h).passthrough
              /\ Release(h).gone => recorder'.wire = Release(h).wire
          BY <3>1, <4>3, <5>1, ClientWriteResult DEF SameRecorder
        <5> QED BY <3>2, <5>1, <5>2 DEF IsRelease
      <4> QED BY <3>3, <4>1, <4>2, <4>3
    <3> QED BY <2>1, <3>4 DEF RecordedInv
  <2>3. recorder'.wire = recorder.wire \/ recorder'.wire = upstreamBody'
    BY <2>2 DEF Whereabouts
  <2> QED BY <2>1, <2>3 DEF Pipe!HoldBack, Pipe!PassOn
<1>3. ASSUME UpstreamFlush PROVE Pipe!CatchUp \/ UNCHANGED Pipe!pipeVars
  <2>1. /\ Whereabouts(recorder, upstreamBody, Inspect)
        /\ Whereabouts(recorder', upstreamBody, Inspect) /\ recorder' = Flush(recorder)
        /\ recorder \in Recorders(Byte, StatusCode) /\ upstreamBody \in Seq(Byte)
    BY <1>3 DEF RecordedInv, UpstreamFlush
  <2>2. CASE recorder.gone
    <3> DEFINE h == IF recorder.passthrough THEN recorder ELSE Release(recorder)
    <3>1. h \in Recorders(Byte, StatusCode) /\ h.wire = recorder.wire
      BY <2>1, <2>2, ReleaseResult DEF IsRelease
    <3>2. recorder'.wire = h.wire
      BY <2>1, <3>1, ClientHeaderResult DEF Flush
    <3> QED BY <1>3, <3>1, <3>2 DEF Pipe!pipeVars, UpstreamFlush
  <2>3. CASE ~recorder.gone
    BY <1>3, <2>1, <2>3, FlushKeeps DEF Pipe!CatchUp, UpstreamFlush
  <2> QED BY <2>2, <2>3
<1>4. ASSUME ClientLeaves PROVE UNCHANGED Pipe!pipeVars
  BY <1>4 DEF RecordedInv, ClientLeaves, Pipe!pipeVars, Recorders
<1>5. ASSUME UpstreamDone PROVE UNCHANGED Pipe!pipeVars
  BY <1>5 DEF UpstreamDone, Pipe!pipeVars
<1>6. ASSUME Deliver PROVE Pipe!EndWhole \/ Pipe!EndCut
  <2>1. /\ Whereabouts(recorder, upstreamBody, Inspect)
        /\ recorder \in Recorders(Byte, StatusCode) /\ upstreamBody \in Seq(Byte)
    BY <1>6 DEF RecordedInv, Deliver
  <2>2. CASE recorder.gone
    <3>1. recorder'.wire = recorder.wire
      BY <1>6, <2>1, <2>2, CopyResult DEF Deliver
    <3> QED BY <1>6, <2>2, <3>1 DEF Deliver, Pipe!EndCut
  <2>3. CASE ~recorder.gone
    <3>1. recorder'.wire = upstreamBody
      BY <1>6, <2>1, <2>3, CopyResult DEF Deliver
    <3> QED BY <1>6, <2>3, <3>1 DEF Deliver, Pipe!EndWhole
  <2> QED BY <2>2, <2>3
<1>7. ASSUME Discard PROVE Pipe!EndCut
  BY <1>7 DEF Discard, Pipe!EndCut
<1>8. CASE UNCHANGED recordedVars
  BY <1>8 DEF recordedVars, Pipe!pipeVars
<1> QED BY <1>1, <1>2, <1>3, <1>4, <1>5, <1>6, <1>7, <1>8
      DEF RecordedNext, Pipe!PipeNext

(* The recorder, whatever it buffers, releases and copies, is a pipe that  *)
(* keeps the order of the upstream's bytes and delivers each once.         *)
THEOREM RecorderImplementsPipe == RecordedSpec => ImplementsPipe
<1>1. RecordedInit => Pipe!PipeInit
  BY DEF RecordedInit, NewRecorder, Pipe!PipeInit
<1> QED BY <1>1, StepIsPipeStep, RecordedInvariance, PTL
      DEF RecordedSpec, ImplementsPipe, Pipe!PipeSpec
-----------------------------------------------------------------------------
(* One request: WafPipeline.  What the rules decide does not matter to the *)
(* bytes: a phase leaves the request as it was or blocked and done.        *)

Text     == Chunk \cup {Message, <<"metrics">>} \cup UNION {Range(c) : c \in Customs}
BodyByte == UNION {ToSet(text) : text \in Text}
Status   == {Forbidden, TooManyRequests, InternalServerError}
Recorder == Recorders(BodyByte, Status)

BeforeUpstream == {"phase1", "phase2", "record"}
AfterRecord    == {"upstream", "phase3", "phase4", "answer"}

StateTypeOK ==
  /\ pc \in BeforeUpstream \cup AfterRecord \cup {"done", "panicked"}
  /\ DOMAIN state = {"score", "blocked", "statusCode"}
  /\ inspect \in BOOLEAN /\ custom \in Customs
  /\ produced \in Seq(BodyByte)

(* Where the bytes are while nothing blocks the request.                   *)
OpenInv ==
  /\ pc \in BeforeUpstream =>
       out = NewRecorder(FALSE) /\ ~inspect /\ produced = <<>>
  /\ pc \notin {"answer", "done"} => ~state.blocked /\ ~vetted
  /\ pc \in AfterRecord /\ ~state.blocked =>
       out \in Recorder /\ ~out.gone /\ Whereabouts(out, produced, inspect)
  /\ pc = "answer" /\ ~state.blocked /\ vetted => ~out.partial
  /\ pc = "done" /\ ~state.blocked =>
       /\ out.wire = produced
       /\ vetted /\ inspect => out.body = produced

(* And once Phase 4 has blocked a response it held, beside which the text  *)
(* of the block fits.                                                      *)
HeldBack ==
  /\ state.blocked /\ vetted /\ inspect
  /\ Len(produced) + Len(BlockText) <= limit

ClosedInv ==
  HeldBack =>
    /\ pc = "answer" => out \in Recorder /\ ~out.gone /\ out.wire = <<>>
    /\ pc = "done" => out.wire = <<>> \/ out.wire \in Range(custom)

IInv == StateTypeOK /\ OpenInv /\ ClosedInv
-----------------------------------------------------------------------------
LEMMA TextsAreBytes == \A text \in Text : text \in Seq(BodyByte)
<1> SUFFICES ASSUME NEW text \in Text PROVE text \in Seq(BodyByte)
  OBVIOUS
<1>1. ToSet(text) \subseteq BodyByte
  BY DEF BodyByte
<1>2. text \in Seq(ToSet(text))
  <2>1. CASE text = <<"metrics">>
    BY <2>1 DEF ToSet
  <2>2. CASE text # <<"metrics">>
    BY <2>2, WafPipelineAssumption DEF Text
  <2> QED BY <2>1, <2>2
<1> QED BY <1>1, <1>2, SeqMonotonic

(* WriteKeeps, for the recorder of this request.                           *)
LEMMA WriteKeepsHere ==
  ASSUME NEW o \in Recorder, NEW bytes \in Seq(BodyByte),
         NEW sent \in Seq(BodyByte), Whereabouts(o, sent, inspect)
  PROVE  /\ Write(o, bytes) \in Recorder
         /\ Whereabouts(Write(o, bytes), sent \o bytes, inspect)
         /\ Write(o, bytes).gone = o.gone
         /\ o.passthrough => Write(o, bytes).passthrough
         /\ ~o.passthrough /\ Fits(o, bytes) => Write(o, bytes).wire = <<>>
  BY WriteKeeps DEF Recorder

LEMMA InitIInv == Init => IInv
<1> SUFFICES ASSUME Init PROVE IInv
  OBVIOUS
<1>1. StateTypeOK
  BY EmptySeq DEF Init, StateTypeOK, BeforeUpstream
<1>2. OpenInv
  BY DEF Init, OpenInv, BeforeUpstream, AfterRecord
<1>3. ClosedInv
  BY DEF Init, ClosedInv, HeldBack
<1> QED BY <1>1, <1>2, <1>3 DEF IInv

(* The rules of a phase block and end the request, or leave what was sent. *)
LEMMA RulesDecide ==
  ASSUME NEW p, NEW next, RunRules(p, next)
  PROVE  /\ DOMAIN state' = {"score", "blocked", "statusCode"}
         /\ \/ pc' = "done" /\ state'.blocked
            \/ pc' = next /\ ~state'.blocked /\ out' = out
BY DEF RunRules, Block, Allow

LEMMA PhaseKeeps ==
  ASSUME IInv, NEW p, NEW next, RunRules(p, next),
         UNCHANGED <<custom, inspect, produced, vetted>>,
         \/ pc \in BeforeUpstream /\ next \in BeforeUpstream
         \/ pc \in AfterRecord \ {"answer"} /\ next \in AfterRecord \ {"answer"}
  PROVE  IInv'
<1>1. /\ DOMAIN state' = {"score", "blocked", "statusCode"}
      /\ \/ pc' = "done" /\ state'.blocked
         \/ pc' = next /\ ~state'.blocked /\ out' = out
  BY RulesDecide
<1>2. ~state.blocked /\ ~vetted /\ ~vetted'
  BY DEF IInv, OpenInv, BeforeUpstream, AfterRecord
<1>3. StateTypeOK'
  BY <1>1 DEF IInv, StateTypeOK, BeforeUpstream, AfterRecord
<1>4. ClosedInv'
  BY <1>2 DEF ClosedInv, HeldBack
<1>5. CASE pc' = "done" /\ state'.blocked
  BY <1>3, <1>4, <1>5 DEF IInv, OpenInv, BeforeUpstream, AfterRecord
<1>6. CASE pc' = next /\ ~state'.blocked /\ out' = out
  <2>1. pc' \notin {"answer", "done"}
    BY <1>6 DEF BeforeUpstream, AfterRecord
  <2>2. (pc' \in BeforeUpstream => pc \in BeforeUpstream)
        /\ (pc' \in AfterRecord => pc \in AfterRecord)
    BY <1>6 DEF BeforeUpstream, AfterRecord
  <2>3. OpenInv'
    BY <1>2, <1>6, <2>1, <2>2 DEF IInv, OpenInv
  <2> QED BY <1>3, <1>4, <2>3 DEF IInv
<1> QED BY <1>1, <1>5, <1>6
-----------------------------------------------------------------------------
(* A response that is held stays back when Phase 4 blocks it, if the text  *)
(* of the block fits beside it.                                            *)
LEMMA BlockHolds ==
  ASSUME StateTypeOK, out \in Recorder, ~out.gone, ~out.passthrough,
         Whereabouts(out, produced, inspect),
         out' = BlockResponse(out, Forbidden), UNCHANGED <<custom, produced>>,
         state'.statusCode = Forbidden
  PROVE  /\ out' \in Recorder /\ ~out'.gone
         /\ Len(produced') + Len(BlockText') <= limit => out'.wire = <<>>
<1> DEFINE h == WriteHeader(SetHeader(out, "plain"), Forbidden)
           g == WriteHeader(SetHeader(h, "custom"), Forbidden)
<1>1. Forbidden \in Status /\ Forbidden # Unset /\ produced \in Seq(BodyByte)
  BY DEF Status, Forbidden, Unset, StateTypeOK
<1>2. /\ h \in Recorder /\ Whereabouts(h, produced, inspect)
      /\ h.wire = out.wire /\ h.gone = out.gone
      /\ h.passthrough = out.passthrough
  BY <1>1, HeaderKeeps DEF Recorder, ContentType
<1> HIDE DEF h
<1>3. /\ g \in Recorder /\ Whereabouts(g, produced, inspect)
      /\ g.wire = h.wire /\ g.gone = h.gone /\ g.passthrough = h.passthrough
  BY <1>1, <1>2, HeaderKeeps DEF Recorder, ContentType
<1> HIDE DEF g
<1>4. h.wire = <<>> /\ h.body = produced /\ g.wire = <<>> /\ g.body = produced
  BY <1>2, <1>3 DEF Whereabouts
<1>5. CASE DOMAIN custom = {}
  <2>1. out' = Write(h, Message) /\ BlockText' = Message
    BY <1>5 DEF BlockResponse, BlockText, h
  <2>2. Message \in Seq(BodyByte)
    BY TextsAreBytes DEF Text
  <2>3. /\ Write(h, Message) \in Recorder /\ Write(h, Message).gone = h.gone
        /\ ~h.passthrough /\ Fits(h, Message) => Write(h, Message).wire = <<>>
    BY <1>1, <1>2, <2>2, WriteKeepsHere
  <2>4. Len(produced') + Len(BlockText') <= limit => Fits(h, Message)
    BY <1>4, <2>1 DEF Fits
  <2> QED BY <1>2, <1>3, <2>1, <2>3, <2>4
<1>6. CASE DOMAIN custom # {} /\ Forbidden \in DOMAIN custom
  <2>1. out' = Write(g, custom[Forbidden]) /\ BlockText' = custom[Forbidden]
    BY <1>6 DEF BlockResponse, WriteCustomResponse, BlockText, h, g
  <2>2. custom[Forbidden] \in Seq(BodyByte)
    BY <1>6, TextsAreBytes DEF Text, Range, StateTypeOK
  <2>3. /\ Write(g, custom[Forbidden]) \in Recorder
        /\ Write(g, custom[Forbidden]).gone = g.gone
        /\ ~g.passthrough /\ Fits(g, custom[Forbidden])
             => Write(g, custom[Forbidden]).wire = <<>>
    BY <1>1, <1>3, <2>2, WriteKeepsHere
  <2>4. Len(produced') + Len(BlockText') <= limit => Fits(g, custom[Forbidden])
    BY <1>4, <2>1 DEF Fits
  <2> QED BY <1>2, <1>3, <2>1, <2>3, <2>4
<1>7. CASE DOMAIN custom # {} /\ Forbidden \notin DOMAIN custom
  <2>1. out' = h
    BY <1>7 DEF BlockResponse, WriteCustomResponse, h
  <2> QED BY <1>2, <1>4, <2>1
<1> QED BY <1>5, <1>6, <1>7

(* Phase 4 blocks what it has compared, or leaves it.                      *)
LEMMA Phase4Keeps ==
  ASSUME IInv, Phase4
  PROVE  IInv'
<1>1. /\ pc = "phase4" /\ pc' = "answer" /\ vetted' = TRUE /\ ~out.partial
      /\ UNCHANGED <<custom, inspect, produced>> /\ ~state.blocked
  BY DEF Phase4, given, IInv, OpenInv
<1>2. out \in Recorder /\ ~out.gone /\ Whereabouts(out, produced, inspect)
  BY <1>1 DEF IInv, OpenInv, AfterRecord
<1>3. \/ /\ DOMAIN state' = {"score", "blocked", "statusCode"}
         /\ ~state'.blocked /\ out' = out
      \/ /\ DOMAIN state' = {"score", "blocked", "statusCode"}
         /\ state'.blocked /\ state'.statusCode = Forbidden
         /\ out' = BlockResponse(out, Forbidden)
  BY <1>1 DEF Phase4, InspectBody, IInv, StateTypeOK
<1>4. StateTypeOK'
  BY <1>1, <1>3 DEF IInv, StateTypeOK, AfterRecord
<1>5. CASE ~state'.blocked /\ out' = out
  <2>1. Whereabouts(out', produced', inspect')
    BY <1>1, <1>2, <1>5 DEF Whereabouts
  <2>2. OpenInv'
    BY <1>1, <1>2, <1>5, <2>1 DEF OpenInv, BeforeUpstream, AfterRecord
  <2>3. ClosedInv'
    BY <1>5 DEF ClosedInv, HeldBack
  <2> QED BY <1>4, <2>2, <2>3 DEF IInv
<1>6. CASE /\ state'.blocked /\ state'.statusCode = Forbidden
           /\ out' = BlockResponse(out, Forbidden)
  <2>1. OpenInv'
    BY <1>1, <1>6 DEF OpenInv, BeforeUpstream, AfterRecord
  <2>2. ASSUME inspect, Len(produced') + Len(BlockText') <= limit
        PROVE  out' \in Recorder /\ ~out'.gone /\ out'.wire = <<>>
    <3>1. ~out.passthrough
      BY <1>1, <1>2, <2>2 DEF Whereabouts
    <3> QED BY <1>1, <1>2, <1>6, <2>2, <3>1, BlockHolds DEF IInv
  <2>3. ClosedInv'
    BY <1>1, <2>2 DEF ClosedInv, HeldBack
  <2> QED BY <1>4, <2>1, <2>3 DEF IInv
<1> QED BY <1>3, <1>5, <1>6
-----------------------------------------------------------------------------
(* What the upstream does to the recorder, and what ServeHTTP adds.        *)
LEMMA UpstreamKeeps ==
  ASSUME IInv, UpstreamWrites \/ UpstreamFlushes \/ UpstreamReturns
  PROVE  IInv'
<1>1. /\ pc = "upstream" /\ pc' \in {"upstream", "phase3"}
      /\ UNCHANGED <<state, inspect, vetted, custom>>
  BY DEF UpstreamWrites, UpstreamFlushes, UpstreamReturns, given, past
<1>2. /\ out \in Recorder /\ ~out.gone /\ Whereabouts(out, produced, inspect)
      /\ produced \in Seq(BodyByte) /\ ~state.blocked /\ ~vetted
  BY <1>1 DEF IInv, OpenInv, AfterRecord, StateTypeOK
<1>3. /\ out' \in Recorder /\ ~out'.gone /\ produced' \in Seq(BodyByte)
      /\ Whereabouts(out', produced', inspect)
  <2>1. CASE UpstreamWrites
    <3>1. PICK bytes \in Chunk : /\ out' = Write(SetHeader(out, "upstream"), bytes)
                                 /\ produced' = produced \o bytes
      BY <2>1 DEF UpstreamWrites
    <3>2. bytes \in Seq(BodyByte)
      BY TextsAreBytes DEF Text
    <3> DEFINE h == SetHeader(out, "upstream")
    <3>3. h \in Recorder /\ h.wire = out.wire /\ SameRecorder(h, out)
      BY <1>2, SetHeaderResult DEF Recorder, ContentType
    <3> HIDE DEF h
    <3>4. ~h.gone /\ Whereabouts(h, produced, inspect)
      BY <1>2, <3>3 DEF Whereabouts, SameRecorder
    <3>5. /\ Write(h, bytes) \in Recorder /\ ~Write(h, bytes).gone
          /\ Whereabouts(Write(h, bytes), produced \o bytes, inspect)
      BY <1>2, <3>2, <3>3, <3>4, WriteKeepsHere
    <3>6. produced \o bytes \in Seq(BodyByte)
      BY <1>2, <3>2
    <3> QED BY <3>1, <3>5, <3>6 DEF h
  <2>2. CASE UpstreamFlushes
    BY <1>2, <2>2, FlushKeeps DEF UpstreamFlushes, past, Recorder
  <2>3. CASE UpstreamReturns
    BY <1>2, <2>3 DEF UpstreamReturns, past
  <2> QED BY <2>1, <2>2, <2>3
<1>4. StateTypeOK'
  BY <1>1, <1>3 DEF IInv, StateTypeOK, AfterRecord
<1>5. Whereabouts(out', produced', inspect')
  BY <1>1, <1>3
<1>6. OpenInv'
  BY <1>1, <1>2, <1>3, <1>5 DEF OpenInv, BeforeUpstream, AfterRecord
<1>7. ClosedInv'
  BY <1>1, <1>2 DEF ClosedInv, HeldBack
<1> QED BY <1>4, <1>6, <1>7 DEF IInv

LEMMA RecordKeeps ==
  ASSUME IInv, Record
  PROVE  IInv'
<1>1. /\ pc = "record" /\ pc' = "upstream" /\ out' = NewRecorder(inspect')
      /\ inspect' \in BOOLEAN /\ UNCHANGED <<state, custom, produced, vetted>>
  BY DEF Record, given, past
<1>2. produced = <<>> /\ ~state.blocked /\ ~vetted
  BY <1>1 DEF IInv, OpenInv, BeforeUpstream
<1>3. out' \in Recorder /\ Whereabouts(out', <<>>, inspect')
  BY <1>1, NewRecorderResult DEF Recorder
<1>4. ~out'.gone
  BY <1>1 DEF NewRecorder
<1>5. Whereabouts(out', produced', inspect')
  BY <1>1, <1>2, <1>3
<1>6. StateTypeOK'
  BY <1>1 DEF IInv, StateTypeOK, AfterRecord
<1>7. OpenInv'
  BY <1>1, <1>2, <1>3, <1>4, <1>5 DEF OpenInv, BeforeUpstream, AfterRecord
<1>8. ClosedInv'
  BY <1>1, <1>2 DEF ClosedInv, HeldBack
<1> QED BY <1>6, <1>7, <1>8 DEF IInv

LEMMA ServeMetricsKeeps ==
  ASSUME IInv, ServeMetrics
  PROVE  IInv'
<1> DEFINE text == <<"metrics">>
<1>1. /\ pc = "record" /\ pc' = "done" /\ out' = Write(out, text)
      /\ produced' = text /\ UNCHANGED <<state, custom, inspect, vetted>>
  BY DEF ServeMetrics, given
<1>2. out = NewRecorder(FALSE) /\ ~inspect /\ ~state.blocked /\ ~vetted
  BY <1>1 DEF IInv, OpenInv, BeforeUpstream
<1>3. text \in Seq(BodyByte)
  BY TextsAreBytes DEF Text
<1> HIDE DEF text
<1>4. /\ out \in Recorder /\ Whereabouts(out, <<>>, inspect)
      /\ ~out.gone /\ out.passthrough
  <2>1. NewRecorder(FALSE).passthrough /\ ~NewRecorder(FALSE).gone
    BY DEF NewRecorder
  <2>2. out \in Recorder /\ Whereabouts(out, <<>>, FALSE)
    BY <1>2, NewRecorderResult DEF Recorder
  <2>3. Whereabouts(out, <<>>, inspect)
    BY <1>2, <2>2 DEF Whereabouts
  <2> QED BY <1>2, <2>1, <2>2, <2>3
<1>5. <<>> \in Seq(BodyByte) /\ <<>> \o text = text
  BY <1>3, EmptySeq, ConcatEmptySeq
<1>6. /\ Whereabouts(out', text, inspect) /\ ~out'.gone /\ out'.passthrough
  <2>1. /\ Whereabouts(Write(out, text), <<>> \o text, inspect)
        /\ Write(out, text).gone = out.gone
        /\ out.passthrough => Write(out, text).passthrough
    BY <1>3, <1>4, <1>5, WriteKeepsHere
  <2> QED BY <1>1, <1>4, <1>5, <2>1
<1>7. out'.wire = produced'
  BY <1>1, <1>6 DEF Whereabouts
<1>8. StateTypeOK'
  BY <1>1, <1>3 DEF IInv, StateTypeOK
<1>9. OpenInv'
  BY <1>1, <1>2, <1>7 DEF OpenInv, BeforeUpstream, AfterRecord
<1>10. ClosedInv'
  BY <1>1, <1>2 DEF ClosedInv, HeldBack
<1> QED BY <1>8, <1>9, <1>10 DEF IInv

(* The answer: what is held is copied, or dropped with at most the custom  *)
(* response in its place.                                                  *)
LEMMA AllowedKeeps ==
  ASSUME IInv, AnswerAllowed
  PROVE  IInv'
<1>1. /\ pc = "answer" /\ pc' = "done" /\ ~state.blocked
      /\ out' = CopyResponse(out)
      /\ UNCHANGED <<state, custom, inspect, produced, vetted>>
  BY DEF AnswerAllowed, given, past
<1>2. /\ out \in Recorder /\ ~out.gone /\ Whereabouts(out, produced, inspect)
      /\ produced \in Seq(BodyByte)
  BY <1>1 DEF IInv, OpenInv, AfterRecord, StateTypeOK
<1>3. out'.wire = produced /\ SameRecorder(out', out)
  BY <1>1, <1>2, CopyResult DEF Recorder
<1>4. ASSUME vetted, inspect PROVE out'.body = produced
  <2>1. ~out.partial
    BY <1>1, <1>4 DEF IInv, OpenInv
  <2> QED BY <1>2, <1>3, <1>4, <2>1 DEF Whereabouts, SameRecorder
<1>5. StateTypeOK'
  BY <1>1 DEF IInv, StateTypeOK
<1>6. OpenInv'
  BY <1>1, <1>3, <1>4 DEF OpenInv, BeforeUpstream, AfterRecord
<1>7. ClosedInv'
  BY <1>1 DEF ClosedInv, HeldBack
<1> QED BY <1>5, <1>6, <1>7 DEF IInv

LEMMA BlockedKeeps ==
  ASSUME IInv, AnswerBlocked
  PROVE  IInv'
<1>1. /\ pc = "answer" /\ pc' = "done" /\ state.blocked
      /\ UNCHANGED <<state, custom, inspect, produced, vetted>>
      /\ out' = IF state.statusCode \in DOMAIN custom
                THEN ClientWrite(ClientHeader(SetHeader(out, "custom"), state.statusCode),
                                 custom[state.statusCode])
                ELSE out
  BY DEF AnswerBlocked, given, past
<1>2. StateTypeOK' /\ OpenInv'
  BY <1>1 DEF IInv, StateTypeOK, OpenInv, BeforeUpstream, AfterRecord
<1>3. ASSUME HeldBack PROVE out'.wire = <<>> \/ out'.wire \in Range(custom)
  <2>1. out \in Recorder /\ ~out.gone /\ out.wire = <<>>
    BY <1>1, <1>3 DEF IInv, ClosedInv
  <2>2. CASE state.statusCode \in DOMAIN custom
    <3> DEFINE code == state.statusCode
               h == ClientHeader(SetHeader(out, "custom"), code)
    <3>1. code \in Status /\ custom[code] \in Seq(BodyByte)
      <4>1. custom \in Customs
        BY DEF IInv, StateTypeOK
      <4>2. code \in {Forbidden, TooManyRequests}
        BY <2>2, <4>1, WafPipelineAssumption
      <4>3. custom[code] \in Text
        BY <2>2, <4>1 DEF Text, Range
      <4> QED BY <4>2, <4>3, TextsAreBytes DEF Status
    <3>2. h \in Recorder /\ ~h.gone /\ h.wire = <<>>
      BY <2>1, <3>1, SetHeaderResult, ClientHeaderResult
         DEF Recorder, ContentType, SameRecorder
    <3> HIDE DEF h
    <3>3. out' = ClientWrite(h, custom[code])
      BY <1>1, <2>2 DEF h
    <3>4. out'.wire = <<>> \o custom[code]
      <4>1. ClientWrite(h, custom[code]).wire =
              IF h.gone THEN h.wire ELSE h.wire \o custom[code]
        BY <3>1, <3>2, ClientWriteResult DEF Recorder
      <4> QED BY <3>2, <3>3, <4>1
    <3>5. out'.wire = custom[code]
      BY <3>1, <3>4, ConcatEmptySeq
    <3> QED BY <2>2, <3>5 DEF Range
  <2>3. CASE state.statusCode \notin DOMAIN custom
    BY <1>1, <2>1, <2>3
  <2> QED BY <2>2, <2>3
<1>4. HeldBack' <=> HeldBack
  BY <1>1 DEF HeldBack, BlockText
<1>5. ClosedInv'
  BY <1>1, <1>3, <1>4 DEF ClosedInv
<1> QED BY <1>2, <1>5 DEF IInv
-----------------------------------------------------------------------------
LEMMA NextIInv == IInv /\ [Next]_vars => IInv'
<1> SUFFICES ASSUME IInv, [Next]_vars PROVE IInv'
  OBVIOUS
<1>1. CASE Reload \/ UNCHANGED vars
  <2>1. UNCHANGED <<pc, state, out, inspect, custom, produced, vetted>>
    BY <1>1 DEF Reload, vars, given, past
  <2>2. StateTypeOK' /\ ClosedInv'
    BY <2>1 DEF IInv, StateTypeOK, ClosedInv, HeldBack, BlockText
  <2>3. OpenInv'
    BY <2>1 DEF IInv, OpenInv, Whereabouts
  <2> QED BY <2>2, <2>3 DEF IInv
<1>2. CASE PolicyBlocks
  <2>1. /\ pc = "phase1" /\ pc' = "done" /\ state'.blocked
        /\ DOMAIN state' = {"score", "blocked", "statusCode"}
        /\ UNCHANGED <<inspect, custom, produced, vetted>>
    BY <1>2 DEF PolicyBlocks, Block, given, past
  <2>2. ~vetted
    BY <2>1 DEF IInv, OpenInv
  <2>3. StateTypeOK'
    BY <2>1 DEF IInv, StateTypeOK
  <2>4. OpenInv' /\ ClosedInv'
    BY <2>1, <2>2 DEF OpenInv, ClosedInv, HeldBack, BeforeUpstream, AfterRecord
  <2> QED BY <2>3, <2>4 DEF IInv
<1>3. CASE Phase1 \/ Phase2 \/ Phase3
  <2>1. UNCHANGED <<inspect, custom, produced, vetted>>
    BY <1>3 DEF Phase1, Phase2, Phase3, given
  <2>2. \/ pc = "phase1" /\ RunRules(1, "phase2")
        \/ pc = "phase2" /\ RunRules(2, "record")
        \/ pc = "phase3" /\ RunRules(3, "phase4")
    BY <1>3 DEF Phase1, Phase2, Phase3
  <2>3. CASE pc = "phase1" /\ RunRules(1, "phase2")
    BY <2>1, <2>3, PhaseKeeps DEF BeforeUpstream
  <2>4. CASE pc = "phase2" /\ RunRules(2, "record")
    BY <2>1, <2>4, PhaseKeeps DEF BeforeUpstream
  <2>5. CASE pc = "phase3" /\ RunRules(3, "phase4")
    BY <2>1, <2>5, PhaseKeeps DEF AfterRecord
  <2> QED BY <2>2, <2>3, <2>4, <2>5
<1>4. CASE UpstreamPanics
  <2>1. /\ pc = "upstream" /\ pc' = "panicked"
        /\ UNCHANGED <<state, inspect, custom, produced, vetted>>
    BY <1>4 DEF UpstreamPanics, given, past
  <2>2. ~state.blocked /\ ~vetted
    BY <2>1 DEF IInv, OpenInv
  <2>3. StateTypeOK'
    BY <2>1 DEF IInv, StateTypeOK
  <2>4. OpenInv' /\ ClosedInv'
    BY <2>1, <2>2 DEF OpenInv, ClosedInv, HeldBack, BeforeUpstream, AfterRecord
  <2> QED BY <2>3, <2>4 DEF IInv
<1>5. CASE Phase4Skips
  <2>1. /\ pc = "phase4" /\ pc' = "answer"
        /\ UNCHANGED <<state, out, inspect, custom, produced, vetted>>
    BY <1>5 DEF Phase4Skips, given, past
  <2>2. ~state.blocked /\ ~vetted
    BY <2>1 DEF IInv, OpenInv
  <2>3. StateTypeOK'
    BY <2>1 DEF IInv, StateTypeOK, AfterRecord
  <2>4. Whereabouts(out, produced, inspect) => Whereabouts(out', produced', inspect')
    BY <2>1 DEF Whereabouts
  <2>5. OpenInv'
    BY <2>1, <2>2, <2>4 DEF IInv, OpenInv, BeforeUpstream, AfterRecord
  <2>6. ClosedInv'
    BY <2>1, <2>2 DEF ClosedInv, HeldBack
  <2> QED BY <2>3, <2>5, <2>6 DEF IInv
<1> QED BY <1>1, <1>2, <1>3, <1>4, <1>5, Phase4Keeps, UpstreamKeeps, RecordKeeps,
           ServeMetricsKeeps, AllowedKeeps, BlockedKeeps DEF Next

LEMMA Invariance == Spec => []IInv
  BY InitIInv, NextIInv, PTL DEF Spec

(* A response that ServeHTTP does not block reaches the client whole, in   *)
(* order and once (response.go; handler.go, copyResponse).                 *)
THEOREM AllowedIsWhole == Spec => []AllowedBodyIsWhole
<1>1. IInv => AllowedBodyIsWhole
  BY DEF IInv, OpenInv, AllowedBodyIsWhole
<1> QED BY <1>1, Invariance, PTL

(* handleResponseBodyPhase never vouches for a part of a body.             *)
THEOREM VettedWhole == Spec => []ResponseVetted
<1>1. IInv => ResponseVetted
  BY DEF IInv, OpenInv, ResponseVetted
<1> QED BY <1>1, Invariance, PTL

(* No byte of a body that Phase 4 blocks reaches the client, if the custom *)
(* responses do not themselves contain the upstream's bytes.               *)
THEOREM BlockedIsHeldBack ==
  ASSUME \A c \in Customs : \A text \in Range(c) :
           ToSet(text) \cap UpstreamBytes = {}
  PROVE  Spec => []BlockedBodyNotDelivered
<1>1. IInv => BlockedBodyNotDelivered
  <2> SUFFICES ASSUME IInv, HeldBack
               PROVE  ToSet(out.wire) \cap UpstreamBytes = {}
    BY DEF BlockedBodyNotDelivered, HeldBack
  <2>1. out.wire = <<>> \/ out.wire \in Range(custom)
    BY DEF IInv, OpenInv, ClosedInv, HeldBack
  <2>2. custom \in Customs
    BY DEF IInv, StateTypeOK
  <2>3. out.wire = <<>> => ToSet(out.wire) = {}
    BY DEF ToSet
  <2> QED BY <2>1, <2>2, <2>3
<1> QED BY <1>1, Invariance, PTL
-----------------------------------------------------------------------------
(* The rules themselves.  What the matches of a phase add up to, and that  *)
(* matches of several phases add up to the sum of theirs.                  *)
Rule     == UNION {ToSet(rs[p]) : rs \in RuleSet, p \in Phase}
Total(h) == ScoreOf(h, Len(h))

LEMMA RulesAre ==
  /\ \A r \in Rule : r.score \in Nat /\ r.id \in RuleId
  /\ \A rs \in RuleSet, p \in Phase : rs[p] \in Seq(Rule)
<1>1. ASSUME NEW r \in Rule PROVE r.score \in Nat /\ r.id \in RuleId
  <2>1. PICK rs \in RuleSet, p \in Phase : r \in ToSet(rs[p])
    BY DEF Rule
  <2>2. r.id \in {q.id : q \in ToSet(rs[p])}
    BY <2>1
  <2>3. r.id \in RuleId
    <3>1. PICK T : T = {q.id : q \in ToSet(rs[p])}
      OBVIOUS
    <3>2. T \in {{q.id : q \in ToSet(us[v])} : us \in RuleSet, v \in Phase}
      BY <3>1
    <3>3. r.id \in T
      BY <2>2, <3>1
    <3> QED BY <3>2, <3>3 DEF RuleId
  <2>4. r.score \in Nat
    BY <2>1, WafPipelineAssumption
  <2> QED BY <2>3, <2>4
<1>2. ASSUME NEW rs \in RuleSet, NEW p \in Phase PROVE rs[p] \in Seq(Rule)
  <2>1. ToSet(rs[p]) \subseteq Rule
    BY DEF Rule
  <2>2. rs[p] \in Seq(ToSet(rs[p]))
    BY WafPipelineAssumption
  <2> QED BY <2>1, <2>2, SeqMonotonic
<1> QED BY <1>1, <1>2

LEMMA ScoreGrows ==
  ASSUME NEW h \in Seq(Rule)
  PROVE  /\ ScoreOf(h, 0) = 0
         /\ \A n \in 0 .. Len(h) : ScoreOf(h, n) \in Nat
         /\ \A n \in 1 .. Len(h) : ScoreOf(h, n) = ScoreOf(h, n - 1) + h[n].score
<1>1. PICK f : f = [k \in DOMAIN h |-> h[k].score]
  OBVIOUS
<1>2. \A k \in 1 .. Len(h) : f[k] \in Nat /\ f[k] = h[k].score
  <2> SUFFICES ASSUME NEW k \in 1 .. Len(h) PROVE f[k] \in Nat /\ f[k] = h[k].score
    OBVIOUS
  <2>1. h[k] \in Rule /\ k \in DOMAIN h
    OBVIOUS
  <2> QED BY <1>1, <2>1, RulesAre
<1>3. \A n : ScoreOf(h, n) = SumFunctionOnSet(f, 1 .. n)
  BY <1>1 DEF ScoreOf
<1>4. ScoreOf(h, 0) = 0
  <2>1. 1 .. 0 = {}
    OBVIOUS
  <2> QED BY <1>3, <2>1, SumEmpty
<1>5. ASSUME NEW n \in 0 .. Len(h) PROVE ScoreOf(h, n) \in Nat
  <2>1. IsFiniteSet(1 .. n) /\ \A k \in 1 .. n : f[k] \in Nat
    BY <1>2, FS_Interval
  <2> QED BY <1>3, <2>1, SumNat
<1>6. ASSUME NEW n \in 1 .. Len(h)
      PROVE  ScoreOf(h, n) = ScoreOf(h, n - 1) + h[n].score
  <2>1. PICK S : S = 1 .. (n - 1)
    OBVIOUS
  <2>2. /\ IsFiniteSet(S) /\ n \notin S /\ S \cup {n} = 1 .. n
        /\ \A k \in S \cup {n} : f[k] \in Int
    <3>1. n \in Nat /\ n # 0 /\ 1 \in Int /\ n - 1 \in Int
      OBVIOUS
    <3>2. S \cup {n} = 1 .. n /\ n \notin S
      BY ONLY <2>1, <3>1
    <3>3. IsFiniteSet(S)
      BY ONLY <2>1, <3>1, FS_Interval
    <3>4. \A k \in 1 .. n : f[k] \in Int
      BY <1>2
    <3> QED BY ONLY <3>2, <3>3, <3>4
  <2>3. SumFunctionOnSet(f, S \cup {n}) = f[n] + SumFunctionOnSet(f, S)
    BY ONLY <2>2, SumAdd
  <2>4. ScoreOf(h, n) = f[n] + ScoreOf(h, n - 1)
    BY <1>3, <2>1, <2>2, <2>3
  <2>5. ScoreOf(h, n - 1) \in Nat /\ f[n] \in Nat /\ f[n] = h[n].score
    BY <1>2, <1>5
  <2> QED BY <2>4, <2>5
<1> QED BY <1>4, <1>5, <1>6

LEMMA TotalIsNat == \A h \in Seq(Rule) : Total(h) \in Nat
<1> SUFFICES ASSUME NEW h \in Seq(Rule) PROVE Total(h) \in Nat
  OBVIOUS
<1>1. Len(h) \in 0 .. Len(h)
  OBVIOUS
<1> QED BY <1>1, ScoreGrows DEF Total

LEMMA TotalJoins ==
  ASSUME NEW a \in Seq(Rule), NEW b \in Seq(Rule)
  PROVE  Total(a \o b) = Total(a) + Total(b)
<1>1. PICK h : h = a \o b
  OBVIOUS
<1>2. PICK m \in Nat, n \in Nat : m = Len(a) /\ n = Len(b)
  OBVIOUS
<1>3. /\ h \in Seq(Rule) /\ Len(h) = m + n
      /\ \A k \in 1 .. m : h[k] = a[k]
      /\ \A k \in 1 .. n : h[m + k] = b[k]
  BY <1>1, <1>2
<1> DEFINE N == {k \in Nat : k <= m => ScoreOf(h, k) = ScoreOf(a, k)}
           M == {k \in Nat : k <= n => ScoreOf(h, m + k) = ScoreOf(a, m) + ScoreOf(b, k)}
<1>4. m \in N
  <2>1. 0 \in N
    BY <1>3, ScoreGrows
  <2>2. ASSUME NEW k \in Nat, k \in N PROVE k + 1 \in N
    <3> SUFFICES ASSUME k + 1 <= m PROVE ScoreOf(h, k + 1) = ScoreOf(a, k + 1)
      OBVIOUS
    <3>1. /\ k + 1 \in 1 .. m /\ k + 1 \in 1 .. Len(h) /\ k + 1 \in 1 .. Len(a)
          /\ (k + 1) - 1 = k /\ k <= m
      BY <1>2, <1>3
    <3>2. /\ ScoreOf(h, k + 1) = ScoreOf(h, k) + h[k + 1].score
          /\ ScoreOf(a, k + 1) = ScoreOf(a, k) + a[k + 1].score
      BY <1>3, <3>1, ScoreGrows
    <3>3. ScoreOf(h, k) = ScoreOf(a, k) /\ h[k + 1] = a[k + 1]
      BY <1>3, <2>2, <3>1
    <3> QED BY <3>2, <3>3
  <2>3. Nat \subseteq N
    <3> HIDE DEF N
    <3> QED BY <2>1, <2>2, SetInduction
  <2> QED BY <2>3
<1>5. n \in M
  <2>0. ScoreOf(a, m) \in Nat /\ \A k \in 0 .. n : ScoreOf(b, k) \in Nat
    <3>1. m \in 0 .. Len(a)
      BY <1>2
    <3> QED BY <1>2, <3>1, ScoreGrows
  <2>1. 0 \in M
    <3>1. ScoreOf(h, m + 0) = ScoreOf(a, m) /\ ScoreOf(b, 0) = 0
      BY <1>4, ScoreGrows
    <3> QED BY <2>0, <3>1
  <2>2. ASSUME NEW k \in Nat, k \in M PROVE k + 1 \in M
    <3> SUFFICES ASSUME k + 1 <= n
                 PROVE  ScoreOf(h, m + (k + 1)) = ScoreOf(a, m) + ScoreOf(b, k + 1)
      OBVIOUS
    <3>1. PICK i : i = m + (k + 1)
      OBVIOUS
    <3>2. /\ k + 1 \in 1 .. n /\ i \in 1 .. Len(h) /\ k + 1 \in 1 .. Len(b)
          /\ (k + 1) - 1 = k /\ k <= n /\ i - 1 = m + k /\ k \in 0 .. n
      BY <1>2, <1>3, <3>1
    <3>3. /\ ScoreOf(h, i) = ScoreOf(h, i - 1) + h[i].score
          /\ ScoreOf(b, k + 1) = ScoreOf(b, k) + b[k + 1].score
      BY <1>3, <3>2, ScoreGrows
    <3>4. h[i] = b[k + 1]
      BY <1>3, <3>1, <3>2
    <3>5. ScoreOf(h, i - 1) = ScoreOf(a, m) + ScoreOf(b, k)
      BY <2>2, <3>2
    <3>6. b[k + 1].score \in Nat
      <4>1. b[k + 1] \in Rule
        BY <3>2
      <4> QED BY <4>1, RulesAre
    <3> QED BY <2>0, <3>1, <3>2, <3>3, <3>4, <3>5, <3>6
  <2>3. Nat \subseteq M
    <3> HIDE DEF M
    <3> QED BY <2>1, <2>2, SetInduction
  <2> QED BY <2>3
<1> QED BY <1>1, <1>2, <1>3, <1>5 DEF Total
-----------------------------------------------------------------------------
(* The matches of a phase. *)
Repeated(rs) == [i \in DOMAIN rs |-> [t \in 1 .. matches[rs[i].id] |-> rs[i]]]

Joined(ss, n, f) == [i \in 1 .. n |-> IF i = 1 THEN ss[i] ELSE f[i - 1] \o ss[i]]

LEMMA JoinedExists ==
  ASSUME NEW ss, NEW n \in Nat
  PROVE  \E f : f = Joined(ss, n, f)
<1> DEFINE N == {k \in Nat : \E f : f = Joined(ss, k, f)}
<1>1. 0 \in N
  <2>1. \A f : Joined(ss, 0, f) = [i \in 1 .. 0 |-> ss[i]]
    BY DEF Joined
  <2> QED BY <2>1
<1>2. ASSUME NEW k \in Nat, k \in N PROVE k + 1 \in N
  <2>1. PICK f : f = Joined(ss, k, f)
    BY <1>2
  <2>2. PICK g : g = Joined(ss, k + 1, f)
    OBVIOUS
  <2>3. ASSUME NEW i \in 1 .. (k + 1), i # 1 PROVE g[i - 1] = f[i - 1]
    <3>1. PICK j : j = i - 1
      OBVIOUS
    <3>2. j \in 1 .. k /\ j \in 1 .. (k + 1)
      BY <2>3, <3>1
    <3>3. g[j] = IF j = 1 THEN ss[j] ELSE f[j - 1] \o ss[j]
      BY <2>2, <3>2 DEF Joined
    <3>4. Joined(ss, k, f)[j] = IF j = 1 THEN ss[j] ELSE f[j - 1] \o ss[j]
      BY <3>2 DEF Joined
    <3> QED BY <2>1, <3>1, <3>3, <3>4
  <2>4. g = Joined(ss, k + 1, g)
    BY <2>2, <2>3 DEF Joined
  <2> QED BY <2>4
<1>3. Nat \subseteq N
  <2> HIDE DEF N
  <2> QED BY <1>1, <1>2, SetInduction
<1> QED BY <1>3

LEMMA FlattenJoins ==
  ASSUME NEW S, NEW n \in Nat, NEW ss, Len(ss) = n, n # 0,
         \A i \in 1 .. n : ss[i] \in Seq(S)
  PROVE  FlattenSeq(ss) \in Seq(S)
<1>1. PICK f : f = CHOOSE g : g = Joined(ss, n, g)
  OBVIOUS
<1>2. f = Joined(ss, n, f)
  BY <1>1, JoinedExists
<1>3. \A i \in 1 .. n : f[i] = IF i = 1 THEN ss[i] ELSE f[i - 1] \o ss[i]
  <2> SUFFICES ASSUME NEW i \in 1 .. n
               PROVE  f[i] = IF i = 1 THEN ss[i] ELSE f[i - 1] \o ss[i]
    OBVIOUS
  <2>1. Joined(ss, n, f)[i] = IF i = 1 THEN ss[i] ELSE f[i - 1] \o ss[i]
    BY DEF Joined
  <2> QED BY <1>2, <2>1
<1> DEFINE N == {k \in Nat : k # 0 /\ k <= n => f[k] \in Seq(S)}
<1>4. 0 \in N
  OBVIOUS
<1>5. ASSUME NEW k \in Nat, k \in N PROVE k + 1 \in N
  <2> SUFFICES ASSUME k + 1 <= n PROVE f[k + 1] \in Seq(S)
    OBVIOUS
  <2>1. k + 1 \in 1 .. n /\ (k + 1) - 1 = k /\ ss[k + 1] \in Seq(S)
    OBVIOUS
  <2>2. CASE k = 0
    BY <1>3, <2>1, <2>2
  <2>3. CASE k # 0
    <3>0. PICK i \in 1 .. n : i = k + 1
      BY <2>1
    <3>a. i # 1 /\ i - 1 = k /\ k <= n
      BY <2>3, <3>0
    <3>b. f[i] = f[i - 1] \o ss[i]
      BY <1>3, <3>a
    <3>c. f[k] \in Seq(S)
      BY <1>5, <2>3, <3>a
    <3>1. f[k + 1] = f[k] \o ss[k + 1] /\ f[k] \in Seq(S)
      BY ONLY <3>0, <3>a, <3>b, <3>c
    <3> QED BY <2>1, <3>1, ConcatProperties
  <2> QED BY <2>2, <2>3
<1>6. Nat \subseteq N
  <2> HIDE DEF N
  <2> QED BY <1>4, <1>5, SetInduction
<1>7. FlattenSeq(ss) = f[n]
  BY <1>1 DEF FlattenSeq, Joined
<1> QED BY <1>6, <1>7

LEMMA HitsAre ==
  ASSUME matches \in [RuleId -> Targets], NEW rs \in Seq(Rule)
  PROVE  Hits(rs) \in Seq(Rule) /\ (rs = <<>> => Hits(rs) = <<>>)
<1>1. PICK ss : ss = Repeated(rs)
  OBVIOUS
<1>2. DOMAIN ss = 1 .. Len(rs) /\ Len(rs) \in Nat
  BY <1>1 DEF Repeated
<1>3. ASSUME NEW i \in 1 .. Len(rs) PROVE ss[i] \in Seq(Rule)
  <2>1. rs[i] \in Rule
    OBVIOUS
  <2>2. PICK k \in Nat : k = matches[rs[i].id]
    BY <2>1, RulesAre, WafPipelineAssumption
  <2>3. ss[i] = [t \in 1 .. k |-> rs[i]]
    <3>1. i \in DOMAIN rs
      OBVIOUS
    <3>2. Repeated(rs)[i] = [t \in 1 .. matches[rs[i].id] |-> rs[i]]
      BY ONLY <3>1 DEF Repeated
    <3> QED BY ONLY <1>1, <2>2, <3>2
  <2> QED BY <2>1, <2>3
<1>4. ss \in Seq(Seq(Rule)) /\ Len(ss) = Len(rs)
  <2>1. ss = [i \in 1 .. Len(rs) |-> ss[i]]
    BY <1>1, <1>2 DEF Repeated
  <2> QED BY <1>2, <1>3, <2>1
<1>5. Hits(rs) = FlattenSeq(ss)
  BY <1>1 DEF Hits, Repeated
<1>6. CASE rs = <<>>
  <2>1. Len(ss) = 0 /\ ss = <<>>
    BY <1>4, <1>6
  <2>2. FlattenSeq(ss) = ss
    BY <2>1 DEF FlattenSeq
  <2> QED BY <1>5, <2>1, <2>2, EmptySeq
<1>7. CASE rs # <<>>
  <2>1. Len(rs) # 0
    BY <1>7
  <2>2. PICK n \in Nat : n = Len(rs)
    OBVIOUS
  <2>3. FlattenSeq(ss) \in Seq(Rule)
    BY ONLY <1>3, <1>4, <2>1, <2>2, FlattenJoins
  <2> QED BY <1>5, <1>7, <2>3
<1> QED BY <1>6, <1>7
-----------------------------------------------------------------------------
(* The matches of three phases. *)
LEMMA ToSetJoins ==
  ASSUME NEW a \in Seq(Rule), NEW b \in Seq(Rule)
  PROVE  ToSet(a \o b) = ToSet(a) \cup ToSet(b)
<1>1. PICK h : h = a \o b
  OBVIOUS
<1>2. PICK m \in Nat, n \in Nat : m = Len(a) /\ n = Len(b)
  OBVIOUS
<1>3. /\ DOMAIN h = 1 .. m + n /\ DOMAIN a = 1 .. m /\ DOMAIN b = 1 .. n
      /\ \A k \in 1 .. m : h[k] = a[k]
      /\ \A k \in 1 .. n : h[m + k] = b[k]
  BY <1>1, <1>2
<1>4. ASSUME NEW x \in ToSet(h) PROVE x \in ToSet(a) \cup ToSet(b)
  <2>1. PICK i \in 1 .. m + n : x = h[i]
    BY <1>3, <1>4 DEF ToSet
  <2>2. CASE i <= m
    <3>1. i \in 1 .. m
      BY <2>2
    <3> QED BY <1>3, <2>1, <3>1 DEF ToSet
  <2>3. CASE i > m
    <3>1. PICK k \in 1 .. n : k = i - m
      BY <2>3
    <3>2. i = m + k
      BY <3>1
    <3> QED BY <1>3, <2>1, <3>2 DEF ToSet
  <2> QED BY <2>2, <2>3
<1>5. ASSUME NEW x \in ToSet(a) \cup ToSet(b) PROVE x \in ToSet(h)
  <2>1. CASE x \in ToSet(a)
    <3>1. PICK i \in 1 .. m : x = a[i]
      BY <1>3, <2>1 DEF ToSet
    <3>2. i \in 1 .. m + n
      OBVIOUS
    <3> QED BY <1>3, <3>1, <3>2 DEF ToSet
  <2>2. CASE x \in ToSet(b)
    <3>1. PICK i \in 1 .. n : x = b[i]
      BY <1>3, <2>2 DEF ToSet
    <3>2. m + i \in 1 .. m + n
      OBVIOUS
    <3> QED BY <1>3, <3>1, <3>2 DEF ToSet
  <2> QED BY <1>5, <2>1, <2>2
<1> QED BY <1>1, <1>4, <1>5

Whole(f) == f[1] \o f[2] \o f[3]

LEMMA WholeIs ==
  ASSUME NEW f \in [1 .. 3 -> Seq(Rule)]
  PROVE  /\ Whole(f) \in Seq(Rule)
         /\ Total(Whole(f)) = Total(f[1]) + Total(f[2]) + Total(f[3])
         /\ ToSet(Whole(f)) = ToSet(f[1]) \cup ToSet(f[2]) \cup ToSet(f[3])
<1>1. PICK a \in Seq(Rule), b \in Seq(Rule), c \in Seq(Rule) :
        a = f[1] /\ b = f[2] /\ c = f[3]
  <2>1. f[1] \in Seq(Rule) /\ f[2] \in Seq(Rule) /\ f[3] \in Seq(Rule)
    OBVIOUS
  <2> QED BY <2>1
<1>2. PICK d \in Seq(Rule) : d = a \o b
  BY ConcatProperties
<1>3. PICK e \in Seq(Rule) : e = d \o c
  BY ConcatProperties
<1>4. Total(d) = Total(a) + Total(b) /\ Total(e) = Total(d) + Total(c)
  BY <1>2, <1>3, TotalJoins
<1>5. ToSet(d) = ToSet(a) \cup ToSet(b) /\ ToSet(e) = ToSet(d) \cup ToSet(c)
  BY <1>2, <1>3, ToSetJoins
<1>6. Whole(f) = e
  BY <1>1, <1>2, <1>3 DEF Whole
<1> QED BY <1>1, <1>4, <1>5, <1>6, TotalIsNat

LEMMA WholeUpdate ==
  ASSUME NEW f \in [1 .. 3 -> Seq(Rule)], NEW g \in [1 .. 3 -> Seq(Rule)],
         NEW p \in 1 .. 3, NEW h \in Seq(Rule), f[p] = <<>>, g[p] = h,
         \A q \in 1 .. 3 : q # p => g[q] = f[q]
  PROVE  /\ Whole(g) \in Seq(Rule)
         /\ Total(Whole(g)) = Total(Whole(f)) + Total(h)
         /\ ToSet(Whole(g)) \subseteq ToSet(Whole(f)) \cup ToSet(h)
<1>1. g \in [1 .. 3 -> Seq(Rule)] /\ g[p] = h /\ \A q \in 1 .. 3 : q # p => g[q] = f[q]
  OBVIOUS
<1>2. Total(<<>>) = 0
  <2>1. <<>> \in Seq(Rule) /\ Len(<<>>) = 0
    BY EmptySeq
  <2> QED BY <2>1, ScoreGrows DEF Total
<1>3. \A q \in 1 .. 3 : Total(f[q]) \in Nat /\ Total(g[q]) \in Nat
  BY <1>1, TotalIsNat
<1>4. /\ Total(g[p]) = Total(f[p]) + Total(h)
      /\ ToSet(g[p]) \subseteq ToSet(f[p]) \cup ToSet(h)
      /\ Total(h) \in Nat
  BY <1>1, <1>2, TotalIsNat
<1>5. \A q \in 1 .. 3 : q # p => Total(g[q]) = Total(f[q]) /\ ToSet(g[q]) = ToSet(f[q])
  BY <1>1
<1>6. Total(g[1]) + Total(g[2]) + Total(g[3])
        = Total(f[1]) + Total(f[2]) + Total(f[3]) + Total(h)
  <2>1. 1 \in 1 .. 3 /\ 2 \in 1 .. 3 /\ 3 \in 1 .. 3 /\ (p = 1 \/ p = 2 \/ p = 3)
    OBVIOUS
  <2>2. /\ Total(f[1]) \in Nat /\ Total(f[2]) \in Nat /\ Total(f[3]) \in Nat
        /\ Total(h) \in Nat
    BY ONLY <1>3, <1>4, <2>1
  <2>3. CASE p = 1
    <3>1. /\ Total(g[1]) = Total(f[1]) + Total(h)
          /\ Total(g[2]) = Total(f[2]) /\ Total(g[3]) = Total(f[3])
      BY ONLY <1>4, <1>5, <2>1, <2>3
    <3> QED BY ONLY <2>2, <3>1
  <2>4. CASE p = 2
    <3>1. /\ Total(g[2]) = Total(f[2]) + Total(h)
          /\ Total(g[1]) = Total(f[1]) /\ Total(g[3]) = Total(f[3])
      BY ONLY <1>4, <1>5, <2>1, <2>4
    <3> QED BY ONLY <2>2, <3>1
  <2>5. CASE p = 3
    <3>1. /\ Total(g[3]) = Total(f[3]) + Total(h)
          /\ Total(g[1]) = Total(f[1]) /\ Total(g[2]) = Total(f[2])
      BY ONLY <1>4, <1>5, <2>1, <2>5
    <3> QED BY ONLY <2>2, <3>1
  <2> QED BY ONLY <2>1, <2>3, <2>4, <2>5
<1>7. ToSet(g[1]) \cup ToSet(g[2]) \cup ToSet(g[3])
        \subseteq ToSet(f[1]) \cup ToSet(f[2]) \cup ToSet(f[3]) \cup ToSet(h)
  <2>1. 1 \in 1 .. 3 /\ 2 \in 1 .. 3 /\ 3 \in 1 .. 3 /\ (p = 1 \/ p = 2 \/ p = 3)
    OBVIOUS
  <2> QED BY ONLY <1>4, <1>5, <2>1
<1> QED BY <1>1, <1>6, <1>7, WholeIs
-----------------------------------------------------------------------------
(* Until something blocks, the score is that of all matches so far, and    *)
(* none of them, alone or with those before it, is one that blocks.        *)
Early == {"phase1", "phase2", "record", "upstream", "phase3", "phase4"}

RulesInv ==
  /\ rules \in RuleSet /\ matches \in [RuleId -> Targets]
  /\ applied \in [Phase -> Seq(Rule)]
  /\ pc \in Early => ~state.blocked /\ state.score = Total(Passed)
  /\ ~state.blocked => Harmless(Passed)
  /\ ~state.blocked /\ pc # "phase1" => verdict = "pass"
  /\ pc = "phase1" => applied[1] = <<>>
  /\ pc \in {"phase1", "phase2"} => applied[2] = <<>>
  /\ pc \in {"phase1", "phase2", "record", "upstream", "phase3"} => applied[3] = <<>>

PhaseHits == [q \in 1 .. 3 |-> Hits(applied[q])]

LEMMA PassedIs ==
  /\ Passed = Whole(PhaseHits)
  /\ RulesInv => /\ PhaseHits \in [1 .. 3 -> Seq(Rule)] /\ Passed \in Seq(Rule)
                 /\ \A q \in 1 .. 3 : applied[q] = <<>> => PhaseHits[q] = <<>>
<1>1. Passed = Whole(PhaseHits)
  BY DEF Passed, Whole, PhaseHits
<1>2. ASSUME RulesInv
      PROVE  /\ PhaseHits \in [1 .. 3 -> Seq(Rule)]
             /\ \A q \in 1 .. 3 : applied[q] = <<>> => PhaseHits[q] = <<>>
  <2> SUFFICES ASSUME NEW q \in 1 .. 3
               PROVE  Hits(applied[q]) \in Seq(Rule) /\ (applied[q] = <<>> => Hits(applied[q]) = <<>>)
    BY DEF PhaseHits
  <2>1. applied[q] \in Seq(Rule) /\ matches \in [RuleId -> Targets]
    BY <1>2 DEF RulesInv, Phase
  <2> QED BY <2>1, HitsAre
<1> QED BY <1>1, <1>2, WholeIs

LEMMA InitRules == Init => RulesInv
<1> SUFFICES ASSUME Init PROVE RulesInv
  OBVIOUS
<1>1. /\ rules \in RuleSet /\ matches \in [RuleId -> Targets] /\ pc = "phase1"
      /\ state.score = 0 /\ ~state.blocked /\ applied = [p \in Phase |-> <<>>]
  BY DEF Init
<1>2. applied \in [Phase -> Seq(Rule)] /\ \A q \in 1 .. 3 : applied[q] = <<>>
  BY <1>1, EmptySeq DEF Phase
<1>3. \A q \in 1 .. 3 : Hits(applied[q]) = <<>>
  BY <1>1, <1>2, HitsAre, EmptySeq
<1>4. Passed = <<>>
  <2>1. Hits(applied[1]) = <<>> /\ Hits(applied[2]) = <<>> /\ Hits(applied[3]) = <<>>
    BY <1>3
  <2> QED BY <2>1 DEF Passed
<1>5. Total(Passed) = 0 /\ Harmless(Passed)
  <2>1. <<>> \in Seq(Rule) /\ Len(<<>>) = 0 /\ ToSet(<<>>) = {}
    BY EmptySeq DEF ToSet
  <2>2. Total(<<>>) = 0
    BY <2>1, ScoreGrows DEF Total
  <2>3. ScoreOf(<<>>, Len(<<>>)) < AnomalyThreshold
    <3>1. ScoreOf(<<>>, Len(<<>>)) = 0
      BY Zenon, <2>2 DEF Total
    <3>2. AnomalyThreshold \in Nat \ {0}
      BY WafPipelineAssumption
    <3> QED BY ONLY <3>1, <3>2
  <2>4. Harmless(<<>>)
    BY <2>1, <2>3 DEF Harmless
  <2> QED BY <1>4, <2>2, <2>4
<1> QED BY <1>1, <1>2, <1>5 DEF RulesInv

(* One phase. *)
LEMMA RulesRun ==
  ASSUME RulesInv, NEW p \in 1 .. 3, pc \in Early, applied[p] = <<>>,
         NEW next, RunRules(p, next), UNCHANGED matches
  PROVE  /\ applied' \in [Phase -> Seq(Rule)]
         /\ \A q \in Phase : q # p => applied'[q] = applied[q]
         /\ \/ pc' = "done" /\ state'.blocked
            \/ /\ pc' = next /\ ~state'.blocked
               /\ state'.score = Total(Passed') /\ Harmless(Passed')
<1>1. /\ rules \in RuleSet /\ matches \in [RuleId -> Targets]
      /\ applied \in [Phase -> Seq(Rule)] /\ p \in Phase
      /\ state.score = Total(Passed) /\ Harmless(Passed)
  BY DEF RulesInv, Phase
<1>2. rules[p] \in Seq(Rule)
  BY <1>1, RulesAre
<1>3. PICK h \in Seq(Rule) : h = Hits(rules[p])
  BY <1>1, <1>2, HitsAre
<1>4. applied' = [applied EXCEPT ![p] = rules[p]]
  BY DEF RunRules
<1>5. /\ applied' \in [Phase -> Seq(Rule)]
      /\ \A q \in Phase : q # p => applied'[q] = applied[q]
  BY <1>1, <1>2, <1>4
<1>6. PICK f \in [1 .. 3 -> Seq(Rule)] : f = PhaseHits
  BY PassedIs
<1>7. f[p] = <<>> /\ Passed = Whole(f)
  BY <1>6, PassedIs
<1>8. PICK g : g = [f EXCEPT ![p] = h]
  OBVIOUS
<1>9. Passed' = Whole(g)
  <2>1. PICK s1, s2, s3 : s1 = applied'[1] /\ s2 = applied'[2] /\ s3 = applied'[3]
    OBVIOUS
  <2>2. Passed' = Hits(s1) \o Hits(s2) \o Hits(s3)
    BY <2>1 DEF Passed, Hits
  <2>3. ASSUME NEW q \in 1 .. 3, NEW s, s = applied'[q] PROVE Hits(s) = g[q]
    <3>1. f[q] = Hits(applied[q])
      BY <1>6 DEF PhaseHits
    <3>2. CASE q = p
      <4>1. s = rules[p]
        BY <1>1, <1>4, <2>3, <3>2
      <4>2. g[q] = h
        BY <1>8, <3>2
      <4> QED BY <1>3, <4>1, <4>2
    <3>3. CASE q # p
      <4>1. s = applied[q]
        BY <1>5, <2>3, <3>3 DEF Phase
      <4>2. g[q] = f[q]
        BY <1>8, <3>3
      <4> QED BY <3>1, <4>1, <4>2
    <3> QED BY <3>2, <3>3
  <2>4. Hits(s1) = g[1] /\ Hits(s2) = g[2] /\ Hits(s3) = g[3]
    BY <2>1, <2>3
  <2> QED BY <2>2, <2>4 DEF Whole
<1>10. /\ Whole(g) \in Seq(Rule)
       /\ Total(Whole(g)) = Total(Passed) + Total(h)
       /\ ToSet(Whole(g)) \subseteq ToSet(Passed) \cup ToSet(h)
  <2>1. /\ Whole(g) \in Seq(Rule)
        /\ Total(Whole(g)) = Total(Whole(f)) + Total(h)
        /\ ToSet(Whole(g)) \subseteq ToSet(Whole(f)) \cup ToSet(h)
    <3>1. /\ g \in [1 .. 3 -> Seq(Rule)] /\ g[p] = h
          /\ \A q \in 1 .. 3 : q # p => g[q] = f[q]
      BY ONLY <1>8, f \in [1 .. 3 -> Seq(Rule)], h \in Seq(Rule), p \in 1 .. 3
    <3>2. f \in [1 .. 3 -> Seq(Rule)] /\ h \in Seq(Rule) /\ p \in 1 .. 3 /\ f[p] = <<>>
      BY <1>7
    <3> QED BY ONLY <3>1, <3>2, WholeUpdate
  <2>2. PICK w : w = Whole(f)
    OBVIOUS
  <2> QED BY ONLY <1>7, <2>1, <2>2
<1>11. Total(Passed) \in Nat /\ Total(h) \in Nat /\ Total(Passed) < AnomalyThreshold
  <2>1. Passed \in Seq(Rule)
    BY PassedIs
  <2> QED BY <1>1, <2>1, TotalIsNat DEF Harmless, Total
<1>12. CASE {n \in DOMAIN h : BlocksAt(h, n, state.score)} # {}
  <2>1. pc' = "done" /\ state'.blocked
    BY <1>3, <1>12 DEF RunRules, Block
  <2> QED BY <1>5, <2>1
<1>13. CASE {n \in DOMAIN h : BlocksAt(h, n, state.score)} = {}
  <2>1. Allow(state.score + ScoreOf(h, Len(h)), next)
    BY <1>3, <1>13 DEF RunRules
  <2>2. pc' = next /\ ~state'.blocked /\ state'.score = Total(Passed) + Total(h)
    BY <1>1, <2>1 DEF Allow, Total
  <2>3. \A n \in 1 .. Len(h) :
          h[n].mode # "block" /\ ~(state.score + ScoreOf(h, n) >= AnomalyThreshold)
    BY <1>13 DEF BlocksAt
  <2>4. \A r \in ToSet(h) : r.mode # "block"
    BY <2>3 DEF ToSet
  <2>5. Total(Passed) + Total(h) < AnomalyThreshold
    <3>1. CASE Len(h) = 0
      <4>1. Total(h) = 0
        BY <3>1, ScoreGrows DEF Total
      <4> QED BY <1>11, <4>1
    <3>2. CASE Len(h) # 0
      <4>1. Len(h) \in 1 .. Len(h)
        BY <3>2
      <4>2. ~(Total(Passed) + Total(h) >= AnomalyThreshold)
        BY <1>1, <2>3, <4>1 DEF Total
      <4>3. AnomalyThreshold \in Nat
        BY WafPipelineAssumption
      <4> QED BY <1>11, <4>2, <4>3
    <3> QED BY <3>1, <3>2
  <2>6. Total(Whole(g)) < AnomalyThreshold
    BY <1>10, <2>5
  <2>7. \A r \in ToSet(Whole(g)) : r.mode # "block"
    BY <1>1, <1>10, <2>4 DEF Harmless
  <2>8. PICK w : w = Whole(g)
    OBVIOUS
  <2>9. Harmless(w) /\ Total(w) = Total(Passed) + Total(h)
    BY <1>10, <2>6, <2>7, <2>8 DEF Harmless, Total
  <2>10. Passed' = w
    BY <1>9, <2>8
  <2>11. Harmless(Passed') /\ Total(Passed') = Total(w)
    BY Zenon, <2>9, <2>10
  <2> QED BY <1>5, <2>2, <2>9, <2>11
<1> QED BY <1>12, <1>13

(* What is no phase leaves the rules that the three have run and the score. *)
LEMMA RulesKept ==
  ASSUME RulesInv, UNCHANGED <<matches, verdict>>, rules' \in RuleSet,
         applied' \in [Phase -> Seq(Rule)], \A q \in 1 .. 3 : applied'[q] = applied[q],
         pc' = "phase1" <=> pc = "phase1",
         pc' \in {"phase1", "phase2"} => pc \in {"phase1", "phase2"},
         pc' \in {"phase1", "phase2", "record", "upstream", "phase3"} =>
           pc \in {"phase1", "phase2", "record", "upstream", "phase3"},
         pc' \in Early => pc \in Early /\ state' = state,
         ~state'.blocked => ~state.blocked
  PROVE  RulesInv'
<1>1. PICK w : w = Passed
  OBVIOUS
<1>2. Passed' = w
  <2>1. PICK s1, s2, s3 : s1 = applied'[1] /\ s2 = applied'[2] /\ s3 = applied'[3]
    OBVIOUS
  <2>2. s1 = applied[1] /\ s2 = applied[2] /\ s3 = applied[3]
    BY <2>1
  <2>3. Passed' = Hits(s1) \o Hits(s2) \o Hits(s3)
    BY <2>1 DEF Passed, Hits
  <2> QED BY Zenon, <1>1, <2>2, <2>3 DEF Passed
<1>3. pc' \in Early => ~state'.blocked /\ state'.score = Total(w)
  BY <1>1 DEF RulesInv
<1>4. pc' \in Early => ~state'.blocked /\ state'.score = Total(Passed')
  BY Zenon, <1>2, <1>3
<1>5. ~state'.blocked => Harmless(w)
  BY <1>1 DEF RulesInv
<1>6. ~state'.blocked => Harmless(Passed')
  BY Zenon, <1>2, <1>5
<1>7. rules' \in RuleSet /\ matches' \in [RuleId -> Targets]
  BY DEF RulesInv
<1>8. ~state'.blocked /\ pc' # "phase1" => verdict' = "pass"
  <2>1. ASSUME ~state'.blocked, pc' # "phase1" PROVE ~state.blocked /\ pc # "phase1"
    BY <2>1
  <2> QED BY <2>1 DEF RulesInv
<1>9. /\ pc' = "phase1" => applied'[1] = <<>>
      /\ pc' \in {"phase1", "phase2"} => applied'[2] = <<>>
      /\ pc' \in {"phase1", "phase2", "record", "upstream", "phase3"} => applied'[3] = <<>>
  <2>1. applied'[1] = applied[1] /\ applied'[2] = applied[2] /\ applied'[3] = applied[3]
    OBVIOUS
  <2> QED BY <2>1 DEF RulesInv
<1> QED BY <1>4, <1>6, <1>7, <1>8, <1>9 DEF RulesInv, Total

LEMMA PhaseRuns ==
  ASSUME RulesInv, UNCHANGED <<rules, matches, verdict>>,
         NEW p \in 1 .. 3, NEW next, RunRules(p, next),
         \/ p = 1 /\ pc = "phase1" /\ verdict = "pass" /\ next = "phase2"
         \/ p = 2 /\ pc = "phase2" /\ next = "record"
         \/ p = 3 /\ pc = "phase3" /\ next = "phase4"
  PROVE  RulesInv'
<1>1. pc \in Early /\ applied[p] = <<>>
  BY DEF RulesInv, Early
<1>2. /\ applied' \in [Phase -> Seq(Rule)]
      /\ \A q \in Phase : q # p => applied'[q] = applied[q]
      /\ \/ pc' = "done" /\ state'.blocked
         \/ /\ pc' = next /\ ~state'.blocked
            /\ state'.score = Total(Passed') /\ Harmless(Passed')
  BY <1>1, RulesRun
<1>3. rules' \in RuleSet /\ matches' \in [RuleId -> Targets]
  BY DEF RulesInv
<1>4. CASE pc' = "done" /\ state'.blocked
  BY <1>2, <1>3, <1>4 DEF RulesInv, Early
<1>5. CASE /\ pc' = next /\ ~state'.blocked
           /\ state'.score = Total(Passed') /\ Harmless(Passed')
  <2>1. verdict = "pass"
    BY <1>1 DEF RulesInv
  <2>2. p # 2 /\ p # 3 => applied'[2] = applied[2] /\ applied'[3] = applied[3]
    BY <1>2 DEF Phase
  <2>3. p # 3 => applied'[3] = applied[3]
    BY <1>2 DEF Phase
  <2>4. /\ pc' # "phase1"
        /\ pc' \in {"phase1", "phase2"} => applied'[2] = <<>>
        /\ pc' \in {"phase1", "phase2", "record", "upstream", "phase3"} => applied'[3] = <<>>
    BY <1>5, <2>2, <2>3 DEF RulesInv
  <2> QED BY <1>2, <1>3, <1>5, <2>1, <2>4 DEF RulesInv, Total
<1> QED BY <1>2, <1>4, <1>5

LEMMA RulesStep == RulesInv /\ [Next]_vars => RulesInv'
<1> SUFFICES ASSUME RulesInv, [Next]_vars PROVE RulesInv'
  OBVIOUS
<1>0. /\ 1 \in 1 .. 3 /\ 2 \in 1 .. 3 /\ 3 \in 1 .. 3
      /\ rules \in RuleSet /\ applied \in [Phase -> Seq(Rule)]
  BY DEF RulesInv
<1>1. CASE Reload
  BY <1>0, <1>1, RulesKept DEF Reload, given, past
<1>2. CASE PolicyBlocks
  <2>1. /\ pc' = "done" /\ state'.blocked
        /\ UNCHANGED <<rules, matches, applied, verdict>>
    BY <1>2 DEF PolicyBlocks, Block, given, past
  <2> QED BY <2>1 DEF RulesInv, Early
<1>3. CASE Phase1
  BY <1>0, <1>3, PhaseRuns DEF Phase1, given
<1>4. CASE Phase2
  BY <1>0, <1>4, PhaseRuns DEF Phase2, given
<1>5. CASE Phase3
  BY <1>0, <1>5, PhaseRuns DEF Phase3, given
<1>6. CASE ServeMetrics
  BY <1>0, <1>6, RulesKept DEF ServeMetrics, given, Early
<1>7. CASE Record
  BY <1>0, <1>7, RulesKept DEF Record, given, past, Early
<1>8. CASE UpstreamWrites
  BY <1>0, <1>8, RulesKept DEF UpstreamWrites, given, Early
<1>9. CASE UpstreamFlushes
  BY <1>0, <1>9, RulesKept DEF UpstreamFlushes, given, past, Early
<1>10. CASE UpstreamReturns
  BY <1>0, <1>10, RulesKept DEF UpstreamReturns, given, past, Early
<1>11. CASE UpstreamPanics
  BY <1>0, <1>11, RulesKept DEF UpstreamPanics, given, past, Early
<1>12. CASE Phase4Skips
  BY <1>0, <1>12, RulesKept DEF Phase4Skips, given, past, Early
<1>13. CASE Phase4
  <2>1. /\ pc = "phase4" /\ pc' = "answer" /\ rules' = rules
        /\ UNCHANGED <<matches, verdict>>
        /\ applied' = [applied EXCEPT ![4] = rules[4]]
    BY <1>13 DEF Phase4, given
  <2>2. rules[4] \in Seq(Rule)
    BY <1>0, RulesAre DEF Phase
  <2>3. applied' \in [Phase -> Seq(Rule)] /\ \A q \in 1 .. 3 : applied'[q] = applied[q]
    BY ONLY <1>0, <2>1, <2>2 DEF Phase
  <2>4. ~state.blocked
    BY <2>1 DEF RulesInv, Early
  <2> QED BY <1>0, <2>1, <2>3, <2>4, RulesKept DEF Early
<1>14. CASE AnswerBlocked
  BY <1>0, <1>14, RulesKept DEF AnswerBlocked, given, past, Early
<1>15. CASE AnswerAllowed
  BY <1>0, <1>15, RulesKept DEF AnswerAllowed, given, past, Early
<1>16. CASE UNCHANGED vars
  BY <1>0, <1>16, RulesKept DEF vars, given, past
<1> QED
  BY <1>1, <1>2, <1>3, <1>4, <1>5, <1>6, <1>7, <1>8, <1>9, <1>10, <1>11, <1>12,
     <1>13, <1>14, <1>15, <1>16 DEF Next

(* A request that goes on past Phase 1 was passed by every policy, and the *)
(* rules that matched in the phases so far - as each phase read them, and  *)
(* however often a reload stored others in between - have no mode "block"  *)
(* and scores that add up to less than the threshold.                      *)
THEOREM RequestsGoOnUnderThreshold == Spec => []GoesOnUnderThreshold
<1>1. RulesInv => GoesOnUnderThreshold
  BY DEF RulesInv, GoesOnUnderThreshold
<1> QED BY <1>1, InitRules, RulesStep, PTL DEF Spec
=============================================================================
