-------------------------- MODULE RecordedResponse --------------------------
(***************************************************************************)
(* One response on its way through a responseRecorder: the upstream        *)
(* handler writes, sets the status and flushes as it likes, then the WAF   *)
(* either discards what is held (a block) or copies it to the client.      *)
(***************************************************************************)
EXTENDS ResponseRecorder

CONSTANTS
  Byte,
  Writes,       (* the byte strings one Write may bring                     *)
  StatusCode,   (* the statuses the upstream may set                        *)
  Inspect,      (* whether a Phase 4 rule was loaded: hasResponseBodyRules  *)
  MaxBody       (* bound: the length of the body                            *)

ASSUME RecordedResponseAssumption ==
  /\ Writes \subseteq Seq(Byte)
  /\ StatusCode \subseteq Nat \ {Unset}
  /\ Inspect \in BOOLEAN /\ MaxBody \in Nat

VARIABLES
  recorder,     (* the recorder, over it the client                         *)
  upstreamBody, (* history: the bytes the upstream has written              *)
  stage         (* "upstream", "returned", "whole" or "cut"                    *)

recordedVars == <<recorder, upstreamBody, stage>>

RecordedInit ==
  /\ recorder = NewRecorder(Inspect)
  /\ upstreamBody = <<>>
  /\ stage = "upstream"

UpstreamHeader(code) ==
  /\ stage = "upstream"
  /\ recorder' = WriteHeader(SetHeader(recorder, "upstream"), code)
  /\ UNCHANGED <<upstreamBody, stage>>

UpstreamWrite(bytes) ==
  /\ stage = "upstream"
  /\ Len(upstreamBody) + Len(bytes) <= MaxBody
  /\ recorder' = Write(recorder, bytes)
  /\ upstreamBody' = upstreamBody \o bytes
  /\ UNCHANGED stage

UpstreamFlush ==
  /\ stage = "upstream"
  /\ recorder' = Flush(recorder)
  /\ UNCHANGED <<upstreamBody, stage>>

(* The connection breaks: writes to the client fail from now on. *)
ClientLeaves ==
  /\ stage \in {"upstream", "returned"}
  /\ ~recorder.gone
  /\ recorder' = [recorder EXCEPT !.gone = TRUE]
  /\ UNCHANGED <<upstreamBody, stage>>

UpstreamDone ==
  /\ stage = "upstream"
  /\ stage' = "returned"
  /\ UNCHANGED <<recorder, upstreamBody>>

(* The response was not blocked. *)
Deliver ==
  /\ stage = "returned"
  /\ recorder' = CopyResponse(recorder)
  /\ stage' = IF recorder.gone THEN "cut" ELSE "whole"
  /\ UNCHANGED upstreamBody

(* The response was blocked: the recorder is dropped with what it holds.   *)
Discard ==
  /\ stage = "returned"
  /\ stage' = "cut"
  /\ UNCHANGED <<recorder, upstreamBody>>

RecordedNext ==
  \/ \E code \in StatusCode : UpstreamHeader(code)
  \/ \E bytes \in Writes : UpstreamWrite(bytes)
  \/ UpstreamFlush
  \/ ClientLeaves
  \/ UpstreamDone
  \/ Deliver
  \/ Discard

RecordedSpec == RecordedInit /\ [][RecordedNext]_recordedVars
-----------------------------------------------------------------------------
(* The recorder and the client hold sequences of bytes, a status that is   *)
(* none or one of the upstream's or the default, and flags; a recorder     *)
(* that has been written to has a status.                                  *)
RecordedTypeOK ==
  /\ upstreamBody \in Seq(Byte)
  /\ stage \in {"upstream", "returned", "whole", "cut"}
  /\ recorder.wire \in Seq(Byte) /\ recorder.body \in Seq(Byte)
  /\ recorder.status \in StatusCode \cup {Unset, OK}
  /\ recorder.statusCode \in StatusCode \cup {Unset, OK}
  /\ recorder.written \in BOOLEAN /\ recorder.gone \in BOOLEAN
  /\ recorder.written => recorder.statusCode # Unset
  /\ recorder.passthrough \in BOOLEAN /\ recorder.partial \in BOOLEAN

(* However large the writes are and however often the upstream flushes,    *)
(* the recorder never holds more than its limit, released bytes included.  *)
BufferBounded == Len(recorder.body) <= limit

(* While the recorder holds the response, no byte of it has reached the    *)
(* client and what Phase 4 would inspect is the whole of it; once a byte   *)
(* has, an inspecting recorder says so.                                    *)
HeldBodyIsWhole ==
  /\ (~recorder.passthrough /\ stage \in {"upstream", "returned"})
        => recorder.wire = <<>> /\ recorder.body = upstreamBody
  /\ (Inspect /\ recorder.passthrough) => recorder.partial

(* A flush of the upstream puts on the wire all that it wrote before.      *)
FlushDelivers ==
  [][(UpstreamFlush /\ ~recorder.gone) =>
       recorder'.wire = upstreamBody]_recordedVars

(* Through buffering, release, pass-through and copy, the client receives  *)
(* the bytes of the upstream in their order and each of them once.         *)
Pipe == INSTANCE BodyPipe WITH
  Chunk <- Writes, produced <- upstreamBody, wire <- recorder.wire,
  end <- IF stage \in {"upstream", "returned"} THEN "open" ELSE stage

ImplementsPipe == Pipe!PipeSpec
=============================================================================
