-------------------------- MODULE ResponseRecorder --------------------------
(***************************************************************************)
(* The responseRecorder of response.go as operators on one value o: the    *)
(* recorder's fields and, under them, what the client has received.  The   *)
(* recorder embeds the server's ResponseWriter, so status and body of the  *)
(* client (external: net/http) are fields of o too.                        *)
(***************************************************************************)
EXTENDS Integers, Sequences

CONSTANTS
  MaxResponseBodySize,        (* the configured limit; 0 asks for the default *)
  DefaultMaxResponseBodySize  (* 10 MiB                                       *)

ASSUME ResponseRecorderAssumption ==
  /\ MaxResponseBodySize \in Int
  /\ DefaultMaxResponseBodySize \in Nat \ {0}

OK    == 200
Unset == 0

limit == IF MaxResponseBodySize <= 0
         THEN DefaultMaxResponseBodySize ELSE MaxResponseBodySize

(* NewResponseRecorderWithLimit over a connection that has sent nothing.   *)
NewRecorder(inspect) ==
  [header      |-> "none", (* the Content-Type the handlers have set       *)
   status      |-> Unset,  (* the status line on the wire                  *)
   sentHeader  |-> "none", (* the Content-Type on the wire                 *)
   wire        |-> <<>>,   (* the body bytes on the wire                   *)
   gone        |-> FALSE,  (* writes to the client fail                    *)
   statusCode  |-> Unset,
   written     |-> FALSE,
   passthrough |-> ~inspect,
   partial     |-> FALSE,
   body        |-> <<>>]
-----------------------------------------------------------------------------
(* The server's ResponseWriter: the first status stays and goes out with   *)
(* the headers of that moment, a body byte before any status sends 200,    *)
(* nothing is added once the client has gone.                              *)
ClientHeader(o, code) ==
  IF o.status = Unset
  THEN [o EXCEPT !.status = code, !.sentHeader = o.header] ELSE o

SetHeader(o, type) == [o EXCEPT !.header = type]

ClientWrite(o, bytes) ==
  [ClientHeader(o, OK) EXCEPT !.wire = IF o.gone THEN @ ELSE @ \o bytes]

(* The recorder. *)
WriteHeader(o, code) ==
  ClientHeader([o EXCEPT !.statusCode = code], code)

DefaultHeader(o) ==
  IF o.statusCode = Unset /\ ~o.written THEN WriteHeader(o, OK) ELSE o

Fits(o, bytes) == Len(o.body) + Len(bytes) <= limit

Released(o) == [o EXCEPT !.partial = TRUE, !.passthrough = TRUE]

(* Variant: a released buffer is not marked, so it is copied once more. *)
ReleaseUnmarked(o) ==
  IF o.body = <<>> THEN o ELSE ClientWrite([o EXCEPT !.partial = TRUE], o.body)

(* release: what is held goes to the client, but stays in the buffer.      *)
Release(o) ==
  IF o.body = <<>> THEN Released(o) ELSE ClientWrite(Released(o), o.body)

(* Variant: the bytes that did not fit go out before those that did. *)
WriteOvertakes(o, bytes) ==
  LET h == [DefaultHeader(o) EXCEPT !.written = TRUE]
  IN  CASE h.passthrough  -> ClientWrite(h, bytes)
        [] ~h.passthrough /\ Fits(h, bytes) -> [h EXCEPT !.body = @ \o bytes]
        [] OTHER -> Release(ClientWrite(h, bytes))

(* Variant: the limit is compared before the new bytes are added. *)
WriteChecksLate(o, bytes) ==
  LET h == [DefaultHeader(o) EXCEPT !.written = TRUE]
  IN  CASE h.passthrough  -> ClientWrite(h, bytes)
        [] ~h.passthrough /\ Len(h.body) < limit -> [h EXCEPT !.body = @ \o bytes]
        [] OTHER -> ClientWrite(Release(h), bytes)

Write(o, bytes) ==
  LET h == [DefaultHeader(o) EXCEPT !.written = TRUE]
  IN  CASE h.passthrough  -> ClientWrite(h, bytes)
        [] ~h.passthrough /\ Fits(h, bytes) -> [h EXCEPT !.body = @ \o bytes]
        [] OTHER -> ClientWrite(Release(h), bytes)

Flush(o) ==
  ClientHeader(IF o.passthrough THEN o ELSE Release(o), OK)

(* copyResponse (handler.go): an allowed response that is still held.      *)
CopyResponse(o) ==
  IF o.passthrough THEN o ELSE ClientWrite(o, o.body)
=============================================================================
