------------------------------ MODULE BodyPipe ------------------------------
(***************************************************************************)
(* What the client may see of a response body whatever is done to inspect  *)
(* it: the bytes of the upstream, in their order, each of them once, with  *)
(* some held back; and all of them when the response ends whole.           *)
(***************************************************************************)
EXTENDS Sequences

CONSTANT Chunk  (* what one write may bring: a set of byte strings *)

VARIABLES
  produced, (* the body as the upstream wrote it                           *)
  wire,     (* what the client has received                                *)
  end       (* "open", "whole", or "cut" by a block or a lost client       *)

pipeVars == <<produced, wire, end>>

PipeInit == produced = <<>> /\ wire = <<>> /\ end = "open"

HoldBack(bytes) ==
  /\ end = "open"
  /\ produced' = produced \o bytes
  /\ UNCHANGED <<wire, end>>

PassOn(bytes) ==
  /\ end = "open"
  /\ produced' = produced \o bytes /\ wire' = produced'
  /\ UNCHANGED end

CatchUp ==
  /\ end = "open"
  /\ wire' = produced
  /\ UNCHANGED <<produced, end>>

EndWhole ==
  /\ end = "open"
  /\ wire' = produced /\ end' = "whole"
  /\ UNCHANGED produced

EndCut ==
  /\ end = "open"
  /\ end' = "cut"
  /\ UNCHANGED <<produced, wire>>

PipeNext ==
  \/ \E bytes \in Chunk : HoldBack(bytes) \/ PassOn(bytes)
  \/ CatchUp \/ EndWhole \/ EndCut

PipeSpec == PipeInit /\ [][PipeNext]_pipeVars
=============================================================================
