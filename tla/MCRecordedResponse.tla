------------------------ MODULE MCRecordedResponse ------------------------
(* Recorded responses for TLC: writes of nothing, of part of the limit and *)
(* of more than the limit.                                                 *)
EXTENDS RecordedResponse

Bytes2 == {"a", "b"}
Chunks == {<<>>, <<"a">>, <<"b">>, <<"a", "b">>, <<"b", "a", "a">>, <<"a", "b", "b", "a">>}
=============================================================================
