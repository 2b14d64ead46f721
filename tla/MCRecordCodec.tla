---------------------------- MODULE MCRecordCodec ----------------------------
(* Instantiates RecordCodec for TLC.  Keys of 1 or 2 bytes, values of up  *)
(* to 4 bytes and an expected size of 0 or 1 put a variable value at      *)
(* several offsets within its first field and make it cross one, two or   *)
(* three headers; a constant value shares one field with the key.  Two    *)
(* byte values tell a misread byte apart.                                  *)
EXTENDS RecordCodec

MCMaxKeyLen == 2
MCExpected == {0, 1}
MCByteVals == {7, 8}
MCMaxValueLen == 4

=============================================================================
