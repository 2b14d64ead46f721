--------------------------- MODULE MCTransactionLog ---------------------------
(* Instantiates TransactionLog for TLC: one-byte keys over two bytes,     *)
(* values of zero, one and two bytes, two operations per transaction and  *)
(* two eras, so a transaction can touch a key twice and two eras can      *)
(* touch the same key.                                                    *)
EXTENDS TransactionLog

MCKeyLen == 1
MCByteVals == {1, 2}
MCVals == {<<>>, <<1>>, <<2, 1>>}
MCMaxOps == 2
MCMaxEras == 2
====
