---------------------------- MODULE MCExportRelay ----------------------------
(* A small instance of ExportRelay: the first record may age, the last is  *)
(* too large.                                                              *)
EXTENDS ExportRelay

CONSTANT i1

First == {<<i1, 1>>}
Last == {<<i1, PerInvocation>>}
=============================================================================
