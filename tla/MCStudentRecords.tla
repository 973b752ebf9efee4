-------------------------- MODULE MCStudentRecords --------------------------
(* Instances of StudentRecords for TLC.                                     *)
EXTENDS StudentRecords

CONSTANTS n1, n2

MCPair == {<<n1, n2>>}
=============================================================================
