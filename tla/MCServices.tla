------------------------------ MODULE MCServices ------------------------------
(* Services for TLC.  The contents of a read document are alike, so that   *)
(* the one of the first upload may be called 1.                            *)
EXTENDS Services

FirstContentIsOne == (service = "ocr" /\ v3' = 1) => v4' = 1
=============================================================================
