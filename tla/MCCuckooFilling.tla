--------------------------- MODULE MCCuckooFilling ---------------------------
(* CuckooFilling with the hash values of a key as its two digits.           *)
EXTENDS CuckooFilling

MCFirst == [k \in Keys \cup {INVALID} |-> IF k = INVALID THEN 0 ELSE k \div 10]
MCSecond == [k \in Keys \cup {INVALID} |-> IF k = INVALID THEN 0 ELSE k % 10]
============================================================================
