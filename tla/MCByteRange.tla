------------------------------ MODULE MCByteRange ------------------------------
(* Small instances of byte ranges: every text up to MaxSize bytes.           *)
EXTENDS ByteRange
================================================================================
