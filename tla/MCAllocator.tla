----------------------------- MODULE MCAllocator -----------------------------
(* A range of nine bytes, and requests with and without alignment gaps.      *)
EXTENDS BufferAllocator

MCRequests == [size : {1, 2, 3}, alignment : {1, 2, 4}]
===============================================================================
