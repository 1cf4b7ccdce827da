--------------------------- MODULE MCOutputStream ---------------------------
(***************************************************************************)
(* Short streams for TLC, with numbers of two bytes in front of the bins.  *)
(***************************************************************************)
EXTENDS OutputStream

\* Slices of two bins, of one bin and of two bins again, none smaller than an
\* element of the pool.
LargeBins == <<2, 1, 2>>
LargeBytes == <<3, 5, 4>>

\* The sources of the slices with split_output, each with a file of its own.
Sources == <<<<0, 2>>, <<1>>, <<1, 0>>>>

\* Little-endian, of bytes with four values.
Bytes == [f \in Files |-> <<f, 0>>]
MinusOne == <<3, 3>>
=============================================================================
