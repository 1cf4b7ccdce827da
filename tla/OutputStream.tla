---------------------------- MODULE OutputStream ----------------------------
(***************************************************************************)
(* The bytes of one stream of slices, from the TCP connection of a         *)
(* correlator node to the output files: the thread of Data_reader2buffer   *)
(* that fills the elements of its memory pool from the socket, the queue   *)
(* between the threads, Data_reader_buffer and Input_stream on the other   *)
(* side, and Output_node::write_output, which sends every bin of a slice   *)
(* to the file named by the number in front of it.                         *)
(*                                                                         *)
(* A byte is its position in the stream, counted from 1; it has a value    *)
(* where the program looks at it, in the numbers in front of the bins.     *)
(* The slices of other streams that are written in between take time, and  *)
(* leave the number of a file in current_output_file.                      *)
(***************************************************************************)
EXTENDS Integers, SequencesExt

CONSTANTS
  Bins,            \* Bins[k]: number of bins of slice k
  BinBytes,        \* BinBytes[k]: bytes of each of its bins, header included
  FileNumber,      \* FileNumber[k][b + 1]: the file that bin b of slice k is for
  NumberFiles,     \* data_writers.size() of the output node
  HeaderBytes,     \* sizeof(int32_t), the number in front of a bin
  Number,          \* Number[f]: the bytes of the number f
  Unset,           \* the bytes of -1
  ElementBytes,    \* size of an element of the memory pool
  PoolSize         \* number of elements of the memory pool

NumberSlices == Len(Bins)

ASSUME OutputStreamAssumption ==
  /\ HeaderBytes \in Nat \ {0} /\ ElementBytes \in Nat \ {0} /\ PoolSize \in Nat \ {0}
  /\ Bins \in Seq(Nat \ {0}) /\ BinBytes \in [DOMAIN Bins -> Nat]
  /\ \A k \in DOMAIN Bins : BinBytes[k] > HeaderBytes

\* Every bin has a file, every file a number of its own, and none is -1.
NumberedFiles ==
  /\ NumberFiles \in Nat \ {0}
  /\ \A k \in DOMAIN Bins : FileNumber[k] \in [1 .. Bins[k] -> 0 .. NumberFiles - 1]
  /\ Number \in [0 .. NumberFiles - 1 -> [1 .. HeaderBytes -> Nat]]
  /\ \A f, g \in 0 .. NumberFiles - 1 : Number[f] = Number[g] => f = g
  /\ Unset \in [1 .. HeaderBytes -> Nat]
  /\ \A f \in 0 .. NumberFiles - 1 : Number[f] # Unset

ASSUME FileAssumption == NumberedFiles

VARIABLES
  received,      \* bytes the thread of Data_reader2buffer has read from the socket
  elements,      \* Threadsafe_queue between the threads, the bytes of each element
  held,          \* Data_reader_buffer::data_start, its last bytes_left bytes
  dataSlice,     \* Data_reader::data_slice, bytes left of the slice
  status,        \* Output_node::status as far as this stream is concerned; ABORTED
                 \* once an assertion has failed
  slice,         \* the slice that is written, 0 before the first one
  buffer,        \* input_buffer, the bytes of it that are not in a file yet
  written,       \* total_bytes_written
  inFile,        \* index_in_file
  fileIndex,     \* output_file_index
  currentFile,   \* current_output_file, byte by byte
  files          \* files[f]: the bytes in output file f

vars == <<received, elements, held, dataSlice, status, slice, buffer, written, inFile,
          fileIndex, currentFile, files>>

SliceBytes(k) == Bins[k] * BinBytes[k]
SliceEnd[k \in 0 .. NumberSlices] ==
  IF k = 0 THEN 0 ELSE SliceEnd[k - 1] + SliceBytes(k)
AllBytes == SliceEnd[NumberSlices]

\* What the correlator node put at position p: the bin, and its header or data.
SliceOf(p) == CHOOSE k \in 1 .. NumberSlices : SliceEnd[k - 1] < p /\ p <= SliceEnd[k]
Offset(p) == p - 1 - SliceEnd[SliceOf(p) - 1]
BinOf(p) == Offset(p) \div BinBytes[SliceOf(p)]
IsHeader(p) == Offset(p) % BinBytes[SliceOf(p)] < HeaderBytes
Files == 0 .. NumberFiles - 1
FileOf(p) == FileNumber[SliceOf(p)][BinOf(p) + 1]

\* The value of a byte in the number in front of a bin.
HeaderByte(p) == Number[FileOf(p)][(Offset(p) % BinBytes[SliceOf(p)]) + 1]

Init ==
  /\ received = 0 /\ elements = <<>> /\ held = <<>>
  /\ dataSlice = 0 /\ status = "END_SLICE" /\ slice = 0
  /\ buffer = <<>> /\ written = 0 /\ inFile = 0
  /\ fileIndex = 0 /\ currentFile = Unset
  /\ files = [f \in Files |-> <<>>]

-----------------------------------------------------------------------------
Positions(from, n) == [i \in 1 .. n |-> from + i]
InUse == Len(elements) + (IF held = <<>> THEN 0 ELSE 1)

\* Data_reader2buffer::read: an element is taken from the pool and holds
\* whatever one read of the socket returns.
Receive ==
  /\ InUse < PoolSize
  /\ \E n \in 1 .. ElementBytes :
       /\ received + n <= AllBytes
       /\ received' = received + n
       /\ elements' = Append(elements, Positions(received, n))
  /\ UNCHANGED <<held, dataSlice, status, slice, buffer, written, inFile, fileIndex,
                 currentFile, files>>

\* Mutant: the number of the file is forgotten at the end of every slice.
ForgetFile == {Unset}

\* What the slices of other streams that are written before the next one of
\* this stream leave in current_output_file.
LeftInCurrentFile == {currentFile} \cup {Number[f] : f \in Files}

\* case START_NEW_SLICE: Input_stream::goto_next_slice.
StartNewSlice ==
  /\ status = "END_SLICE"
  /\ slice < NumberSlices
  /\ slice' = slice + 1
  /\ dataSlice' = SliceBytes(slice')
  /\ written' = 0
  /\ status' = "WRITE_OUTPUT"
  /\ currentFile' \in LeftInCurrentFile
  /\ UNCHANGED <<received, elements, held, buffer, inFile, fileIndex, files>>

\* Mutant: the round waits for all that is left of the slice.
ReadWhole ==
  /\ status = "WRITE_OUTPUT" /\ buffer = <<>> /\ dataSlice > 0
  /\ elements # <<>>
  /\ status' = IF Len(held) + Len(FlattenSeq(elements)) < dataSlice THEN status ELSE "GET_BYTES"
  /\ UNCHANGED <<received, elements, held, dataSlice, slice, buffer, written, inFile, fileIndex,
                 currentFile, files>>

\* case WRITE_OUTPUT, a round that finds bytes (else it only sleeps):
\* Input_stream::read_bytes asks for what is left of the slice.
ReadBytes ==
  /\ status = "WRITE_OUTPUT" /\ buffer = <<>> /\ dataSlice > 0
  /\ elements # <<>>
  /\ status' = "GET_BYTES"
  /\ UNCHANGED <<received, elements, held, dataSlice, slice, buffer, written, inFile, fileIndex,
                 currentFile, files>>

\* The loop of Data_reader_buffer::do_get_bytes, beside the other thread.
NextElement ==
  /\ status = "GET_BYTES" /\ dataSlice > 0
  /\ held = <<>> /\ elements # <<>>
  /\ held' = Head(elements)
  /\ elements' = Tail(elements)
  /\ UNCHANGED <<received, dataSlice, status, slice, buffer, written, inFile, fileIndex,
                 currentFile, files>>

\* What is left of the element once n bytes of it are copied.
Keep(n) == SubSeq(held, n + 1, Len(held))

CopyBytes ==
  /\ status = "GET_BYTES" /\ dataSlice > 0 /\ held # <<>>
  /\ LET n == Min({dataSlice, Len(held)}) IN
       /\ buffer' = buffer \o SubSeq(held, 1, n)
       /\ held' = Keep(n)
       /\ dataSlice' = dataSlice - n
  /\ UNCHANGED <<received, elements, status, slice, written, inFile, fileIndex, currentFile,
                 files>>

PerFile == SliceBytes(slice) \div Bins[slice]

\* Mutant: every chunk is taken for the start of a bin.
InFileFromZero == 0

\* index_in_file when write_output is given a chunk.
InFile == written % PerFile

\* The end of the loop, with all of the slice or all that has arrived.
EndOfBytes ==
  /\ status = "GET_BYTES"
  /\ dataSlice = 0 \/ (held = <<>> /\ elements = <<>>)
  /\ status' = "WRITE_OUTPUT"
  /\ inFile' = InFile
  /\ written' = written + Len(buffer)
  /\ UNCHANGED <<received, elements, held, dataSlice, slice, buffer, fileIndex, currentFile,
                 files>>

\* The assertion of get_data_writer on the number of the file.
AfterLookup(number) == IF \E f \in Files : Number[f] = number THEN status ELSE "ABORTED"

\* write_output, byte by byte: the number of the bin first, then its data.  A
\* chunk that ends in the number asks for a writer all the same, for no bytes.
WriteByte ==
  /\ status = "WRITE_OUTPUT" /\ buffer # <<>>
  /\ buffer' = Tail(buffer)
  /\ inFile' = (inFile + 1) % PerFile
  /\ \/ /\ fileIndex < HeaderBytes
        /\ currentFile' = [currentFile EXCEPT ![fileIndex + 1] = HeaderByte(Head(buffer))]
        /\ fileIndex' = fileIndex + 1
        /\ status' = IF buffer' = <<>> THEN AfterLookup(currentFile') ELSE status
        /\ UNCHANGED files
     \/ /\ fileIndex = HeaderBytes
        /\ files' = [f \in Files |-> IF Number[f] = currentFile THEN Append(files[f], Head(buffer))
                                    ELSE files[f]]
        /\ fileIndex' = IF inFile' = 0 THEN 0 ELSE fileIndex
        /\ status' = AfterLookup(currentFile)
        /\ UNCHANGED currentFile
  /\ UNCHANGED <<received, elements, held, dataSlice, slice, written>>

\* end_of_slice, after the bytes of a round are written.
EndSlice ==
  /\ status = "WRITE_OUTPUT" /\ buffer = <<>> /\ dataSlice = 0
  /\ status' = "END_SLICE"
  /\ UNCHANGED <<received, elements, held, dataSlice, slice, buffer, written, inFile, fileIndex,
                 currentFile, files>>

OutputRound ==
  StartNewSlice \/ ReadBytes \/ NextElement \/ CopyBytes \/ EndOfBytes \/ WriteByte \/ EndSlice

AllWritten == status = "END_SLICE" /\ slice = NumberSlices
Stay == (AllWritten \/ status = "ABORTED") /\ UNCHANGED vars

Next == Receive \/ OutputRound \/ Stay

Spec == Init /\ [][Next]_vars

\* The two threads go on, the connection delivers what was sent, and the
\* slices before the next one of this stream are written in the end.
FairSpec == Spec /\ WF_vars(Receive) /\ WF_vars(OutputRound)

-----------------------------------------------------------------------------
\* The data for file f among the first n bytes of the stream.
DataOf(f, n) == {p \in 1 .. n : ~IsHeader(p) /\ FileOf(p) = f}
Ascending(s) == \A i, j \in DOMAIN s : i < j => s[i] < s[j]

\* The last byte that has been given to a file.
Taken == SliceEnd[slice] - dataSlice - Len(buffer)

\* However the bytes are cut into reads, elements and rounds, every output file
\* has the data of its own bins, in the order the correlator node wrote it, with
\* nothing lost, repeated or left over from the numbers in front of the bins;
\* also when the output node aborts.
RightFiles ==
  \A f \in Files : Ascending(files[f]) /\ ToSet(files[f]) = DataOf(f, Taken)

\* No more than 256 files: the numbers differ in their first byte only.
FewFiles == \A f, g \in Files : \A i \in 2 .. HeaderBytes : Number[f][i] = Number[g][i]

\* The assertion of get_data_writer can fail in the first number of all, when the
\* first read of the job ends inside it, and nowhere else: a number that is cut
\* later on is completed by bytes of the number before it.
FailsOnlyAtStart == FewFiles /\ status = "ABORTED" => slice = 1 /\ Taken < HeaderBytes

\* Input_stream::read_bytes "fills the buffer with as much data as possible":
\* bytes that have arrived are written in the end, unless that assertion fails.
EventuallyWritten == <>(AllWritten \/ status = "ABORTED")
=============================================================================
