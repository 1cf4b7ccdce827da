----------------------------- MODULE Mailboxes -----------------------------
(***************************************************************************)
(* The MPI messages the manager, the correlator nodes and the output node  *)
(* exchange while a job is being correlated, and the TCP streams over      *)
(* which the correlator nodes hand their results to the output node.       *)
(*                                                                         *)
(* MPI keeps the messages of one sender to one receiver in order and says  *)
(* nothing about messages of different senders, and every node receives    *)
(* with a probe for any source and any tag (Node::check_and_process_       *)
(* message), so there is one FIFO mailbox per sender and receiver.         *)
(***************************************************************************)
EXTENDS Integers, Sequences, FiniteSets

CONSTANT
  Correlators     \* the correlator nodes, named by their correlator number

ASSUME CorrelatorsAssumption == IsFiniteSet(Correlators) /\ Correlators # {}

VARIABLES
  ended,          \* ended[c]: CORRELATION_OF_TIME_SLICE_ENDED from c to the manager
  parameters,     \* parameters[c]: CORR_PARAMETERS from the manager to c, their slice_nr
  endNode,        \* endNode[c]: END_NODE to the correlator node c, always sent last
  endOutput,      \* END_NODE to the output node
  priority,       \* priority[c]: OUTPUT_STREAM_SLICE_SET_PRIORITY from c, their slice_nr
  ready,          \* CORRELATION_READY from the manager to the output node
  finished,       \* OUTPUT_NODE_FINISHED from the output node to the manager
  stream,         \* stream[c]: slices c has written to its TCP stream, not yet read
  failed          \* the SFXC_ASSERTs that have failed

mailboxes == <<ended, parameters, endNode, endOutput, priority, ready, finished, stream,
               failed>>

Slices == Nat

\* The assertions on the path of a slice, named for the functions they are in.
Assertions == {"end_correlation", "input_node_set_time", "start_next_timeslice_on_node",
               "set_weight_of_input_stream", "goto_next_slice", "~Output_node"}

MailboxesTypeOK ==
  /\ ended \in [Correlators -> Nat]
  /\ parameters \in [Correlators -> Seq(Slices)]
  /\ endNode \in [Correlators -> BOOLEAN]
  /\ endOutput \in BOOLEAN
  /\ priority \in [Correlators -> Seq(Slices)]
  /\ ready \in Seq(Slices)
  /\ finished \in Nat
  /\ stream \in [Correlators -> Seq(Slices)]
  /\ failed \subseteq Assertions

\* Correlator_node's constructor has already asked for its first slice.
MailboxesInit ==
  /\ ended = [c \in Correlators |-> 1]
  /\ parameters = [c \in Correlators |-> <<>>]
  /\ endNode = [c \in Correlators |-> FALSE]
  /\ endOutput = FALSE
  /\ priority = [c \in Correlators |-> <<>>]
  /\ ready = <<>>
  /\ finished = 0
  /\ stream = [c \in Correlators |-> <<>>]
  /\ failed = {}

\* SFXC_ASSERT(holds): a failing assertion takes the whole job down
\* (abort_sfxc_assertion sends END_NODE to every rank and exits).
SfxcAssert(name, holds) == failed' = IF holds THEN failed ELSE failed \cup {name}

=============================================================================
