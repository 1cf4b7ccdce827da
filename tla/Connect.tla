------------------------------ MODULE Connect -------------------------------
(***************************************************************************)
(* The start of a job: the manager starts the nodes one by one and has the *)
(* correlator nodes connect to the input nodes and to the output node.     *)
(* A correlator node tells its peer by MPI that it will connect, connects  *)
(* to the port of the peer and answers the manager.  The peer accepts the  *)
(* next connection on its port without asking whose it is, and gives it    *)
(* the stream number of the message it has just received.                  *)
(*                                                                         *)
(* Nodes are their MPI ranks.  A connection is the message of the manager  *)
(* that asks for it, [writer, stream, reader, readerStream].               *)
(***************************************************************************)
EXTENDS Integers, SequencesExt

CONSTANTS
  NumberStations,     \* number of input nodes
  NumberCorrelators,  \* n_corr_nodes
  CrossPolarize       \* each correlator node gets two streams of a station

ASSUME ConnectAssumption ==
  /\ NumberStations \in Nat \ {0} /\ NumberCorrelators \in Nat \ {0}
  /\ CrossPolarize \in BOOLEAN

Output == 2
Input(station) == station + 3
Correlator(nr) == nr + NumberStations + 3

StationNumbers == 0 .. NumberStations - 1
Listeners == {Output} \cup {Input(s) : s \in StationNumbers}
Correlators == {Correlator(k) : k \in 0 .. NumberCorrelators - 1}
Nodes == Listeners \cup Correlators

VARIABLES
  script,      \* what the manager has still to do
  awaited,     \* the node whose answer the manager waits for, or 0
  mail,        \* mail[n]: messages from the manager to node n
  answers,     \* nodes whose answer is on its way to the manager
  established, \* number of CONNECTION_ESTABLISHED of correlator nodes
  state,       \* state[n]: what node n is doing
  inHand,      \* inHand[n]: the connection it is working on
  announced,   \* announced[n]: CONNECTED_FROM messages sent to n and not received
  backlog,     \* backlog[n]: connections to the port of n that it has not accepted
  readers,     \* readers[n]: the connection of each data reader, by stream number
  writers,     \* writers[n]: the connection of each data writer
  weights,     \* correlator nodes that have sent the weights of a slice to the output
  failed       \* assertions that have failed

mVars == <<script, awaited>>
streamVars == <<readers, writers>>
vars == <<mVars, mail, answers, established, state, inHand, announced, backlog, streamVars,
          weights, failed>>

-----------------------------------------------------------------------------
\* What the manager does, in order.
NoConnection == [writer |-> 0, stream |-> 0, reader |-> 0, readerStream |-> 0]
Step(do, rank) == <<[do |-> do, rank |-> rank, info |-> NoConnection]>>
Ask(do, rank, connection) == <<[do |-> do, rank |-> rank, info |-> connection]>>

StartOutputNode == Step("start", Output)
StartInputNode(station) == Step("start", Input(station))
StartCorrelatorNode(nr) == Step("start", Correlator(nr))

\* The second time for crossed polarisations.
ConnectTo(station, nr, time) ==
  Ask("connect_reader", Correlator(nr),
      [writer |-> Input(station), stream |-> nr + time * NumberCorrelators,
       reader |-> Correlator(nr), readerStream |-> station + time * NumberStations])
ConnectWriterTo(nr) ==
  Ask("connect_writer", Correlator(nr),
      [writer |-> Correlator(nr), stream |-> 0, reader |-> Output, readerStream |-> nr])

ForEach(n, F(_)) == FlattenSeq([i \in 1 .. n |-> F(i - 1)])

Times == IF CrossPolarize THEN 2 ELSE 1
ConnectCorrelator(nr) ==
  StartCorrelatorNode(nr)
  \o ForEach(Times, LAMBDA time : ForEach(NumberStations, LAMBDA s : ConnectTo(s, nr, time)))
  \o ConnectWriterTo(nr)

StartNodes ==
  StartOutputNode
  \o ForEach(NumberStations, StartInputNode)
  \o ForEach(NumberCorrelators, ConnectCorrelator)
  \o Step("wait_all", 0)

\* set_data_reader, set_data_writer.
OpenFiles ==
  ForEach(NumberStations, LAMBDA s : Step("open", Input(s))) \o Step("open", Output)

\* A first slice on every stream, and its parameters.
FirstSlices ==
  ForEach(NumberStations, LAMBDA s : ForEach(NumberCorrelators * Times, LAMBDA k :
    Ask("slice", Input(s), [NoConnection EXCEPT !.stream = k])))
  \o ForEach(NumberCorrelators, LAMBDA nr : Step("parameters", Correlator(nr)))

Init ==
  /\ script = StartNodes \o OpenFiles \o FirstSlices /\ awaited = 0
  /\ mail = [n \in Nodes |-> <<>>]
  /\ answers = {} /\ established = 0
  /\ state = [n \in Nodes |-> "absent"]
  /\ inHand = [n \in Nodes |-> NoConnection]
  /\ announced = [n \in Nodes |-> {}]
  /\ backlog = [n \in Listeners |-> <<>>]
  /\ readers = [n \in Nodes |-> <<>>] /\ writers = [n \in Nodes |-> <<>>]
  /\ weights = {} /\ failed = {}

-----------------------------------------------------------------------------
\* The requests MPI_Waitall waits for.
Requests == NumberCorrelators * (NumberStations * Times + 1)

\* The manager sends its next message; a node that is started, or opens a file,
\* has to answer.
ManagerSend ==
  /\ awaited = 0 /\ script # <<>>
  /\ LET next == Head(script) IN
       \/ /\ next.do = "wait_all"
          /\ established = Requests
          /\ UNCHANGED <<awaited, mail>>
       \/ /\ next.do # "wait_all"
          /\ mail' = [mail EXCEPT ![next.rank] = Append(@, next)]
          /\ awaited' = IF next.do \in {"start", "open"} THEN next.rank ELSE 0
  /\ script' = Tail(script)
  /\ UNCHANGED <<answers, established, state, inHand, announced, backlog, streamVars, weights,
                 failed>>

\* NODE_INITIALISED, or wait_for_setting_up_channel.
ManagerReceive ==
  /\ awaited \in answers
  /\ awaited' = 0
  /\ answers' = answers \ {awaited}
  /\ UNCHANGED <<script, mail, established, state, inHand, announced, backlog, streamVars,
                 weights, failed>>

-----------------------------------------------------------------------------
Becomes(n, s) == state' = [state EXCEPT ![n] = s]

\* Node n takes the next message of the manager.
Takes(n, do) ==
  /\ state[n] = IF do = "start" THEN "absent" ELSE "idle"
  /\ mail[n] # <<>> /\ Head(mail[n]).do = do
  /\ mail' = [mail EXCEPT ![n] = Tail(@)]

\* start_node: the process becomes the node it is told to be.
StartNode(n) ==
  /\ Takes(n, "start")
  /\ Becomes(n, "idle")
  /\ answers' = answers \cup {n}
  /\ UNCHANGED <<mVars, established, inHand, announced, backlog, streamVars, weights, failed>>

\* Mutant: the message to the peer is buffered.
AnnounceBuffered(n, to, c) ==
  /\ announced' = [announced EXCEPT ![to] = @ \cup {c}]
  /\ Becomes(n, "connect")

\* Mutant: the message goes to the writer, be it the node itself.
AnnounceToWriter(n, to, c) ==
  /\ announced' = [announced EXCEPT ![c.writer] = @ \cup {c}]
  /\ Becomes(n, "send")

\* MPI_Ssend to the peer.
Announce(n, to, c) ==
  /\ announced' = [announced EXCEPT ![to] = @ \cup {c}]
  /\ Becomes(n, "send")

\* MPI_TAG_ADD_TCP_READER_CONNECTED_TO.
ReaderConnectedTo(n) ==
  /\ Takes(n, "connect_reader")
  /\ inHand' = [inHand EXCEPT ![n] = Head(mail[n]).info]
  /\ Announce(n, inHand'[n].writer, inHand'[n])
  /\ UNCHANGED <<mVars, answers, established, backlog, streamVars, weights, failed>>

\* MPI_TAG_ADD_TCP_WRITER_CONNECTED_TO.
WriterConnectedTo(n) ==
  /\ Takes(n, "connect_writer")
  /\ inHand' = [inHand EXCEPT ![n] = Head(mail[n]).info]
  /\ Announce(n, inHand'[n].reader, inHand'[n])
  /\ UNCHANGED <<mVars, answers, established, backlog, streamVars, weights, failed>>

\* Network::connect_to the port of node `to`: its kernel completes the connection.
Connect(n, to) ==
  /\ state[n] = "connect"
  /\ backlog' = [backlog EXCEPT ![to] = Append(@, inHand[n])]
  /\ Becomes(n, "connected")
  /\ UNCHANGED <<mVars, mail, answers, established, inHand, announced, streamVars, weights,
                 failed>>

ConnectReader(n) == inHand[n].reader = n /\ Connect(n, inHand[n].writer)
ConnectWriter(n) == inHand[n].writer = n /\ Connect(n, inHand[n].reader)

With(streams, k, c) == [i \in DOMAIN streams \cup {k} |-> IF i = k THEN c ELSE streams[i]]
AddDataReader(n, k, c) ==
  readers' = [readers EXCEPT ![n] = With(@, k, c)] /\ UNCHANGED writers
AddDataWriter(n, k, c) ==
  writers' = [writers EXCEPT ![n] = With(@, k, c)] /\ UNCHANGED readers

\* The stream is added and the manager told.
Established(n) ==
  /\ state[n] = "connected"
  /\ \/ inHand[n].reader = n /\ AddDataReader(n, inHand[n].readerStream, inHand[n])
     \/ inHand[n].writer = n /\ AddDataWriter(n, inHand[n].stream, inHand[n])
  /\ established' = established + 1
  /\ Becomes(n, "idle")
  /\ UNCHANGED <<mVars, mail, answers, inHand, announced, backlog, weights, failed>>

\* MPI_TAG_ADD_TCP_READER_CONNECTED_FROM and MPI_TAG_ADD_TCP_WRITER_CONNECTED_FROM:
\* the synchronous send of the peer ends, and n waits for a connection.
ConnectedFrom(n) ==
  /\ state[n] = "idle"
  /\ \E c \in announced[n] :
       LET peer == IF c.writer = n THEN c.reader ELSE c.writer IN
       /\ announced' = [announced EXCEPT ![n] = @ \ {c}]
       /\ inHand' = [inHand EXCEPT ![n] = c]
       /\ state' = [state EXCEPT ![n] = "accept", ![peer] = IF @ = "send" THEN "connect" ELSE @]
  /\ UNCHANGED <<mVars, mail, answers, established, backlog, streamVars, weights, failed>>

\* TCP_Connection::open_connection takes the next connection, whosever it is.
Accept(n) ==
  /\ state[n] = "accept" /\ backlog[n] # <<>>
  /\ backlog' = [backlog EXCEPT ![n] = Tail(@)]
  /\ Becomes(n, "idle")
  /\ UNCHANGED <<mVars, mail, answers, established, inHand, announced, weights, failed>>
AcceptReader(n) ==
  n = Output /\ Accept(n) /\ AddDataReader(n, inHand[n].readerStream, Head(backlog[n]))
AcceptWriter(n) ==
  n # Output /\ Accept(n) /\ AddDataWriter(n, inHand[n].stream, Head(backlog[n]))

\* ADD_DATA_READER, ADD_DATA_WRITER_FILE2.
ReceiveOpen(n) ==
  /\ Takes(n, "open")
  /\ answers' = answers \cup {n}
  /\ UNCHANGED <<mVars, established, state, inHand, announced, backlog, streamVars, weights,
                 failed>>

SfxcAssert(what, holds) == failed' = IF holds THEN failed ELSE failed \cup {what}

\* INPUT_NODE_ADD_TIME_SLICE: the stream has its data writer.
ReceiveTimeSlice(n) ==
  /\ Takes(n, "slice")
  /\ SfxcAssert("get_data_writer", Head(mail[n]).info.stream \in DOMAIN writers[n])
  /\ UNCHANGED <<mVars, answers, established, state, inHand, announced, backlog, streamVars,
                 weights>>

\* The parameters of a slice; its weights go to the output node.
ReceiveParameters(n) ==
  /\ Takes(n, "parameters")
  /\ weights' = weights \cup {n}
  /\ UNCHANGED <<mVars, answers, established, state, inHand, announced, backlog, streamVars,
                 failed>>

\* set_weight_of_input_stream: the stream has its reader.
ReceiveWeight ==
  /\ state[Output] = "idle"
  /\ \E n \in weights :
       /\ SfxcAssert("input_streams", n - Correlator(0) \in DOMAIN readers[Output])
       /\ weights' = weights \ {n}
  /\ UNCHANGED <<mVars, mail, answers, established, state, inHand, announced, backlog, streamVars>>

-----------------------------------------------------------------------------
ManagerStep == ManagerSend \/ ManagerReceive
CorrelatorStep(n) ==
  \/ StartNode(n) \/ ReaderConnectedTo(n) \/ WriterConnectedTo(n)
  \/ ConnectReader(n) \/ ConnectWriter(n) \/ Established(n) \/ ReceiveParameters(n)
ListenerStep(n) ==
  \/ StartNode(n) \/ ConnectedFrom(n) \/ AcceptReader(n) \/ AcceptWriter(n)
  \/ ReceiveOpen(n) \/ ReceiveTimeSlice(n)

Connected ==
  /\ script = <<>> /\ awaited = 0 /\ weights = {}
  /\ \A n \in Nodes : state[n] = "idle" /\ mail[n] = <<>>
Stay == Connected /\ UNCHANGED vars

Next ==
  \/ ManagerStep
  \/ \E n \in Correlators : CorrelatorStep(n)
  \/ \E n \in Listeners : ListenerStep(n)
  \/ ReceiveWeight
  \/ Stay

Spec == Init /\ [][Next]_vars

\* Every process goes on, and MPI and TCP deliver.
FairSpec ==
  /\ Spec
  /\ WF_vars(ManagerStep) /\ WF_vars(ReceiveWeight)
  /\ \A n \in Correlators : WF_vars(CorrelatorStep(n))
  /\ \A n \in Listeners : WF_vars(ListenerStep(n))

-----------------------------------------------------------------------------
\* The streams of the input nodes and of the output node are connected to the streams
\* of the correlator nodes that the manager meant, though connections are accepted
\* in the order in which they come in; and a stream exists when the first slice
\* or weight asks for it.
RightPeers ==
  /\ \A n \in Listeners :
       /\ \A k \in DOMAIN writers[n] : writers[n][k].writer = n /\ writers[n][k].stream = k
       /\ \A k \in DOMAIN readers[n] : readers[n][k].reader = n /\ readers[n][k].readerStream = k
  /\ failed = {}

\* The handshakes end: all streams are connected and the first slices given out.
EventuallyConnected == <>Connected
=============================================================================
