--------------------------- MODULE ScanBroadcast ---------------------------
(***************************************************************************)
(* A job with what may keep a node from going on: at the start of a scan   *)
(* the manager hands the delay and the uvw tables to all correlator nodes  *)
(* with a collective MPI_Bcast, which a node enters when it finds the size *)
(* of the table among its messages, busy or not; and a node that has       *)
(* correlated a slice writes it to its TCP stream in the same loop, as far *)
(* as the output node and the buffers in between take it.                  *)
(***************************************************************************)
EXTENDS Schedule

CONSTANTS
  Broadcasts,       \* tables broadcast at the start of a scan
  Above,            \* Above[c]: the nodes without which MPI_Bcast does not reach c
  Capacity          \* whole slices a stream holds that is not being read

ASSUME BroadcastAssumption ==
  /\ Broadcasts \in Nat \ {0}
  /\ Above \in [Correlators -> SUBSET Correlators]
  /\ Capacity \in Nat

VARIABLES
  begun,            \* the broadcasts the manager has begun in this scan
  calling,          \* the manager is in MPI_Bcast
  inbox,            \* inbox[c]: the order of the messages from the manager to c
  entered,          \* entered[c]: how many times c has entered MPI_Bcast
  inside,           \* inside[c]: c is in MPI_Bcast
  writing           \* writing[c]: c has correlated its slice and is writing it

bVars == <<begun, calling, inbox, entered, inside, writing>>

BroadcastInit ==
  /\ Init
  /\ begun = 0
  /\ calling = FALSE
  /\ inbox = [c \in Correlators |-> <<>>]
  /\ entered = [c \in Correlators |-> 0]
  /\ inside = [c \in Correlators |-> FALSE]
  /\ writing = [c \in Correlators |-> FALSE]

-----------------------------------------------------------------------------
\* bcast_corr_nodes: the size to each node, then MPI_Bcast.
BeginBroadcast ==
  /\ failed = {}
  /\ mStatus = "START_NEW_SCAN"
  /\ ~calling
  /\ begun < Broadcasts
  /\ begun' = begun + 1
  /\ calling' = TRUE
  /\ inbox' = [c \in Correlators |-> Append(inbox[c], "table")]
  /\ UNCHANGED <<entered, inside, writing, vars>>

\* The broadcasts that c has still to enter.
Behind(c) == Len(SelectSeq(inbox[c], LAMBDA m : m = "table"))

\* The sender may leave MPI_Bcast when the table is on its way, or not before all
\* nodes have entered.
EndBroadcast ==
  /\ calling
  /\ calling' = FALSE
  /\ UNCHANGED <<begun, inbox, entered, inside, writing, vars>>

AllEntered == \A c \in Correlators : Behind(c) = 0

\* The rest of the round that starts a scan follows the last broadcast ...
ManagerRound ==
  /\ failed = {}
  /\ mStatus = "START_NEW_SCAN" => begun = Broadcasts /\ ~calling
  /\ ManagerLoop
  /\ begun' = 0
  /\ inbox' = [c \in Correlators |->
                 IF parameters'[c] = parameters[c] THEN inbox[c] ELSE Append(inbox[c], "slice")]
  /\ UNCHANGED <<calling, entered, inside, writing, cVars, oVars>>

\* ... and the manager reads no messages in the middle of it.
ManagerMessage(Receive) ==
  /\ failed = {}
  /\ begun = 0
  /\ Receive
  /\ UNCHANGED <<bVars, cVars, oVars>>

-----------------------------------------------------------------------------
\* process_event of DELAY_TABLE and UVW_TABLE: receive_bcast.
EnterBroadcast(c) ==
  /\ failed = {}
  /\ cStatus[c] # "END_CORRELATING"
  /\ ~inside[c] /\ ~writing[c]
  /\ inbox[c] # <<>> /\ Head(inbox[c]) = "table"
  /\ inbox' = [inbox EXCEPT ![c] = Tail(@)]
  /\ entered' = [entered EXCEPT ![c] = @ + 1]
  /\ inside' = [inside EXCEPT ![c] = TRUE]
  /\ UNCHANGED <<begun, calling, writing, vars>>

LeaveBroadcast(c) ==
  /\ inside[c]
  /\ \A a \in Above[c] : entered[a] >= entered[c]
  /\ inside' = [inside EXCEPT ![c] = FALSE]
  /\ UNCHANGED <<begun, calling, inbox, entered, writing, vars>>

\* A slice of c goes to its stream if the buffers take it or the output node reads
\* it now; otherwise do_put_bytes waits in write().
Room(c) ==
  \/ Len(stream[c]) < Capacity
  \/ stream[c] = <<>> /\ oStatus = "WRITE_OUTPUT" /\ currStream = {c}

WaitForRoom(c) ==
  /\ failed = {}
  /\ cStatus[c] = "CORRELATING"
  /\ ~inside[c] /\ ~writing[c] /\ ~Room(c)
  /\ writing' = [writing EXCEPT ![c] = TRUE]
  /\ UNCHANGED <<begun, calling, inbox, entered, inside, vars>>

\* A round of c, which can be the last one of a slice if there is room for it, and
\* takes the messages of the manager in their order.
CorrelatorGoesOn(c) ==
  /\ CorrelatorStep(c)
  /\ ~inside[c]
  /\ IF stream'[c] = stream[c] THEN ~writing[c] ELSE Room(c)
  /\ parameters'[c] # parameters[c] => Head(inbox[c]) = "slice"
  /\ endNode'[c] # endNode[c] => inbox[c] = <<>>
  /\ inbox' = IF parameters'[c] = parameters[c] THEN inbox ELSE [inbox EXCEPT ![c] = Tail(@)]
  /\ writing' = IF stream'[c] = stream[c] THEN writing ELSE [writing EXCEPT ![c] = FALSE]
  /\ UNCHANGED <<begun, calling, entered, inside>>

-----------------------------------------------------------------------------
OutputGoesOn == OutputStep /\ UNCHANGED bVars

BroadcastNext ==
  \/ BeginBroadcast
  \/ EndBroadcast
  \/ ManagerRound
  \/ ManagerMessage(ReceiveFinished)
  \/ \E c \in Correlators : ManagerMessage(ReceiveEnded(c))
  \/ \E c \in Correlators :
       EnterBroadcast(c) \/ LeaveBroadcast(c) \/ WaitForRoom(c) \/ CorrelatorGoesOn(c)
  \/ OutputGoesOn

allVars == <<vars, bVars>>

\* The fairness of Schedule, where the loops can go on; the manager leaves
\* MPI_Bcast at the latest when all nodes have entered.
BroadcastFairness ==
  /\ WF_allVars(BeginBroadcast)
  /\ WF_allVars(EndBroadcast /\ AllEntered)
  /\ WF_allVars(ManagerRound)
  /\ WF_allVars(ManagerMessage(ReceiveFinished))
  /\ WF_allVars(failed = {} /\ OutputLoop /\ UNCHANGED <<mVars, cVars, bVars>>)
  /\ WF_allVars(failed = {} /\ ReceiveReady /\ UNCHANGED <<mVars, cVars, bVars>>)
  /\ \A c \in Correlators :
       /\ WF_allVars(ManagerMessage(ReceiveEnded(c)))
       /\ WF_allVars(failed = {} /\ ReceivePriority(c) /\ UNCHANGED <<mVars, cVars, bVars>>)
       /\ WF_allVars(EnterBroadcast(c))
       /\ WF_allVars(LeaveBroadcast(c))
       /\ WF_allVars(CorrelatorGoesOn(c))

BroadcastSpec == BroadcastInit /\ [][BroadcastNext]_allVars /\ BroadcastFairness
=============================================================================
