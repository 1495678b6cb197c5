------------------------------ MODULE ChainRails ------------------------------
(***************************************************************************)
(* services/blockchain.py under the pipeline: before step 4 writes its row *)
(* it calls simulate_broadcast, which adds one to the height of the        *)
(* process and, in a later step, reads the height back.  The clients are   *)
(* threads of one process and share the height.  The interpreter (Python   *)
(* 3.11 in every Dockerfile) switches threads at calls and loops: neither  *)
(* statement has one, but there are several between the two.               *)
(***************************************************************************)
EXTENDS TradePipeline

VARIABLES
    block_counter,  \* _block_counter, above its base
    rail,           \* where a thread is in simulate_broadcast
    height,         \* the block_number it was given
    block_number    \* settlement_instructions.block_number per trade, 0 for NULL

rail_vars == <<block_counter, rail, height, block_number>>

RailsInit ==
    /\ Init
    /\ block_counter = 0
    /\ rail = [p \in Clients |-> "out"]
    /\ height = [p \in Clients |-> 0]
    /\ block_number = [k \in Keys |-> 0]

\* Mutant: without "global" the height is a local that starts from the base.
increment_Local(p) ==
    /\ pc[p] = "broadcast" /\ rail[p] = "out"
    /\ block_counter' = 1
    /\ rail' = [rail EXCEPT ![p] = "counted"]
    /\ UNCHANGED <<vars, height, block_number>>

\* _block_counter += 1
increment(p) ==
    /\ pc[p] = "broadcast" /\ rail[p] = "out"
    /\ block_counter' = block_counter + 1
    /\ rail' = [rail EXCEPT ![p] = "counted"]
    /\ UNCHANGED <<vars, height, block_number>>

\* "block_number": _block_counter
read_back(p) ==
    /\ rail[p] = "counted"
    /\ height' = [height EXCEPT ![p] = block_counter]
    /\ rail' = [rail EXCEPT ![p] = "returned"]
    /\ UNCHANGED <<vars, block_counter, block_number>>

\* A thread that is past its broadcast is out of simulate_broadcast.
RailLeft ==
    /\ rail' = [p \in Clients |-> IF pc'[p] = "broadcast" THEN rail[p] ELSE "out"]
    /\ height' = [p \in Clients |-> IF pc'[p] = "broadcast" THEN height[p] ELSE 0]
    /\ UNCHANGED block_counter

\* Step 4's transaction: status and block_number in one UPDATE.
WriteBlock(p) ==
    /\ rail[p] = "returned"
    /\ Broadcast(p)
    /\ block_number' = [block_number EXCEPT ![trade[p]] = height[p]]
    /\ RailLeft

\* Every other transaction; one of step 4 may still raise.
OtherStep(p) ==
    /\ pc[p] = "broadcast" => rail[p] = "returned"
    /\ \/ PublishChild(p)
       \/ CreateSettlement(p)
       \/ Approve(p)
       \/ Sign(p)
       \/ Confirm(p)
       \/ PostLedger(p)
       \/ Raise(p)
    /\ UNCHANGED block_number
    /\ RailLeft

Thread(p) == increment(p) \/ read_back(p) \/ WriteBlock(p) \/ OtherStep(p)

RailsNext ==
    \E p \in Clients :
        \/ \E k \in Keys :
               /\ Submit(p, k) \/ SubmitDuplicate(p, k)
               /\ UNCHANGED rail_vars
        \/ Thread(p)

RailsSpec == RailsInit /\ [][RailsNext]_<<vars, rail_vars>>

\* A running call tree is a thread the scheduler keeps running.  Nothing is
\* promised about submissions and retries.
Scheduled == \A p \in Clients : WF_<<vars, rail_vars>>(Thread(p))

-----------------------------------------------------------------------------
\* Threads inside simulate_broadcast at once may be given the same block, and
\* nothing here forbids it.  But a thread that enters it counts past every block
\* already recorded: no recorded block is given out again.
BlocksAreFresh ==
    [][\A p \in Clients :
        rail[p] = "out" /\ rail'[p] = "counted" =>
            \A k \in Keys : block_number[k] < block_counter']_<<vars, rail_vars>>
=============================================================================
