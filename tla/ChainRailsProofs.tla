--------------------------- MODULE ChainRailsProofs ---------------------------
(***************************************************************************)
(* Proofs about ChainRails, for any set of threads and of trades and any   *)
(* set of faults.                                                          *)
(***************************************************************************)
EXTENDS ChainRails, TLAPS

\* The height never falls behind a block that was given out or recorded.
RailInv ==
    /\ block_counter \in Nat
    /\ rail \in [Clients -> {"out", "counted", "returned"}]
    /\ height \in [Clients -> 0 .. block_counter]
    /\ block_number \in [Keys -> 0 .. block_counter]

\* The part of every step that the pipeline's own actions leave open.
RailStep(p) ==
    \/ increment(p)
    \/ read_back(p)
    \/ RailLeft /\ block_number' = [block_number EXCEPT ![trade[p]] = height[p]]
    \/ RailLeft /\ UNCHANGED block_number

LEMMA StepIsRailStep ==
    ASSUME RailsNext
    PROVE  \/ UNCHANGED rail_vars
           \/ \E p \in Clients : RailStep(p)
  BY DEF RailsNext, Thread, WriteBlock, OtherStep, RailStep

LEMMA RailInvInit == RailsInit => RailInv
  BY SMT DEF RailsInit, RailInv

LEMMA RailInvStep ==
    ASSUME RailInv, NEW p \in Clients, RailStep(p)
    PROVE  RailInv'
  <1>1. CASE increment(p)
    <2>1. /\ block_counter' \in Nat
          /\ rail' \in [Clients -> {"out", "counted", "returned"}]
          /\ UNCHANGED <<height, block_number>>
      BY <1>1, SMT DEF increment, RailInv
    <2>2. 0 .. block_counter \subseteq 0 .. block_counter'
      BY <1>1, SMT DEF increment, RailInv
    <2> QED
      BY <2>1, <2>2, SMT DEF RailInv
  <1>2. CASE read_back(p)
    BY <1>2, SMT DEF read_back, RailInv
  <1>3. CASE /\ RailLeft
             /\ block_number' = [block_number EXCEPT ![trade[p]] = height[p]]
    <2>1. /\ block_counter' = block_counter
          /\ rail' \in [Clients -> {"out", "counted", "returned"}]
          /\ height' \in [Clients -> 0 .. block_counter]
      BY <1>3, SMT DEF RailLeft, RailInv
    <2>2. height[p] \in 0 .. block_counter
      BY DEF RailInv
    <2>3. block_number' \in [Keys -> 0 .. block_counter]
      BY <1>3, <2>2 DEF RailInv
    <2> QED
      BY <2>1, <2>3 DEF RailInv
  <1>4. CASE RailLeft /\ UNCHANGED block_number
    BY <1>4, SMT DEF RailLeft, RailInv
  <1> QED
    BY <1>1, <1>2, <1>3, <1>4 DEF RailStep

LEMMA RailInvNext ==
    ASSUME RailInv, [RailsNext]_<<vars, rail_vars>>
    PROVE  RailInv'
  <1>1. CASE UNCHANGED rail_vars
    BY <1>1 DEF RailInv, rail_vars
  <1>2. CASE RailsNext
    BY <1>1, <1>2, StepIsRailStep, RailInvStep
  <1> QED
    BY <1>1, <1>2 DEF rail_vars

\* The height is a bound on every block, whatever the threads do.
THEOREM Invariance == RailsSpec => []RailInv
  BY RailInvInit, RailInvNext, PTL DEF RailsSpec

\* A step in which a thread enters simulate_broadcast is increment.
LEMMA FreshStep ==
    ASSUME RailInv, [RailsNext]_<<vars, rail_vars>>,
           NEW p \in Clients, rail[p] = "out", rail'[p] = "counted",
           NEW k \in Keys
    PROVE  block_number[k] < block_counter'
  <1>1. \E q \in Clients : RailStep(q)
    BY StepIsRailStep DEF rail_vars
  <1>2. PICK q \in Clients : RailStep(q)
    BY <1>1
  <1>3. ~ RailLeft
    BY SMT DEF RailLeft, RailInv
  <1>4. ~ read_back(q)
    BY SMT DEF read_back, RailInv
  <1>5. increment(q)
    BY <1>2, <1>3, <1>4 DEF RailStep
  <1> QED
    BY <1>5, SMT DEF increment, RailInv

\* Whatever threads broadcast at once, one that enters simulate_broadcast
\* counts past every block recorded before.
THEOREM LaterBlocksAreHigher == RailsSpec => BlocksAreFresh
  <1>1. ASSUME RailInv, [RailsNext]_<<vars, rail_vars>>
        PROVE  [\A p \in Clients :
                   rail[p] = "out" /\ rail'[p] = "counted" =>
                       \A k \in Keys : block_number[k] < block_counter']_<<vars, rail_vars>>
    BY <1>1, FreshStep
  <1> QED
    BY <1>1, Invariance, PTL DEF RailsSpec, BlocksAreFresh
=============================================================================
