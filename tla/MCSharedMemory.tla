---------------------------- MODULE MCSharedMemory ----------------------------
(* SharedMemory.cfg: the command queue and the ring buffer between two        *)
(* processes.  They share nothing, so a behaviour runs one of them ("live")   *)
(* and leaves the other in an initial state.                                  *)
(* RingBufferCatchUpTorn.cfg: the ring buffer alone.                          *)
EXTENDS SharedMemoryQueue, SharedMemoryRingBuffer

VARIABLE live

\* a gripper's state stream, paced by deadlines, and an arm's, paced by RTDE
DeadlinePaced == [get_max_k |-> 2, get_time_budget |-> 1, period |-> 1,
                  keys |-> {"pose"}, pacing |-> "deadlines",
                  max_puts |-> 6, max_time |-> 5]
PeriodPaced == [get_max_k |-> 1, get_time_budget |-> 3, period |-> 1,
                keys |-> {"pose", "wrench"}, pacing |-> "period",
                max_puts |-> 7, max_time |-> 6]
BothRings == {DeadlinePaced, PeriodPaced}
DeadlinePacedOnly == {[DeadlinePaced EXCEPT !.max_time = 6]}

MemoryInit ==
    /\ live \in {"queue", "ring"}
    /\ Init /\ RingInit
    /\ live = "queue" => ring = PeriodPaced

MemoryNext ==
    \/ live = "queue" /\ Next /\ UNCHANGED <<live, ringVars>>
    \/ live = "ring" /\ RingNext /\ UNCHANGED <<live, vars>>

MemorySpec == MemoryInit /\ [][MemoryNext]_<<live, vars, ringVars>>

\* the ring buffer alone; the queue's memory stays as it was made
TornSpec == MemoryInit /\ live = "ring" /\ [][MemoryNext]_<<live, vars, ringVars>>
=============================================================================
