---------------------------- MODULE ReplayBuffers ----------------------------
(***************************************************************************)
(* learner_server.py, the rows of one primitive's replay buffers: what     *)
(* process_transitions stores, what save_training_checkpoint writes of it  *)
(* and what a resumed session rebuilds from it.  The buffer itself is      *)
(* lerobot's ReplayBuffer, external: a ring of rows which, "optimized",    *)
(* keeps no next state and takes the state of the row after.               *)
(*                                                                         *)
(* An observation is a number: those of one segment are consecutive, and   *)
(* the transition from s leads to s + 1.  The demonstrations are one       *)
(* episode, -n .. 0.  Several primitives, the moments at which a save may  *)
(* be cut short (LearnerCheckpoint) and sampling are left out.             *)
(***************************************************************************)
EXTENDS Integers, Sequences, FiniteSets, FiniteSetsExt

CONSTANTS
    Policies,           \* [kind : {"sac", "sac_dagger", "bc"}, demos : Nat]
    OnlineCapacity,
    OfflineCapacity,
    MaxObservation,     \* bound: observations counted up
    MaxResumes          \* bound: restarts of the learner

\* a ReplayBuffer refuses a capacity of 0
ASSUME ReplayAssumption ==
    /\ Policies \subseteq [kind : {"sac", "sac_dagger", "bc"}, demos : Nat]
    /\ OnlineCapacity \in Nat \ {0} /\ OfflineCapacity \in Nat \ {0}

VARIABLES
    policy,
    online, offline,
    saved,              \* <output_dir>/<primitive>/dataset: its frames, <<>> when absent
    observation,        \* the actor's last one: the state of the next transition
    history,            \* the states of the transitions stored, truncated, and saved corrections
    resumes, resumed    \* restarts so far; TRUE until the first transition after one

replayVars == <<policy, online, offline, saved, observation, history, resumes, resumed>>

-----------------------------------------------------------------------------
(* lerobot's ReplayBuffer                                                  *)

Ring(capacity, optimized) ==
    [rows |-> <<>>, position |-> 0, capacity |-> capacity, optimized |-> optimized]

Add(buffer, row) ==
    [buffer EXCEPT
        !.rows = IF Len(@) < buffer.capacity THEN Append(@, row)
                 ELSE [@ EXCEPT ![buffer.position + 1] = row],
        !.position = (@ + 1) % buffer.capacity]

\* rows added one after the other to a buffer that has room for them: every caller adds as
\* many as fit
Fill(buffer, rows) ==
    [buffer EXCEPT !.rows = @ \o rows, !.position = (@ + Len(rows)) % buffer.capacity]

\* (position - size + i) % capacity, from the oldest row to the newest
Logical(buffer) ==
    LET size == Len(buffer.rows)
    IN  [i \in 1..size |->
            buffer.rows[((buffer.position - size + i - 1) % buffer.capacity) + 1]]

\* what a batch carries as the next state of logical row i
NextState(buffer, i) ==
    LET rows == Logical(buffer)
    IN  IF buffer.optimized THEN rows[(i % Len(rows)) + 1].state ELSE rows[i].next

\* from_lerobot_dataset: the next frame of the same episode unless the frame is done; the
\* truncated flag is not in a frame
Loaded(frames, capacity, optimized) ==
    LET Row(i) == [state |-> frames[i].state, done |-> frames[i].done,
                   truncated |-> FALSE, intervention |-> frames[i].intervention,
                   next |-> IF /\ ~frames[i].done /\ i < Len(frames)
                               /\ frames[i].episode = frames[i + 1].episode
                            THEN frames[i + 1].state ELSE frames[i].state]
    IN  Fill(Ring(capacity, optimized), [i \in 1..Min({Len(frames), capacity}) |-> Row(i)])

-----------------------------------------------------------------------------
UsesBcUpdates(p) == p.kind = "bc"
IsSacDagger(p) == p.kind \in {"sac_dagger", "bc"}

\* the recorded demonstrations of the primitive
DemoFrames(p) ==
    [i \in 1..p.demos |->
        [state |-> i - 1 - p.demos, done |-> i = p.demos, episode |-> 0, intervention |-> FALSE]]

MutSavedFrames(buffer) ==
    LET rows == buffer.rows
        Ends(i) == rows[i].done \/ rows[i].truncated
    IN  [i \in 1..Len(rows) |->
            [state |-> rows[i].state, done |-> rows[i].done, intervention |-> rows[i].intervention,
             episode |-> Cardinality({j \in 1..(i - 1) : Ends(j)})]]

\* _replay_buffer_to_lerobot_dataset: one episode up to each done or truncated row; neither
\* the next state nor the truncated flag is written
SavedFrames(buffer) ==
    LET rows == Logical(buffer)
        Ends(i) == rows[i].done \/ rows[i].truncated
    IN  [i \in 1..Len(rows) |->
            [state |-> rows[i].state, done |-> rows[i].done, intervention |-> rows[i].intervention,
             episode |-> Cardinality({j \in 1..(i - 1) : Ends(j)})]]

\* _stream_replay_buffer_from_lerobot_dataset: the first frames, as many as fit (it marks a done
\* row truncated too, which says nothing more)
Streamed(frames, capacity) == Loaded(frames, capacity, TRUE)

MutNthNewest(found, n) == CHOOSE i \in found : Cardinality({j \in found : j <= i}) = n

\* the n-th of the indices found, from the last one back
NthNewest(found, n) == CHOOSE i \in found : Cardinality({j \in found : j >= i}) = n

\* _extract_intervention_transitions: newest first, up to max_count
ExtractInterventions(source, dest, max_count) ==
    LET found == {i \in DOMAIN source.rows : source.rows[i].intervention}
    IN  Fill(dest, [n \in 1..Min({max_count, Cardinality(found)}) |->
                       Logical(source)[NthNewest(found, n)]])

\* the copy of the demonstrations, newest first: next_states is states in an optimized buffer
MergeDemos(dest, demos, room) ==
    LET Copied(row) == IF demos.optimized THEN [row EXCEPT !.next = row.state] ELSE row
        size == Len(demos.rows)
    IN  Fill(dest, [n \in 1..Min({room, size}) |-> Copied(Logical(demos)[size + 1 - n])])

\* initialize_replay_buffers
InitialOnline(frames) == Loaded(frames, OnlineCapacity, TRUE)

MutCorrections(p, frames) ==
    LET empty == Ring(OfflineCapacity, TRUE)
    IN  IF frames = <<>> THEN empty
        ELSE ExtractInterventions(Loaded(frames, Len(frames), FALSE), empty, OfflineCapacity)

\* initialize_offline_replay_buffers: the corrections of the saved dataset come first
Corrections(p, frames) ==
    LET empty == Ring(OfflineCapacity, UsesBcUpdates(p))
    IN  IF frames = <<>> THEN empty
        ELSE ExtractInterventions(Loaded(frames, Len(frames), FALSE), empty, OfflineCapacity)

\* the demonstrations fill what is left; without corrections they are the buffer
InitialOffline(p, frames) ==
    LET corrections == Corrections(p, frames)
        remaining == OfflineCapacity - Len(corrections.rows)
        capacity == Min({p.demos, remaining})
        demos == IF IsSacDagger(p) THEN Streamed(DemoFrames(p), capacity)
                 ELSE Loaded(DemoFrames(p), capacity, FALSE)
    IN  IF p.demos = 0 \/ remaining = 0 THEN corrections
        ELSE IF corrections.rows = <<>> THEN demos
        ELSE MergeDemos(corrections, demos, remaining)

\* from_lerobot_dataset refuses a dataset larger than the buffer: the learner does not start
Starts(p, frames) ==
    LET remaining == OfflineCapacity - Len(Corrections(p, frames).rows)
    IN  IsSacDagger(p) \/ remaining = 0 \/ p.demos <= remaining

-----------------------------------------------------------------------------
ReplayInit ==
    /\ policy \in {p \in Policies : Starts(p, <<>>)}
    /\ online = InitialOnline(<<>>)
    /\ offline = InitialOffline(policy, <<>>)
    /\ saved = <<>> /\ observation = 1
    /\ history = [stored |-> {}, truncated |-> {}, corrections |-> {}]
    /\ resumes = 0 /\ resumed = FALSE

\* process_transitions, for one transition: one with a NaN is dropped, an intervention goes
\* into both buffers
ProcessTransition(end, intervention, has_nan) ==
    LET row == [state |-> observation, next |-> observation + 1, done |-> end = "done",
                truncated |-> end = "truncated", intervention |-> intervention]
    IN  /\ observation < MaxObservation
        /\ observation' = IF end = "no" THEN observation + 1 ELSE observation + 2
        /\ resumed' = FALSE
        /\ history' = [history EXCEPT
                !.stored = IF has_nan THEN @ ELSE @ \cup {observation},
                !.truncated = IF end = "truncated" THEN @ \cup {observation} ELSE @]
        /\ online' = IF has_nan THEN online ELSE Add(online, row)
        /\ offline' = IF has_nan \/ ~intervention THEN offline ELSE Add(offline, row)
        /\ UNCHANGED <<policy, saved, resumes>>

\* save_training_checkpoint: the old dataset is replaced
SaveDataset ==
    /\ saved' = SavedFrames(online)
    /\ history' = [history EXCEPT !.corrections =
            {online.rows[i].state : i \in {j \in DOMAIN online.rows : online.rows[j].intervention}}]
    /\ UNCHANGED <<policy, online, offline, observation, resumes, resumed>>

\* the learner is started again with resume; the actor begins a new segment
Resume ==
    /\ resumes < MaxResumes /\ observation < MaxObservation
    /\ Starts(policy, saved)
    /\ online' = InitialOnline(saved)
    /\ offline' = InitialOffline(policy, saved)
    /\ observation' = observation + 1
    /\ history' = [history EXCEPT !.stored = {s \in @ : \E i \in 1..Len(saved) : s <= saved[i].state}]
    /\ resumes' = resumes + 1 /\ resumed' = TRUE
    /\ UNCHANGED <<policy, saved>>

ReplayNext ==
    \/ \E end \in {"no", "done", "truncated"}, intervention, has_nan \in BOOLEAN :
          ProcessTransition(end, intervention, has_nan)
    \/ SaveDataset
    \/ Resume

ReplaySpec == ReplayInit /\ [][ReplayNext]_replayVars

-----------------------------------------------------------------------------
(* Properties                                                              *)

\* A target bootstraps from the next state of every row that is not done, a truncated one too.
Bootstraps(row) == ~row.done

\* The online buffer's rows keep, across evictions, saves and restarts, the order they were
\* received in, so that the row after one that goes on carries its real next state, whenever
\* that row was stored (initialize_replay_buffers 697-733, process_transitions 659-694).  The
\* observation after a truncated row is no row's state.
SuccessorFollows ==
    \A i \in 1..(Len(online.rows) - 1) :
        LET row == Logical(online)[i]
        IN  Bootstraps(row) /\ row.state + 1 \in history.stored
                => NextState(online, i) = row.state + 1

\* "next_state at the last step of segment 1 (index 1) must be the real next frame"
\* (test_learner_replay_buffers.py:596): where an off-policy critic is updated from the offline
\* buffer, a correction or a demonstration whose successor was itself received or recorded
\* bootstraps from that successor, rebuilt or not.  It says nothing of a row whose successor
\* was not: one that a truncation ended (TruncatedStaysInSegment), the last one before a restart,
\* one before a transition dropped for a NaN.
OfflineSuccessorFollows ==
    ~UsesBcUpdates(policy) =>
        \A i \in 1..(Len(offline.rows) - 1) :
            LET row == Logical(offline)[i]
            IN  Bootstraps(row) /\ row.state + 1 \in history.stored \cup (-policy.demos)..0
                    => NextState(offline, i) = row.state + 1

\* A timeout ends a segment and the next one starts from a full reset, while plain SAC "keeps
\* the complete next_state to compute the TD target" (MuJoCo guide, lines 37 and 227): a
\* truncated correction bootstraps from its own next observation, or, rebuilt, from itself.
TruncatedStaysInSegment ==
    ~UsesBcUpdates(policy) =>
        \A i \in 1..Len(offline.rows) :
            LET row == Logical(offline)[i]
            IN  Bootstraps(row) /\ row.state \in history.truncated
                    => NextState(offline, i) \in {row.state, row.state + 1}

\* What a resumed session keeps of the operator's corrections are the newest of those saved,
\* as many as fit, and no demonstration takes the place of one (883-978).
NewestCorrectionsKept ==
    resumed =>
        LET kept == {s \in {offline.rows[i].state : i \in DOMAIN offline.rows} : s > 0}
        IN  /\ kept \subseteq history.corrections
            /\ \A s \in history.corrections \ kept : \A t \in kept : s < t
            /\ kept # history.corrections => Len(offline.rows) = Cardinality(kept)
                                              /\ Cardinality(kept) = OfflineCapacity
=============================================================================
