------------------------------- MODULE MCStops -------------------------------
(* Two parts that share no state, as in MCPipelines: the deletion journal,  *)
(* and a capture stream that starts, is suspended and stops.                *)
EXTENDS MCDeletionJournal, CaptureStream

VARIABLE stopping    \* the part that moves

stopsVars == <<stopping, vars, streamVars>>

StopsInit == stopping \in {"journal", "stream"} /\ Init /\ StreamInit

JournalMovesOnly ==
    /\ stopping = "journal" /\ Next
    /\ UNCHANGED <<stopping, streamVars>>

\* Frames, visibility events and failures are at most StreamFrames together: three frames, two
\* with an event or a failure, or one with both.
StreamMovesOnly ==
    /\ stopping = "stream" /\ StreamNext
    /\ rt'.received + env'.visibility + env'.faults <= StreamFrames
    /\ UNCHANGED <<stopping, vars>>

StopsNext == JournalMovesOnly \/ StreamMovesOnly

\* The fairness each states, when it is the subject.
StopsFairness ==
    /\ WF_vars(stopping = "journal" /\ Task)
    /\ WF_vars(stopping = "journal" /\ Worker)
    /\ WF_vars(stopping = "journal" /\ Recover)
    /\ WF_streamVars(stopping = "stream" /\ ~rt.poisoned /\ WorkerProceeds)
    /\ WF_streamVars(stopping = "stream" /\ ~rt.poisoned
                       /\ (RecordAccepted \/ DropFrame \/ ReaderFails))

StopsSpec == StopsInit /\ [][StopsNext]_stopsVars /\ StopsFairness
==============================================================================
