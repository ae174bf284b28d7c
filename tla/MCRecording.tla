----------------------------- MODULE MCRecording -----------------------------
(* Two parts of the store that share no state, as in MCPipelines: the       *)
(* segment writer and the publication of artifacts.                         *)
EXTENDS MCSegmentStore, ArtifactPublication

CONSTANTS               \* bound: crashes, evictions, mishaps, withdrawals and reads together
    MaxTroubles,        \* while one artifact is published,
    MaxSharedTroubles   \* and once a second is

VARIABLE recording      \* the part that moves

recordingVars == <<recording, vars, publicationVars>>

RecordingInit ==
    /\ recording \in {"segments", "publication"}
    /\ Init /\ PublicationInit
    /\ recording # "publication" => offer = (CHOOSE o \in Offers : TRUE) /\ source = "open"

SegmentsMoveOnly ==
    /\ recording = "segments" /\ Next
    /\ UNCHANGED <<recording, publicationVars>>

Troubles(l) == l.evictions + l.mishaps + l.withdrawals + l.restarts + l.looks

PublicationMovesOnly ==
    /\ recording = "publication" /\ PublicationNext
    /\ Troubles(life') <= IF \E p \in Publishers : pub'[p].pc = "new" THEN MaxTroubles
                          ELSE MaxSharedTroubles
    /\ UNCHANGED <<recording, vars>>

RecordingNext == SegmentsMoveOnly \/ PublicationMovesOnly

\* The fairness each states, when it is the subject.
RecordingFairness ==
    /\ WF_vars(recording = "segments" /\ Worker)
    /\ WF_vars(recording = "segments" /\ Committer)
    /\ WF_vars(recording = "segments" /\ Recovery)
    /\ WF_publicationVars(recording = "publication" /\ PublicationProceeds)

RecordingSpec ==
    RecordingInit /\ [][RecordingNext]_recordingVars /\ RecordingFairness

Of(kind, key) == [kind |-> kind, key |-> key]

\* One key wanted twice, or two keys of two kinds.
TwoOffers == {<<Of("image", 1), Of("image", 1)>>, <<Of("video", 1), Of("video", 1)>>,
              <<Of("image", 1), Of("video", 2)>>}
==============================================================================
