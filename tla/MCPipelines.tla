----------------------------- MODULE MCPipelines -----------------------------
(* Four parts of a session that share no state: a behaviour picks one, and  *)
(* the others stay where they start. Their interleavings would show nothing *)
(* more.                                                                    *)
EXTENDS SubscriberFanout, CaptureGeometry, CaptureAdmission, ArtifactFlights

VARIABLE subject    \* the part that moves

pipelinesVars == <<subject, fanoutVars, geometryVars, admissionVars, flightVars>>

PipelinesInit ==
    /\ subject \in {"fanout", "geometry", "admission", "flights"}
    /\ FanoutInit /\ GeometryInit /\ AdmissionInit /\ FlightsInit

\* A revision more while only one subscriber reads.
FanoutMovesOnly ==
    /\ subject = "fanout" /\ FanoutNext
    /\ UNCHANGED <<subject, geometryVars, admissionVars, flightVars>>
    /\ registry'.revision = MaxRevisions =>
          Cardinality({s \in Subscribers : sub'[s].pc # "absent"}) <= 1

GeometryMovesOnly ==
    /\ subject = "geometry" /\ GeometryNext
    /\ UNCHANGED <<subject, fanoutVars, admissionVars, flightVars>>

AdmissionMovesOnly ==
    /\ subject = "admission" /\ AdmissionNext
    /\ UNCHANGED <<subject, fanoutVars, geometryVars, flightVars>>

FlightsMoveOnly ==
    /\ subject = "flights" /\ FlightsNext
    /\ UNCHANGED <<subject, fanoutVars, geometryVars, admissionVars>>

PipelinesNext ==
    \/ FanoutMovesOnly \/ GeometryMovesOnly \/ AdmissionMovesOnly \/ FlightsMoveOnly

\* The fairness each states, when it is the subject.
PipelinesFairness ==
    /\ WF_fanoutVars(subject = "fanout" /\ FanoutProceeds)
    /\ WF_admissionVars(subject = "admission" /\ AdmissionProceeds)
    /\ WF_flightVars(subject = "flights" /\ FlightsProceed)

PipelinesSpec == PipelinesInit /\ [][PipelinesNext]_pipelinesVars /\ PipelinesFairness

\* Two requests want the same output, a third that one and another.
PartlyShared == [r \in Requests |-> IF r = 3 THEN {1, 2} ELSE {1}]
==============================================================================
