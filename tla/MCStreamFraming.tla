-------------------------- MODULE MCStreamFraming --------------------------
(* Two ways the decoder is driven: one source read by collect_raw_frames,  *)
(* call after call, with streams of at most MaxFrames frames, and one      *)
(* offline pipeline fed several sources.  A behaviour is of one of them;   *)
(* the other rests.                                                        *)
EXTENDS StreamFraming

CONSTANTS
    BodyLens,   \* body lengths of the frames
    MaxFrames,  \* frames in a stream
    Recorded,   \* the session a pipeline is fed from
    MaxSources  \* sources fed to one pipeline

VARIABLES
    subject,                \* "source" or "pipeline"
    buf, counters, raws, dirs, directed, calls    \* the pipeline

pipelineVars == <<buf, counters, raws, dirs, directed, calls>>

(* Lays the frames of the shape s, pairs of a body length and a verdict,   *)
(* end to end.                                                             *)
LayOut(s) ==
    LET ends[i \in 0..Len(s)] ==
            IF i = 0 THEN 0 ELSE ends[i - 1] + HeaderLen + s[i][1]
    IN  [i \in 1..Len(s) |->
            [start |-> ends[i - 1], end |-> ends[i], verdict |-> s[i][2]]]

Shapes == UNION {[1..n -> BodyLens \X Verdicts] : n \in 0..MaxFrames}

MCWires == {LayOut(s) : s \in Shapes}

(* The session of the pipeline.  A frame of one body piece is as long as   *)
(* what is missing of one of the others when it is cut after its header,   *)
(* so that an encrypted and a clear frame can swallow it.                  *)
MCRecorded ==
    <<[dir |-> "c2s", enc |-> TRUE, n |-> 0, start |-> 0, end |-> 5],
      [dir |-> "s2c", enc |-> FALSE, n |-> 0, start |-> 5, end |-> 10],
      [dir |-> "c2s", enc |-> TRUE, n |-> 1, start |-> 10, end |-> 13]>>

Pipeline == INSTANCE OfflinePipeline WITH Session <- Recorded, MaxCalls <- MaxSources

ASSUME RecordedAssumption == Recorded \in Pipeline!Sessions

MCInit ==
    /\ Init /\ Pipeline!Init
    /\ subject \in {"source", "pipeline"}
    /\ subject = "pipeline" => wire = <<>>

MCNext ==
    \/ subject = "source" /\ Next /\ UNCHANGED <<subject, pipelineVars>>
    \/ subject = "pipeline" /\ Pipeline!Next /\ UNCHANGED <<subject, vars>>

MCSpec == MCInit /\ [][MCNext]_<<vars, subject, pipelineVars>> /\ WF_vars(Read)

(* Sources that continue one another, wherever they are cut, give the      *)
(* frames of the whole stretch as one source would, none lost at a seam    *)
(* and none twice, and no source makes an encrypted frame decode again.    *)
(* What a source left unfinished never goes unnoticed: when the next one   *)
(* does not go on where it stopped, the call fails, or returns as its      *)
(* first frame a clear one put together of both; and one that was refused  *)
(* makes every later one refused.  Nor does a single source that ends ok   *)
(* leave bytes of a frame behind.                                          *)
SourcesJoin ==
    /\ Pipeline!TypeOK /\ OkEndsOnFrameBoundary
    /\ Pipeline!SeamsLoseNothing /\ Pipeline!NoReplay
    /\ Pipeline!RestSurfaces /\ Pipeline!RefusalIsFinal
=============================================================================
