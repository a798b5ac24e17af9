------------------------------ MODULE Response ------------------------------
(* A request from its URL to the last byte of its answer: Processor works off  *)
(* the segments, and where a method streams, ResponseStream carries the rows   *)
(* while the stage waits.  What is streamed goes out if the segment is the     *)
(* last one (or $value follows it), and is only counted otherwise.             *)
EXTENDS Processor, ResponseStream

responseVars == <<processorVars, streamVars>>

ResponseInit ==
    /\ ProcessorInit
    /\ way = "sink" /\ script = <<>> /\ streamEnabled = TRUE /\ exec = "none"
    /\ NothingStreamed

(* __enableStreaming of the segment at work.                                   *)
\* Mutant: the segment before $count streams as well.
EnableAny(i) == TRUE

EnableStreaming(i) ==
    \/ i = Len(navigation)
    \/ i < Len(navigation) /\ navigation[i + 1].name = "$value"

Buffers == Part.type # "EntitySetName" /\ Part.type # "EntityCollectionNavigationProperty"

StartStream ==
    /\ outcome = "streaming" /\ exec = "none"
    /\ \E s \in Streams :
           /\ s.streamEnabled = EnableStreaming(Index)
           /\ (s.way = "media") = Buffers
           /\ way' = s.way /\ script' = s.script /\ streamEnabled' = s.streamEnabled
           /\ exec' = FirstWait(s.way)
    /\ UNCHANGED <<processorVars, written, sourceEnded, inbox, busy, flags,
                   pipeline, ended, answer, body>>

Streaming ==
    /\ exec # "none" /\ outcome \in {"streaming", "running", "done"}
    /\ \/ SourceWrites \/ EndSource \/ TransformBuffer \/ TransformObject
       \/ Converted \/ ConversionFails \/ Flush \/ EmitEnd \/ ClientReads \/ Return
    /\ UNCHANGED processorVars

StageResumes ==
    /\ outcome = "streaming"
    /\ \/ exec = "resolved" /\ StreamEnds
       \/ exec = "rejected" /\ Fails(IF streamStart THEN 500 ELSE 404)
    /\ UNCHANGED streamVars

(* A method returned the processor, and __read listens to its errors.          *)
Heard == exec # "none" /\ way = "sink"

Working ==
    /\ answer = "open"
    /\ \/ Load \/ Begin \/ Visit \/ PushStages \/ SkipStage \/ EntitySetName
       \/ EntityCollectionNavigationProperty \/ EntityNavigationProperty
       \/ Property \/ QualifiedTypeName \/ BoundOperation \/ OperationImport
       \/ Count(resultCount) \/ RawValue \/ Reference
       \/ MethodThrows /\ outcome # "streaming"
       \/ Finish(Heard)
    /\ UNCHANGED streamVars

(* The request handler: commit and end, or roll back and next(err).            *)
Deliver ==
    /\ outcome = "done" /\ answer = "open"
    /\ \/ exec # "none" /\ (Respond \/ RespondError)
       \/ /\ exec = "none"
          /\ answer' \in {"ended", "failed"}
          /\ UNCHANGED <<source, inbox, busy, flags, pipeline, ended, exec, body>>
    /\ UNCHANGED processorVars

DeliverError ==
    /\ outcome = "error" /\ answer = "open"
    /\ answer' = "failed"
    /\ UNCHANGED <<processorVars, source, inbox, busy, flags, pipeline, ended,
                   exec, body>>

(* A conversion that nobody awaited fails after the answer.                    *)
AfterAnswer == LateFailure /\ UNCHANGED processorVars

ResponseNext ==
    \/ Working \/ StartStream \/ Streaming \/ StageResumes \/ Deliver
    \/ DeliverError \/ AfterAnswer

(* While a stage, a source, a conversion or the client can go on, one of them  *)
(* does.                                                                       *)
ResponseFairness == WF_responseVars(ResponseNext)

ResponseSpec ==
    ResponseInit /\ [][ResponseNext]_responseVars /\ ResponseFairness

(* Only a GET is answered with a number (any other verb ends without a body or *)
(* with an error, unless a stage's listener took the error), and the number of *)
(* rows that were streamed past $count is that of the chunks their method      *)
(* wrote.  (Of rows that were returned it is in ReadsWhatIsNamed.)             *)
CountIsRight ==
    answer = "ended" /\ result.body[1] \in {"count", "counted"} =>
        /\ request.verb = "get" \/ Heard
        /\ result.body = <<"counted">> => CountIsRows /\ body # -1

(* Every request is answered, or its process has died of a conversion that     *)
(* failed with nobody listening: no stage waits for a stream that is over.     *)
EveryRequestServed == <>(answer # "open")
=============================================================================
