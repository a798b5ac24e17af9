--------------------------- MODULE ResponseStream ---------------------------
(* The rows a method streams, on their way to the client: the Transform side   *)
(* of ODataProcessor (src/src/processor/processor.ts) between the method that  *)
(* writes, and the request handler (src/src/middlewares/request.ts) that       *)
(* forwards what comes out to the HTTP response.                               *)
(*                                                                             *)
(* A chunk is a row, a count, or a row with a count (`@odata.count` or         *)
(* `inlinecount`).  What goes out is a sequence of tokens: <<"open">> is       *)
(* `{"@odata.context":...,"value":[`, <<",">> a separator, <<"row", r>> a      *)
(* converted entity (r = 0: an entity without properties) or a buffer,         *)
(* <<"close", n>> is `]}` with the count n if n >= 0, and <<"empty">> is the   *)
(* whole answer for no rows.                                                   *)
EXTENDS Integers, Sequences, FiniteSetsExt, SequencesExt

CONSTANTS
    Streams,    \* what methods do, see IsStream
    OutHigh,    \* the processor's readableHighWaterMark, in tokens
    ResHigh     \* the response's writableHighWaterMark, in tokens

(* How the method uses the processor: "sink" returns source.pipe(processor),   *)
(* "source" pipes as well but returns the source, "writer" writes, ends, and   *)
(* returns nothing, in any order; "media" is a stream of buffers that the      *)
(* processor pipes into itself.  streamEnabled is false when another segment   *)
(* follows, $count.                                                            *)
Ways == {"sink", "source", "writer", "media"}
Chunk == {c \in [row : Nat, count : Nat \cup {-1}] : c.row > 0 \/ c.count >= 0}
IsStream(s) == /\ s.way \in Ways
               /\ s.script \in Seq(Chunk)
               /\ s.streamEnabled \in BOOLEAN
               /\ s.way = "media" => /\ s.streamEnabled
                                     /\ \A i \in DOMAIN s.script : s.script[i].count = -1

ASSUME StreamsAssumption == \A s \in Streams : IsStream(s)
ASSUME HighAssumption == OutHigh \in Nat \ {0} /\ ResHigh \in Nat \ {0}

VARIABLES
    way, script, streamEnabled,     \* the method, chosen at the start
    written,            \* how many chunks the source has written
    sourceEnded,        \* the source has ended the processor
    inbox,              \* chunks written and not yet given to _transform
    busy,               \* the chunk that _transform converts, or Idle
    streamStart, streamObject, streamEnd, streamInlineCount, resultCount,
    outbox,             \* tokens pushed and not yet emitted as 'data'
    flowing,            \* FALSE between processor.pause() and resume()
    ended,              \* 'end' was emitted
    resBuffer,          \* tokens in the response, not yet on the wire
    received,           \* tokens the client has read
    exec,               \* what the method's stage waits for, or its verdict
    answer,             \* "open", "ended", "failed" (next(err)) or "crashed"
    body                \* the answer of $count, or -1

source == <<way, script, streamEnabled, written, sourceEnded>>
flags == <<streamStart, streamObject, streamEnd, streamInlineCount, resultCount>>
pipeline == <<outbox, flowing, resBuffer, received>>
verdict == <<exec, answer, body>>
streamVars == <<source, inbox, busy, flags, pipeline, ended, verdict>>

Idle == [row |-> 0, count |-> -1]

(* What execute() waits for from the start; a writer's method is still to      *)
(* return.                                                                     *)
FirstWait(w) == CASE w = "sink" -> "processorEnd"
                  [] w = "writer" -> "method"
                  [] OTHER -> "sourceEnd"

NothingStreamed ==
    /\ written = 0 /\ sourceEnded = FALSE
    /\ inbox = <<>> /\ busy = Idle
    /\ streamStart = FALSE /\ streamObject = FALSE /\ streamEnd = FALSE
    /\ streamInlineCount = -1 /\ resultCount = 0
    /\ outbox = <<>> /\ flowing = TRUE /\ ended = FALSE
    /\ resBuffer = <<>> /\ received = <<>>
    /\ answer = "open" /\ body = -1

StreamInit ==
    /\ \E s \in Streams : /\ way = s.way
                          /\ script = s.script
                          /\ streamEnabled = s.streamEnabled
                          /\ exec = FirstWait(s.way)
    /\ NothingStreamed

-----------------------------------------------------------------------------
(* The readable side.  While it flows, what is pushed is written to the        *)
(* response at once, until res.write() says that the response is full.         *)
Forward(tokens) ==
    LET n == IF flowing
             THEN Min({Len(tokens), ResHigh - Len(resBuffer)})
             ELSE 0
    IN /\ outbox' = SubSeq(tokens, n + 1, Len(tokens))
       /\ resBuffer' = resBuffer \o SubSeq(tokens, 1, n)
       /\ flowing' = (flowing /\ Len(resBuffer') < ResHigh)
       /\ UNCHANGED received

Push(tokens) == Forward(outbox \o tokens)

(* The client reads; an emptied response that was full emits 'drain', and the  *)
(* processor resumes unless the request is over.                               *)
\* Mutant: the drain that should resume the processor is missed.
ClientReadsUnnoticed ==
    /\ resBuffer # <<>> /\ answer # "crashed"
    /\ received' = Append(received, Head(resBuffer))
    /\ resBuffer' = Tail(resBuffer)
    /\ UNCHANGED <<source, inbox, busy, flags, outbox, flowing, ended, verdict>>

ClientReads ==
    /\ resBuffer # <<>> /\ answer # "crashed"
    /\ received' = Append(received, Head(resBuffer))
    /\ LET drain == Len(resBuffer) = 1 /\ ~flowing /\ answer = "open"
           n == IF drain THEN Min({Len(outbox), ResHigh}) ELSE 0
       IN /\ outbox' = SubSeq(outbox, n + 1, Len(outbox))
          /\ resBuffer' = Tail(resBuffer) \o SubSeq(outbox, 1, n)
          /\ flowing' = IF drain THEN n < ResHigh ELSE flowing
    /\ UNCHANGED <<source, inbox, busy, flags, ended, verdict>>

-----------------------------------------------------------------------------
(* The writable side.  _transform takes a chunk when it has done the last one  *)
(* and the readable side has room; both happen within the write() otherwise.   *)
CanTake == inbox # <<>> /\ busy = Idle /\ Len(outbox) < OutHigh

CanFlush == /\ sourceEnded /\ inbox = <<>> /\ busy = Idle /\ ~streamEnd
            /\ Len(outbox) < OutHigh
CanEnd == streamEnd /\ outbox = <<>> /\ flowing /\ ~ended

(* A segment that is not the last one only counts what it is given.            *)
SourceWrites ==
    /\ answer = "open" /\ ~CanTake
    /\ written < Len(script)
    /\ written' = written + 1
    /\ IF streamEnabled
       THEN inbox' = Append(inbox, script[written + 1]) /\ UNCHANGED resultCount
       ELSE resultCount' = resultCount + 1 /\ UNCHANGED inbox
    /\ UNCHANGED <<way, script, streamEnabled, sourceEnded, busy, streamStart,
                   streamObject, streamEnd, streamInlineCount, pipeline, ended,
                   verdict>>

EndSource ==
    /\ answer = "open" /\ ~CanTake
    /\ written = Len(script) /\ ~sourceEnded
    /\ sourceEnded' = TRUE
    /\ exec' = IF exec = "sourceEnd" THEN "resolved" ELSE exec
    /\ UNCHANGED <<way, script, streamEnabled, written, inbox, busy, flags,
                   pipeline, ended, answer, body>>

TransformBuffer ==
    /\ answer = "open" /\ CanTake /\ way = "media"
    /\ inbox' = Tail(inbox)
    /\ streamStart' = TRUE
    /\ resultCount' = resultCount + 1
    /\ Push(<<<<"row", Head(inbox).row>>>>)
    /\ UNCHANGED <<source, busy, streamObject, streamEnd, streamInlineCount,
                   ended, verdict>>

(* `if (chunk['@odata.count'] || chunk.inlinecount)`: a count of 0 is none.    *)
HasCount(c) == c.count > 0
CountOnly(c) == HasCount(c) /\ c.row = 0

\* Mutant: the separator follows the first chunk, row or not.
PrefixAfterStart == IF ~streamStart THEN <<<<"open">>>> ELSE <<<<",">>>>

Prefix == CASE ~streamStart -> <<<<"open">>>>
            [] streamStart /\ resultCount > 0 -> <<<<",">>>>
            [] OTHER -> <<>>

TransformObject ==
    /\ answer = "open" /\ CanTake /\ way # "media"
    /\ LET c == Head(inbox)
       IN /\ busy' = IF CountOnly(c) THEN Idle ELSE c
          /\ streamInlineCount' = IF HasCount(c) THEN c.count ELSE streamInlineCount
    /\ inbox' = Tail(inbox)
    /\ streamObject' = TRUE /\ streamStart' = TRUE
    /\ Push(Prefix)
    /\ UNCHANGED <<source, streamEnd, resultCount, ended, verdict>>

(* A chunk is being converted, and its conversion has not failed yet.          *)
Converting == busy # Idle /\ ~(way = "sink" /\ exec = "rejected")

(* __appendLinks and __convertEntity have resolved.                            *)
Converted ==
    /\ answer = "open" /\ Converting
    /\ Push(<<<<"row", busy.row>>>>)
    /\ busy' = Idle
    /\ resultCount' = resultCount + 1
    /\ UNCHANGED <<source, inbox, streamStart, streamObject, streamEnd,
                   streamInlineCount, ended, verdict>>

(* done(err) makes the processor emit 'error'.  Only a method that returned    *)
(* the processor gave it a listener; without one the process ends.             *)
ConversionFails ==
    /\ answer = "open" /\ Converting
    /\ IF exec = "processorEnd"
       THEN exec' = "rejected" /\ UNCHANGED answer
       ELSE answer' = "crashed" /\ UNCHANGED exec
    /\ UNCHANGED <<source, inbox, busy, flags, pipeline, ended, body>>

(* After the answer no listener is left at all.                                *)
LateFailure ==
    /\ answer \in {"ended", "failed"} /\ Converting
    /\ answer' = "crashed"
    /\ UNCHANGED <<source, inbox, busy, flags, pipeline, ended, exec, body>>

Closing == CASE streamObject -> <<<<"close", streamInlineCount>>>>
             [] ~streamObject /\ ~streamStart -> <<<<"empty">>>>
             [] OTHER -> <<>>

Flush ==
    /\ answer = "open" /\ CanFlush
    /\ Push(IF streamEnabled THEN Closing ELSE <<>>)
    /\ streamEnd' = TRUE
    /\ UNCHANGED <<source, inbox, busy, streamStart, streamObject,
                   streamInlineCount, resultCount, ended, verdict>>

EmitEnd ==
    /\ answer = "open" /\ CanEnd
    /\ ended' = TRUE
    /\ exec' = IF exec \in {"processorEnd", "writerEnd"} THEN "resolved" ELSE exec
    /\ UNCHANGED <<source, inbox, busy, flags, pipeline, answer, body>>

-----------------------------------------------------------------------------
(* The end of __read for a method that returned nothing: without a row so far  *)
(* it is a 404, and with the stream at work its 'end' is awaited.              *)
\* Mutant: the end is not awaited once the method has returned.
ReturnAtOnce ==
    /\ answer = "open" /\ exec = "method" /\ ~CanTake
    /\ exec' = IF streamStart THEN "resolved" ELSE "rejected"
    /\ UNCHANGED <<source, inbox, busy, flags, pipeline, ended, answer, body>>

Return ==
    /\ answer = "open" /\ exec = "method" /\ ~CanTake
    /\ exec' = CASE ~streamStart -> "rejected"
                 [] streamStart /\ ~streamEnd -> "writerEnd"
                 [] OTHER -> "resolved"
    /\ UNCHANGED <<source, inbox, busy, flags, pipeline, ended, answer, body>>

(* The handler commits, ends the response and removes the listeners.  What the *)
(* streams can do without waiting they have done when the commit is answered.  *)
Respond ==
    /\ answer = "open" /\ exec = "resolved"
    /\ ~CanTake /\ ~CanFlush /\ ~CanEnd
    /\ answer' = "ended"
    /\ body' = IF streamEnabled THEN -1 ELSE resultCount
    /\ UNCHANGED <<source, inbox, busy, flags, pipeline, ended, exec>>

(* execute() or the commit rejects: rollback, and no chunk is written any more. *)
RespondError ==
    /\ answer = "open" /\ exec \in {"resolved", "rejected"}
    /\ answer' = "failed"
    /\ UNCHANGED <<source, inbox, busy, flags, pipeline, ended, exec, body>>

StreamNext ==
    \/ SourceWrites \/ EndSource \/ TransformBuffer \/ TransformObject \/ Converted
    \/ ConversionFails \/ LateFailure \/ Flush \/ EmitEnd \/ ClientReads
    \/ Return \/ Respond \/ RespondError

(* Sources end, conversions and methods return, and the client goes on         *)
(* reading; conversions and commits need not fail.                             *)
StreamFairness ==
    /\ WF_streamVars(SourceWrites) /\ WF_streamVars(EndSource)
    /\ WF_streamVars(TransformBuffer) /\ WF_streamVars(TransformObject)
    /\ WF_streamVars(Converted) /\ WF_streamVars(Flush) /\ WF_streamVars(EmitEnd)
    /\ WF_streamVars(ClientReads) /\ WF_streamVars(Return)
    /\ WF_streamVars(Respond \/ RespondError)

StreamSpec == StreamInit /\ [][StreamNext]_streamVars /\ StreamFairness

-----------------------------------------------------------------------------
Tokens == {<<"open">>, <<",">>, <<"empty">>}
          \cup ({"row"} \X Nat) \cup ({"close"} \X (Nat \cup {-1}))

(* The variables keep their types, the processor flows only while the response *)
(* has room, and nothing is written to a processor after its end.              *)
StreamTypeOK ==
    /\ way \in Ways /\ script \in Seq(Chunk) /\ streamEnabled \in BOOLEAN
    /\ written \in 0..Len(script) /\ sourceEnded \in BOOLEAN
    /\ inbox \in Seq(Chunk) /\ busy \in Chunk \cup {Idle}
    /\ streamStart \in BOOLEAN /\ streamObject \in BOOLEAN
    /\ streamEnd \in BOOLEAN /\ ended \in BOOLEAN
    /\ streamInlineCount \in Nat \cup {-1} /\ resultCount \in Nat
    /\ outbox \in Seq(Tokens) /\ flowing \in BOOLEAN
    /\ resBuffer \in Seq(Tokens) /\ received \in Seq(Tokens)
    /\ exec \in {"none", "method", "processorEnd", "writerEnd", "sourceEnd",
                 "resolved", "rejected"}
    /\ answer \in {"open", "ended", "failed", "crashed"}
    /\ body \in Nat \cup {-1}
    /\ Len(resBuffer) <= ResHigh
    /\ flowing => Len(resBuffer) < ResHigh
    /\ streamEnd => sourceEnded /\ inbox = <<>> /\ busy = Idle

(* The first h chunks, and no others, are counts without a row.                *)
CountsFirst(h) == \A i \in DOMAIN script : script[i].row = 0 <=> i <= h
Heads == CHOOSE h \in 0..Len(script) : CountsFirst(h)

(* The scripts this code was written for: a count without a row comes before   *)
(* the rows and is not 0.  (A count of 0 is sent as one more entity, and a     *)
(* count after a row leaves a separator without an element.)  An empty media   *)
(* stream is answered like an empty collection.                                *)
Regular ==
    /\ \E h \in 0..Len(script) : CountsFirst(h)
    /\ \A i \in DOMAIN script : script[i].row = 0 => script[i].count > 0
    /\ ~(way = "media" /\ script = <<>>)

(* The answer a client should get for a regular script: its rows, separated,   *)
(* between the opening and the closing with the last count that was given; the *)
(* bare buffers of a media stream.                                             *)
Rows == SubSeq(script, Heads + 1, Len(script))
Counted == {i \in DOMAIN script : script[i].count > 0}
LastCount == IF Counted = {} THEN -1 ELSE script[Max(Counted)].count
Document ==
    IF way = "media" THEN [i \in DOMAIN script |-> <<"row", script[i].row>>]
    ELSE IF script = <<>> THEN <<<<"empty">>>>
    ELSE <<<<"open">>>>
         \o [k \in 1..(IF Rows = <<>> THEN 0 ELSE 2 * Len(Rows) - 1) |->
                IF k % 2 = 1 THEN <<"row", Rows[(k + 1) \div 2].row>> ELSE <<",">>]
         \o <<<<"close", LastCount>>>>

Sent == received \o resBuffer

(* However conversions, back-pressure and failures interleave, what a client   *)
(* has received is the beginning of the right answer: one opening, the rows in *)
(* the order they were written, separators between them only, one closing.     *)
SentInOrder == streamEnabled /\ Regular => IsPrefix(Sent, Document)

(* A response that was ended normally is the whole answer, whatever the client *)
(* read when: always if the method returned the processor, and otherwise       *)
(* unless the processor was paused with rows in it, or, when the method        *)
(* returned its source, conversions were still running.                        *)
NothingLost ==
    answer = "ended" /\ exec # "none" /\ streamEnabled /\ Regular =>
        \/ Sent = Document
        \/ way # "sink" /\ ~flowing
        \/ way = "source" /\ ~streamEnd

(* $count of a streamed collection is the number of rows the method wrote (a   *)
(* count chunk is counted as a row).                                           *)
CountIsRows == body # -1 /\ Counted = {} => body = Len(script)
=============================================================================
