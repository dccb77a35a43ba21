--------------------------- MODULE ResponseStream ---------------------------
(***************************************************************************)
(* One streamed call of the model: DeepSeekResponsesClient.createResponse  *)
(* and ssePayloads in providers/deepseek/responses-client.ts.              *)
(*                                                                         *)
(* The body is a sequence of tokens: CR, LF and the lines between them, a  *)
(* line of data being named for the event it carries.  It arrives in       *)
(* pieces cut anywhere.  What a completed response contains is left out.   *)
(***************************************************************************)
EXTENDS Basics

CONSTANTS
    Bodies,    \* what the server may send, sequences of tokens
    MaxBuffer  \* bound: 2 000 000 characters

VARIABLES
    streaming, \* "waiting", "reading" or "settled"
    bodiless,  \* history: the server's ok answer has no body
    body,      \* history: all that the server sends in one
    rest,      \* what has not arrived
    buffer,    \* what has arrived and is not yet a whole block
    blocks,    \* whole blocks that are not yet looked at
    last,      \* the body has ended
    events,    \* what the caller has been told
    aborted,   \* by the caller's signal
    cutOff,    \* the timer has fired
    ending,    \* "none", "completed" or the code of the error
    key        \* the key is held

streamVars ==
    <<streaming, bodiless, body, rest, buffer, blocks, last, events, aborted,
      cutOff, ending, key>>

CR == "cr"
LF == "lf"
Reported == {"delta", "call", "search"}

\* What is assumed of the constants: bodies are lists, in which no CR
\* directly follows another, and the bound is a number.
StreamAssumption ==
    /\ MaxBuffer \in Nat
    /\ \A b \in Bodies :
         /\ b \in Seq(ToSet(b))
         /\ \A i \in 1 .. Len(b) - 1 : ~(b[i] = CR /\ b[i + 1] = CR)

StreamInit ==
    /\ streaming = "waiting"
    /\ bodiless \in BOOLEAN
    /\ body \in Bodies
    /\ rest = body
    /\ buffer = <<>> /\ blocks = <<>> /\ last = FALSE
    /\ events = <<>>
    /\ aborted \in BOOLEAN
    /\ cutOff = FALSE
    /\ ending = "none"
    /\ key = TRUE

-----------------------------------------------------------------------------
(* ssePayloads *)

\* One pass that turns every CR LF into LF.
UnixOne(done, c) ==
    IF c = LF /\ done # <<>> /\ Last(done) = CR
    THEN Append(Front(done), LF) ELSE Append(done, c)

Unix(text) == FoldLeft(UnixOne, <<>>, text)

\* The text split at its empty lines: the whole blocks, and what follows them.
SplitOne(s, c) ==
    IF c = LF /\ s.open # <<>> /\ Last(s.open) = LF
    THEN [whole |-> Append(s.whole, Front(s.open)), open |-> <<>>]
    ELSE [whole |-> s.whole, open |-> Append(s.open, c)]

Split(text) == FoldLeft(SplitOne, [whole |-> <<>>, open |-> <<>>], text)

\* What a block says: its lines of data together; JSON may end in a CR.
Data(block) == Only(block, ToSet(block) \ {CR, LF, "comment"})

Payload(block) ==
    IF Data(block) \in {<<>>, <<"[DONE]">>} THEN "nothing"
    ELSE IF Len(Data(block)) = 1 THEN Data(block)[1] ELSE "malformed"

\* Fault: only what has just arrived is made Unix text.
BufferedByPiece(piece, done) ==
    buffer \o Unix(piece)
        \o (IF done /\ buffer \o piece # <<>> THEN <<LF, LF>> ELSE <<>>)

Buffered(piece, done) ==
    Unix(buffer \o piece)
        \o (IF done /\ buffer \o piece # <<>> THEN <<LF, LF>> ELSE <<>>)

Settle(code) ==
    /\ streaming' = "settled"
    /\ ending' = code
    /\ key' = FALSE

\* What an error becomes that is none of the client's own.
Interrupted ==
    IF aborted THEN "cancelled" ELSE IF cutOff THEN "timeout" ELSE "network_error"

\* A piece of the body, or its end.
Read ==
    /\ streaming = "reading" /\ blocks = <<>> /\ ~last
    /\ \E n \in 0 .. Len(rest) :
         LET done == n = 0
             text == Buffered(SubSeq(rest, 1, n), done)
         IN  /\ done => rest = <<>>
             /\ IF aborted \/ cutOff
                THEN /\ Settle(Interrupted)
                     /\ UNCHANGED <<rest, buffer, blocks, last>>
                ELSE IF Len(text) > MaxBuffer
                THEN /\ Settle("invalid_stream")
                     /\ UNCHANGED <<rest, buffer, blocks, last>>
                ELSE /\ rest' = SubSeq(rest, n + 1, Len(rest))
                     /\ blocks' = Split(text).whole
                     /\ buffer' = Split(text).open
                     /\ last' = done
                     /\ UNCHANGED <<streaming, ending, key>>
    /\ UNCHANGED <<bodiless, body, events, aborted, cutOff>>

\* The connection breaks while a piece is awaited.
BreakOff ==
    /\ streaming \in {"waiting", "reading"} /\ blocks = <<>> /\ ~last
    /\ Settle(Interrupted)
    /\ UNCHANGED <<bodiless, body, rest, buffer, blocks, last, events, aborted,
                   cutOff>>

-----------------------------------------------------------------------------
(* createResponse *)

\* errorForStatus
ErrorForStatus(status) ==
    CASE status = 401 -> "invalid_key"
      [] status \in {402, 403} -> "quota_or_permission"
      [] status = 429 -> "rate_limited"
      [] status = 408 -> "timeout"
      [] status \in {400, 422} -> "invalid_request"
      [] OTHER -> "upstream_error"

\* The answer is there: a refusal, one without a body, or the stream.
Connect ==
    /\ streaming = "waiting"
    /\ IF aborted \/ cutOff
       THEN Settle(Interrupted)
       ELSE \/ \E status \in {401, 403, 408, 422, 429, 500} :
                 Settle(ErrorForStatus(status))
            \/ bodiless /\ Settle("invalid_stream")
            \/ /\ ~bodiless
               /\ streaming' = "reading"
               /\ UNCHANGED <<ending, key>>
    /\ UNCHANGED <<bodiless, body, rest, buffer, blocks, last, events, aborted,
                   cutOff>>

\* The next whole block.  An event without meaning to the caller is passed over.
Block ==
    /\ streaming = "reading" /\ blocks # <<>>
    /\ LET payload == Payload(Head(blocks))
       IN  \/ /\ aborted \/ cutOff
              /\ Settle(Interrupted)
              /\ UNCHANGED <<blocks, events>>
           \/ /\ ~aborted /\ ~cutOff
              /\ blocks' = Tail(blocks)
              /\ events' = IF payload \in Reported THEN Append(events, payload)
                           ELSE events
              /\ CASE payload = "completed" -> Settle("completed")
                   [] payload = "malformed" -> Settle("invalid_stream")
                   [] payload \in {"incomplete", "completed without usage"} ->
                        Settle("incomplete_response")
                   [] payload = "failed" -> Settle("upstream_error")
                   [] OTHER -> UNCHANGED <<streaming, ending, key>>
    /\ UNCHANGED <<bodiless, body, rest, buffer, last, aborted, cutOff>>

\* The body has ended and no block of it said how the response ended.
EndOfStream ==
    /\ streaming = "reading" /\ blocks = <<>> /\ last
    /\ Settle("incomplete_response")
    /\ UNCHANGED <<bodiless, body, rest, buffer, blocks, last, events, aborted,
                   cutOff>>

AbortStream ==
    /\ streaming # "settled" /\ ~aborted
    /\ aborted' = TRUE
    /\ UNCHANGED <<streaming, bodiless, body, rest, buffer, blocks, last, events,
                   cutOff, ending, key>>

StreamTimer ==
    /\ streaming # "settled" /\ ~cutOff
    /\ cutOff' = TRUE
    /\ UNCHANGED <<streaming, bodiless, body, rest, buffer, blocks, last, events,
                   aborted, ending, key>>

StreamNext ==
    \/ Connect \/ Read \/ BreakOff \/ Block \/ EndOfStream
    \/ AbortStream \/ StreamTimer

StreamSpec == StreamInit /\ [][StreamNext]_streamVars

-----------------------------------------------------------------------------
(* Properties *)

StreamTypeOK ==
    /\ streaming \in {"waiting", "reading", "settled"}
    /\ key <=> streaming # "settled"
    /\ (ending = "none") <=> (streaming # "settled")

\* The payloads of the body read in one piece.
Payloads ==
    LET whole == Split(Append(Append(Unix(body), LF), LF)).whole
        all == [i \in DOMAIN whole |-> Payload(whole[i])]
    IN  Only(all, ToSet(all) \ {"nothing"})

\* Those that settle the call.
EndsCall == {"completed", "malformed", "incomplete", "completed without usage",
             "failed"}

\* What the caller may be told: what comes before the first of these.
Heard ==
    LET before == {n \in 0 .. Len(Payloads) :
                     \A i \in 1 .. n : Payloads[i] \notin EndsCall}
        n == CHOOSE m \in before : \A k \in before : k <= m
    IN  Only(SubSeq(Payloads, 1, n), Reported)

\* However the body is cut up, the caller is told its events in their order and
\* no other, all of them when the call completes, and the call completes only
\* when the body says so; and an interruption is named for what interrupted:
\* nobody is told of a cancellation or a deadline that did not happen.
\* (ssePayloads, createResponse)
OutcomeIsTrue ==
    /\ IsPrefix(events, Heard)
    /\ ending = "completed" => /\ ~bodiless
                                /\ events = Heard
                                /\ "completed" \in ToSet(Payloads)
    /\ ending = "cancelled" => aborted
    /\ ending = "timeout" /\ rest # body => cutOff
    /\ ending = "invalid_stream" =>
         \/ bodiless
         \/ "malformed" \in ToSet(Payloads)
         \/ Len(body) > MaxBuffer - 2
    /\ ending = "incomplete_response" =>
         \/ rest = <<>> /\ "completed" \notin ToSet(Payloads)
         \/ \E p \in ToSet(Payloads) : p \in EndsCall \ {"completed"}
=============================================================================
