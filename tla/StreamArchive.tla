--------------------------- MODULE StreamArchive ---------------------------
(***************************************************************************)
(* One streamed answer: proxy/stream.py passes the upstream's chunks on,   *)
(* and StreamArchiveCollector (proxy/relay.py) keeps the first bytes of    *)
(* them for the archive, from which the message is read again at the end.  *)
(* The upstream cuts its bytes into chunks as it likes and may fail, and   *)
(* the client may leave, at any point.                                     *)
(*                                                                         *)
(* A byte stands for a piece of text: an event is the four bytes           *)
(*   "open" text "close" "nl",                                             *)
(* that is, "data:" and JSON up to the text, the text, the rest of the     *)
(* JSON, and the end of the line.                                          *)
(***************************************************************************)
EXTENDS Naturals, Sequences, SequencesExt

CONSTANTS
    Texts,       \* pieces of messages
    Separator,   \* one at which str.splitlines() ends a line, such as U+2028
    Sayings,     \* what the upstream may say: sequences of texts
    Limits       \* stream_archive_max_bytes

ASSUME SayingsAssumption == Sayings \subseteq Seq(Texts) /\ Separator \in Texts
ASSUME LimitsAssumption == Limits \subseteq Nat
(* JSON quotes what a text says, so that it is none of the pieces around   *)
(* it, and an error event has no choices, so that what it says is no text. *)
ASSUME BytesAssumption ==
    Texts \cap {"open", "close", "nl", "[DONE]", "event: error", "error"} = {}

VARIABLES
    said,        \* what the upstream says
    limit,       \* the collector's _max_bytes
    pos,         \* how many of its bytes have been read
    chunk,       \* the chunk that is being passed on
    collected,   \* _chunks, joined
    original,    \* _original_bytes
    passed,      \* history: what the client has been sent
    failed,      \* whether an error event has been made
    stage,
    payload      \* what goes to the archive

streamVars == <<said, limit, pos, chunk, collected, original, passed, failed, stage, payload>>

Bytes(answer) ==
    FlattenSeq([i \in DOMAIN answer |-> <<"open", answer[i], "close", "nl">>])
       \o <<"[DONE]", "nl">>

(* _build_error_event                                                      *)
ErrorEvent == <<"event: error", "nl", "open", "error", "close", "nl">>

(* _extract_sse_message_content: the text of each line that is a whole     *)
(* JSON object with a text.                                                *)
TextInPart(line) == IF Len(line) >= 2 /\ line[1] = "open" /\ line[2] \in Texts   \* a mutant
                    THEN <<line[2]>> ELSE <<>>
TextIn(line) == IF Len(line) = 3 /\ line[1] = "open" /\ line[2] \in Texts /\ line[3] = "close"
                THEN <<line[2]>> ELSE <<>>
Lines(bytes) ==
    LET EndsLine(b) == b \in {"nl", Separator}
        Take(acc, b) == IF EndsLine(b) THEN [done |-> acc.done \o TextIn(acc.line), line |-> <<>>]
                        ELSE [acc EXCEPT !.line = Append(@, b)]
    IN FoldLeft(Take, [done |-> <<>>, line |-> <<>>], bytes)
MessageContent(bytes) == Lines(bytes).done \o TextIn(Lines(bytes).line)

None == [content |-> <<>>, message |-> <<>>, truncated |-> FALSE, archived |-> 0, original |-> 0]

StreamInit == /\ said \in Sayings /\ limit \in {IF n = 0 THEN 1 ELSE n : n \in Limits}
              /\ pos = 0 /\ chunk = <<>> /\ collected = <<>> /\ original = 0
              /\ passed = <<>> /\ failed = FALSE /\ stage = "reading" /\ payload = None

-----------------------------------------------------------------------------
First(bytes, n) == SubSeq(bytes, 1, IF n < Len(bytes) THEN n ELSE Len(bytes))

(* StreamArchiveCollector.add                                              *)
CollectIfRoom(bytes) ==                                            \* a mutant
    /\ original' = original + Len(bytes)
    /\ collected' = IF Len(collected) + Len(bytes) <= limit THEN collected \o bytes
                    ELSE collected
Collect(bytes) ==
    /\ original' = original + Len(bytes)
    /\ collected' = IF limit - Len(collected) <= 0 THEN collected
                    ELSE collected \o First(bytes, limit - Len(collected))

(* A chunk is collected and then passed on.                                *)
Yield(bytes) == /\ chunk' = bytes
                /\ Collect(bytes)
                /\ stage' = "passing"
                /\ UNCHANGED <<said, limit, passed, payload>>

ReadChunk == /\ stage = "reading" /\ ~failed
             /\ \E n \in 1..(Len(Bytes(said)) - pos) :
                   /\ Yield(SubSeq(Bytes(said), pos + 1, pos + n))
                   /\ pos' = pos + n
             /\ UNCHANGED failed

(* An error status before the first chunk, or a transport error or timeout *)
(* at any point, becomes an event.                                         *)
ReadFails == /\ stage = "reading" /\ ~failed
             /\ Yield(ErrorEvent)
             /\ failed' = TRUE
             /\ UNCHANGED pos

Deliver == /\ stage = "passing"
           /\ passed' = passed \o chunk
           /\ chunk' = <<>> /\ stage' = "reading"
           /\ UNCHANGED <<said, limit, pos, collected, original, failed, payload>>

(* StreamArchiveCollector.payload                                          *)
PayloadUnread == [content |-> collected, message |-> collected,    \* a mutant
                  truncated |-> original > limit,
                  archived |-> Len(collected), original |-> original]
Payload == [content |-> collected, message |-> MessageContent(collected),
            truncated |-> original > limit,
            archived |-> Len(collected), original |-> original]

Archive == /\ stage' = "archived"
           /\ payload' = Payload
           /\ UNCHANGED <<said, limit, pos, chunk, collected, original, passed, failed>>

(* The upstream's bytes are at their end, or an error event was the last.  *)
Finish == stage = "reading" /\ (failed \/ pos = Len(Bytes(said))) /\ Archive

(* The client leaves while a chunk is read or passed on: the generator's   *)
(* finally block archives what there is.                                   *)
ClientLeaves == stage \in {"reading", "passing"} /\ Archive

StreamNext == ReadChunk \/ ReadFails \/ Deliver \/ Finish \/ ClientLeaves

-----------------------------------------------------------------------------
StreamTypeOK == LET Byte == Texts \cup {"open", "close", "nl", "[DONE]", "event: error", "error"} IN
    /\ said \in Sayings /\ limit \in Nat \ {0} /\ pos \in 0..Len(Bytes(said))
    /\ chunk \in Seq(Byte) /\ collected \in Seq(Byte) /\ passed \in Seq(Byte)
    /\ original \in Nat /\ failed \in BOOLEAN
    /\ stage \in {"reading", "passing", "archived"}
    /\ payload \in [content : Seq(Byte), message : Seq(Texts), truncated : BOOLEAN,
                    archived : Nat, original : Nat]

(* However the stream was cut into chunks and wherever it ended, the        *)
(* archive holds the first bytes of what the client was sent, up to the     *)
(* limit, and at most the last chunk beyond; its counts and its flag say    *)
(* exactly what is missing.                                                 *)
ArchiveIsPrefix == stage = "archived" =>
    LET seen == passed \o chunk IN
    /\ payload.content = First(seen, limit)
    /\ payload.original = Len(seen) /\ payload.archived = Len(payload.content)
    /\ payload.truncated <=> payload.content # seen

(* The archived message has the text of every event that is in the archive  *)
(* to its end, in order, and none of an event that is cut: no chunk's or    *)
(* archive's end, and no error event, splits, garbles or completes one.     *)
MessageIsSaid == stage = "archived" /\ ~Contains(said, Separator) =>
    LET archived == IF limit < pos THEN limit ELSE pos IN
    /\ IsPrefix(payload.message, said)
    /\ Len(payload.message) <= (archived + 1) \div 4
    /\ Len(payload.message) >= archived \div 4 \/ Len(payload.message) = Len(said)

(* An answer that was streamed to its end and fits the archive is archived  *)
(* as the message it is (violated: a text with a line separator is lost).   *)
WholeMessageArchived == stage = "archived" /\ pos = Len(Bytes(said)) /\ ~payload.truncated =>
    payload.message = said
=============================================================================
