------------------------------ MODULE ChatText ------------------------------
(***************************************************************************)
(* What the relay reads of a chat request and what it makes of it: which   *)
(* text is scanned and how it is normalised (proxy/relay.py,               *)
(* engine/normalizer.py), which rules hit and where (engine/rules_*.py,    *)
(* engine/scanner.py, engine/models.py), which numbers are masked, what    *)
(* the client of a blocked request reads (proxy/fake_response.py) and what *)
(* the audit shows of each hit (storage/audit.py).  No scanner raises; one *)
(* that does is in RelayRequest.                                           *)
(*                                                                         *)
(* A text is a sequence of pieces: a word in some writing, a number of     *)
(* some kind, white space, a character that is not seen, or the mask of a  *)
(* number.  A piece may be percent-encoded, any number of times.           *)
(***************************************************************************)
EXTENDS Naturals, Sequences, FiniteSets, SequencesExt

CONSTANTS
    Kinds,          \* of pieces
    Chats,          \* messages of requests
    KeywordRules,   \* rules as they are written: records that may leave out
    RegexRules,     \* what has a default value
    RuleSets,       \* the loaded rules: what the rules file lists of either kind
    ContextPieces   \* AUDIT_CONTEXT_CHARS, in pieces

Pieces == [is : Kinds, coded : Nat]
Numbers == {"mobile", "abroad"}

(* A message's content is its texts in the order they stand, each at its   *)
(* place: for every list on the way to it, which item it is in, and        *)
(* whether it is that item or what field of it.  The content that is       *)
(* itself a text has that text at the empty place.                         *)
Places == Seq([item : Nat, field : STRING])
Contents == Seq([at : Places, text : Seq(Pieces)])

ASSUME KindsAssumption == {"gap", "word", "mask"} \subseteq Kinds
ASSUME ChatsAssumption == Chats \subseteq Seq([role : STRING, content : Contents])
ASSUME RulesAssumption ==
    /\ RuleSets \subseteq [keyword : Seq(KeywordRules), regex : Seq(RegexRules)]
    /\ \A r \in KeywordRules : r.keywords \in Seq(Seq(Pieces)) /\ "finds" \notin DOMAIN r
    /\ \A r \in RegexRules : "finds" \in DOMAIN r /\ r.finds \in Numbers
ASSUME ContextAssumption == ContextPieces \in Nat

VARIABLES
    messages, rules,
    step,
    text,           \* latest_scan_text
    normalized,     \* AggregatedScanResult.normalized_text
    results,        \* AggregatedScanResult.results
    body,           \* the messages that are sent upstream
    action,         \* action_taken
    reply,          \* the chunks of the answer to a blocked request
    logs            \* the audits of the request

textVars == <<messages, rules, step, text, normalized, results, body, action, reply, logs>>

Gap == [is |-> "gap", coded |-> 0]

(* The elements of s at the indices in I, in their order.                  *)
Picked(s, I) == FlattenSeq([i \in DOMAIN s |-> IF i \in I THEN <<s[i]>> ELSE <<>>])

-----------------------------------------------------------------------------
(* What is scanned.                                                        *)

Fields == {"item", "text", "content"}

(* _extract_content_parts: the texts of a list's items, where an object's  *)
(* content is read only if it has no text.                                 *)
HasText(content, list, item) ==
    \E j \in DOMAIN content : content[j].at = Append(list, [item |-> item, field |-> "text"])
IsRead(content, at) ==
    \A k \in DOMAIN at :
        /\ at[k].field \in Fields
        /\ at[k].field = "content" => ~HasText(content, SubSeq(at, 1, k - 1), at[k].item)
Parts(content) == Picked([i \in DOMAIN content |-> content[i].text],
                         {i \in DOMAIN content : IsRead(content, content[i].at)})

(* "\n".join of the parts that are not empty                               *)
Joined(parts) ==
    LET filled == Picked(parts, {i \in DOMAIN parts : parts[i] # <<>>})
    IN FlattenSeq([i \in DOMAIN filled |-> IF i = 1 THEN filled[i] ELSE <<Gap>> \o filled[i]])

ScanRoles == {"user", "tool", "function"}                          \* BLOCK_SCAN_ROLES

(* extract_latest_text_from_messages                                       *)
LatestText(msgs) ==
    LET Said(i) == IF msgs[i].role \in ScanRoles THEN Joined(Parts(msgs[i].content)) ELSE <<>>
        Speaking == {i \in DOMAIN msgs : Said(i) # <<>>}
    IN IF Speaking = {} THEN <<>> ELSE Said(CHOOSE i \in Speaking : \A j \in Speaking : j <= i)

(* TextNormalizer.normalize                                                *)
DecodeOnce(t) == [i \in DOMAIN t |-> [t[i] EXCEPT !.coded = IF @ = 0 THEN 0 ELSE @ - 1]]
Visible(t) == Picked(t, {i \in DOMAIN t : t[i].is # "unseen" \/ t[i].coded > 0})
Squeezed(t) == Picked(t, {i \in DOMAIN t : t[i] = Gap => i > 1 /\ t[i - 1] # Gap})
Stripped(t) == IF t # <<>> /\ Last(t) = Gap THEN Front(t) ELSE t
Normalized(t) == Stripped(Squeezed(Visible(DecodeOnce(DecodeOnce(t)))))

-----------------------------------------------------------------------------
(* Which rules hit.                                                        *)

Get(rule, field, default) == IF field \in DOMAIN rule THEN rule[field] ELSE default
Level(rule) == Get(rule, "level", "block")
IsEnabled(rule) == Get(rule, "enabled", TRUE)

Lower(t) == [i \in DOMAIN t |-> IF t[i].is = "Word" THEN [t[i] EXCEPT !.is = "word"] ELSE t[i]]
Cased(rule, t) == IF Get(rule, "case_sensitive", FALSE) THEN t ELSE Lower(t)

Nowhere == <<0, 0>>
LastOf(places) == IF places = {} THEN Nowhere
                  ELSE CHOOSE p \in places : \A q \in places : q[1] <= p[1]

(* KeywordScanner._match_position, with the end of a match excluded: of    *)
(* several places a keyword is found at the last.                          *)
PlacesOf(t, keyword, mode) ==
    {<<i, i + Len(keyword)>> :
        i \in {j \in 0..Len(t) : /\ keyword # <<>> /\ j + Len(keyword) <= Len(t)
                                /\ SubSeq(t, j + 1, j + Len(keyword)) = keyword
                                /\ (mode \in {"exact", "prefix"} => j = 0)
                                /\ (mode = "exact" => Len(keyword) = Len(t))}}
MatchPosition(t, keyword, mode) == LastOf(PlacesOf(t, keyword, mode))

Hit(rule, scanner, place) ==
    [rule |-> rule.id, level |-> Level(rule), scanner |-> scanner, position |-> place]

(* KeywordScanner._scan_rule: the rule's first keyword that is found, or   *)
(* all of them.                                                            *)
PlaceOf(t, rule, k) ==
    MatchPosition(Cased(rule, t), Cased(rule, rule.keywords[k]), Get(rule, "match_mode", "contains"))
ScanRule(t, rule) ==
    LET hits == Picked([k \in DOMAIN rule.keywords |-> Hit(rule, "keyword", PlaceOf(t, rule, k))],
                       {k \in DOMAIN rule.keywords : PlaceOf(t, rule, k) # Nowhere})
    IN IF hits # <<>> /\ Get(rule, "stop_on_first", TRUE) THEN <<hits[1]>> ELSE hits
KeywordScan(t) ==
    FlattenSeq([i \in DOMAIN rules.keyword |->
        IF IsEnabled(rules.keyword[i]) THEN ScanRule(t, rules.keyword[i]) ELSE <<>>])

(* RegexScanner.scan: the last match of each pattern.                      *)
LastMatch(t, rule) ==
    LastOf({<<i - 1, i>> : i \in {j \in DOMAIN t : t[j] = [is |-> rule.finds, coded |-> 0]}})
RegexScan(t) ==
    Picked([i \in DOMAIN rules.regex |-> Hit(rules.regex[i], "regex", LastMatch(t, rules.regex[i]))],
           {i \in DOMAIN rules.regex : IsEnabled(rules.regex[i]) /\ LastMatch(t, rules.regex[i]) # Nowhere})

HasLevel(hits, level) == \E i \in DOMAIN hits : hits[i].level = level

(* ScannerOrchestrator.scan: the first scanner that blocks is the last.    *)
ScanStopsAtAnyHit(t) ==                                            \* a mutant
    IF KeywordScan(t) # <<>> THEN KeywordScan(t) ELSE RegexScan(t)
Scan(t) == IF HasLevel(KeywordScan(t), "block") THEN KeywordScan(t)
           ELSE KeywordScan(t) \o RegexScan(t)

(* AggregatedScanResult.action                                             *)
ActionOf(hits) == CASE HasLevel(hits, "block") -> "blocked"
                    [] ~HasLevel(hits, "block") /\ HasLevel(hits, "desensitize") -> "desensitized"
                    [] HasLevel(hits, "warn") /\ ~HasLevel(hits, "block")
                         /\ ~HasLevel(hits, "desensitize") -> "warned"
                    [] OTHER -> "passed"

-----------------------------------------------------------------------------
(* What is masked.                                                         *)

(* RegexScanner.desensitize_patterns: the kinds of numbers to be masked    *)
Patterns == {rules.regex[i].finds : i \in {j \in DOMAIN rules.regex :
                 IsEnabled(rules.regex[j]) /\ Level(rules.regex[j]) = "desensitize"}}

(* desensitize_text                                                        *)
MaskText(t) == [i \in DOMAIN t |-> IF t[i].is \in Patterns /\ t[i].coded = 0
                                   THEN [is |-> "mask", coded |-> 0] ELSE t[i]]

(* desensitize_content: of a list, its items, and their texts and contents *)
MaskShallow(content) ==                                            \* a mutant
    [i \in DOMAIN content |->
        IF \A k \in DOMAIN content[i].at : content[i].at[k].field \in {"item", "text"}
        THEN [content[i] EXCEPT !.text = MaskText(@)] ELSE content[i]]
MaskContent(content) ==
    [i \in DOMAIN content |->
        IF \A k \in DOMAIN content[i].at : content[i].at[k].field \in Fields
        THEN [content[i] EXCEPT !.text = MaskText(@)] ELSE content[i]]

MaskRoles == {"user", "tool", "function"}                          \* DESENSITIZE_ROLES

(* desensitize_chat_request_body                                           *)
Desensitized(msgs) == [i \in DOMAIN msgs |->
    IF Patterns # {} /\ msgs[i].role \in MaskRoles
    THEN [msgs[i] EXCEPT !.content = MaskContent(@)] ELSE msgs[i]]

-----------------------------------------------------------------------------
(* What the audit shows.                                                   *)

(* _bounded_position, _window, _context_snippet: what is around the place  *)
(* of a hit, or the beginning if the text does not reach that far.         *)
Lesser(m, n) == IF m < n THEN m ELSE n
Window(t, place) ==
    SubSeq(t, 1 + IF place[1] < ContextPieces THEN 0 ELSE place[1] - ContextPieces,
              Lesser(Lesser(place[2], Len(t)) + ContextPieces, Len(t)))
ContextSnippet(t, place) ==
    IF place[2] <= place[1] \/ place[1] >= Len(t) THEN SubSeq(t, 1, Lesser(Len(t), 2 * ContextPieces))
    ELSE Window(t, place)

(* _logs_from_payload: one row for each hit                                *)
LogsOfRawText(hits, scanned, norm, sent, taken) ==                 \* a mutant
    [i \in DOMAIN hits |->
        [rule |-> hits[i].rule, level |-> hits[i].level, action |-> taken,
         context |-> ContextSnippet(scanned, hits[i].position),
         masked |-> ContextSnippet(sent, hits[i].position)]]
Logs(hits, scanned, norm, sent, taken) ==
    [i \in DOMAIN hits |->
        [rule |-> hits[i].rule, level |-> hits[i].level, action |-> taken,
         context |-> ContextSnippet(IF norm = <<>> THEN scanned ELSE norm, hits[i].position),
         masked |-> ContextSnippet(sent, hits[i].position)]]

-----------------------------------------------------------------------------
(* fake_response: the template of the result that is answered for, cut     *)
(* into chunks of two.                                                     *)
Templates == [block |-> <<"b1", "b2", "b3">>, warn |-> <<"w1", "w2">>]
SelectResult(hits) == IF HasLevel(hits, "block") THEN "block" ELSE hits[1].level
StreamFakeChunks(content) ==
    [i \in 1..((Len(content) + 1) \div 2) |->
        SubSeq(content, 2 * i - 1, Lesser(2 * i, Len(content)))]
FakeResponse(hits) ==
    LET level == SelectResult(hits) IN
    StreamFakeChunks(IF level \in DOMAIN Templates THEN Templates[level] ELSE Templates["block"])

-----------------------------------------------------------------------------
TextInit == /\ messages \in Chats /\ rules \in RuleSets
            /\ step = "received" /\ text = LatestText(messages)
            /\ normalized = <<>> /\ results = <<>> /\ body = messages
            /\ action = "passed" /\ reply = <<>> /\ logs = <<>>

(* A request without text is not scanned, and then ends in an error.       *)
NoText == /\ step = "received" /\ text = <<>>
          /\ step' = "failed"
          /\ UNCHANGED <<messages, rules, text, normalized, results, body, action, reply, logs>>

ScanText == /\ step = "received" /\ text # <<>>
            /\ step' = "scanned"
            /\ normalized' = Normalized(text)
            /\ results' = Scan(Normalized(text))
            /\ UNCHANGED <<messages, rules, text, body, action, reply, logs>>

Block == /\ step = "scanned" /\ HasLevel(results, "block")
         /\ step' = "audited" /\ action' = "blocked"
         /\ reply' = FakeResponse(results)
         /\ logs' = Logs(results, text, normalized, <<>>, "blocked")
         /\ UNCHANGED <<messages, rules, text, normalized, results, body>>

(* A request that is not blocked is masked, and its audit written.         *)
Mask == /\ step = "scanned" /\ ~HasLevel(results, "block")
        /\ LET masked == Desensitized(messages)
               changed == masked # messages
               taken == IF changed THEN "desensitized" ELSE ActionOf(results)
           IN /\ body' = masked /\ action' = taken
              /\ logs' = Logs(results, text, normalized,
                              IF changed THEN LatestText(masked) ELSE <<>>, taken)
        /\ step' = "audited"
        /\ UNCHANGED <<messages, rules, text, normalized, results, reply>>

TextNext == NoText \/ ScanText \/ Block \/ Mask

TextSpec == TextInit /\ [][TextNext]_textVars

-----------------------------------------------------------------------------
(* The masking and the scan walk through a request on their own, and agree: *)
(* the text the scan would read of the request that is sent is the masked   *)
(* form of the one it read, and in no text of a speaker who is scanned is   *)
(* a number left that was written as a rule's pattern finds it.             *)
ScannedIsMasked == step = "audited" /\ action # "blocked" =>
    /\ LatestText(body) = MaskText(text)
    /\ \A i \in DOMAIN body : body[i].role \in ScanRoles =>
           \A j \in DOMAIN body[i].content :
              LET part == body[i].content[j] IN
              (\A k \in DOMAIN part.at : part.at[k].field \in {"item", "text", "content"})
                 => \A n \in DOMAIN part.text :
                       part.text[n].coded = 0 => part.text[n].is \notin Patterns

Occurs(rule) == IF "finds" \in DOMAIN rule
                THEN \E i \in DOMAIN normalized : normalized[i] = [is |-> rule.finds, coded |-> 0]
                ELSE \E k \in ToSet(rule.keywords) : /\ k # <<>>
                        /\ LET t == Cased(rule, normalized)
                               mode == Get(rule, "match_mode", "contains")
                           IN CASE mode = "exact"  -> t = Cased(rule, k)
                                [] mode = "prefix" -> IsPrefix(Cased(rule, k), t)
                                [] OTHER -> \E i \in DOMAIN t : \E j \in i..Len(t) :
                                                 SubSeq(t, i, j) = Cased(rule, k)

(* The strongest rule that is enabled and occurs in the text decides what   *)
(* becomes of a request, whatever the order of the rules and the scanners   *)
(* and wherever a scan stops: it is blocked, and then answered with the     *)
(* whole of the blocking template, or masked, warned of or passed.          *)
StrongestRuleDecides == step = "audited" =>
    LET inForce == {r \in ToSet(rules.keyword) \cup ToSet(rules.regex) : IsEnabled(r) /\ Occurs(r)}
        Some(level) == \E r \in inForce : Level(r) = level
    IN /\ action = "blocked" <=> Some("block")
       /\ action = "blocked" => FlattenSeq(reply) = Templates["block"]
       /\ action = "desensitized" <=> ~Some("block") /\ (Some("desensitize") \/ body # messages)
       /\ action = "warned" <=> /\ Some("warn") /\ ~Some("block") /\ ~Some("desensitize")
                                /\ body = messages

(* Each audit shows, in its context, what its rule hit: positions of the    *)
(* normalised text are not taken for positions of another.                  *)
AuditShowsMatch == step = "audited" =>
    \A i \in DOMAIN logs :
        LET p == results[i].position IN
        /\ logs[i].rule = results[i].rule
        /\ p[1] < p[2] /\ p[2] <= Len(normalized)
        /\ \E k \in 0..Len(logs[i].context) :
              /\ k + p[2] - p[1] <= Len(logs[i].context)
              /\ SubSeq(logs[i].context, k + 1, k + p[2] - p[1]) = SubSeq(normalized, p[1] + 1, p[2])

(* The desensitized text of an audit shows the mask of the number that its  *)
(* rule hit (violated: the position is one of the normalised text, and the  *)
(* text it is applied to is not normalised).                                *)
AuditShowsMask == step = "audited" /\ action = "desensitized" =>
    \A i \in DOMAIN logs :
        results[i].scanner = "regex" /\ logs[i].level = "desensitize" /\ body # messages
           => \E j \in DOMAIN logs[i].masked : logs[i].masked[j].is = "mask"
=============================================================================
