---------------------------- MODULE RelayRequest ----------------------------
(***************************************************************************)
(* One /v1 request in the relay (proxy/relay.py, proxy/stream.py), from    *)
(* its body to its answer, its audit and its training archive, while the   *)
(* rules are reloaded and the capture setting changes underneath.          *)
(*                                                                         *)
(* Requests share nothing else in this code, so one request says it all.   *)
(* Judging a chat request (scan, mask, audit) never suspends: it is one    *)
(* step.  The handler suspends while it reads the body, while it waits for *)
(* the upstream, and, for a stream, until the server starts the generator. *)
(*                                                                         *)
(* A text is the set of rules it matches.  The scanners match the latest   *)
(* text after normalization (seen); the masking patterns match every user  *)
(* text as it is (raw): neither determines the other.                      *)
(***************************************************************************)
EXTENDS Naturals, Sequences

CONSTANTS KeywordRules, RegexRules,   \* the rules of the file, by scanner
          Blocking, Masking           \* those of level block and desensitize; the others warn

Rules == KeywordRules \cup RegexRules

ASSUME ScannersDisjoint == KeywordRules \cap RegexRules = {}
ASSUME LevelsDisjoint == Blocking \cap Masking = {} /\ Blocking \cup Masking \subseteq Rules

VARIABLES
    request,     \* what the request is; never changes
    failOpen,    \* settings.scanner_fail_open
    upstreamSet, \* whether settings.upstream_url is set
    enabled,     \* the rules the scanners have loaded
    capture,     \* the runtime setting training_capture_enabled
    pc,          \* where the handler, or the stream's generator, is
    hits,        \* scan_result: the rules that hit
    actionTaken, \* action_taken
    body,        \* the marks left in body once it is masked
    sent,        \* the bodies the upstream was sent
    audits, archives,  \* what was handed to the audit log and to the archive
    answer,      \* what the client got
    rulesUsed    \* history: the rules in force when the request was judged

setup  == <<request, failOpen, upstreamSet>>
shared == <<enabled, capture>>
judged == <<hits, actionTaken, body, rulesUsed>>
vars   == <<setup, shared, pc, judged, sent, audits, archives, answer>>

Scanners == {"keyword", "regex"}
Actions == {"passed", "warned", "desensitized", "blocked"}
Answers == {"none", "refused", "crash", "fake", "upstream", "error", "cut"}
PcStates == {"new", "ready", "relaying", "awaiting", "done"}

(* A chat request has a JSON object for a body; every other request is     *)
(* passed through.  Without scannable text nothing can match.              *)
MaskPatterns == RegexRules \cap Masking
NoText == [text |-> FALSE, seen |-> {}, raw |-> {}]
Texts == {NoText} \cup [text : {TRUE}, seen : SUBSET Rules, raw : SUBSET MaskPatterns]
RequestsOf == [chat : {TRUE}, stream : BOOLEAN, content : Texts]
                \cup [chat : {FALSE}, stream : BOOLEAN, content : {NoText}]

Init == /\ request \in RequestsOf
        /\ failOpen \in BOOLEAN /\ upstreamSet \in BOOLEAN
        /\ enabled \in SUBSET Rules /\ capture \in BOOLEAN
        /\ pc = "new" /\ answer = "none"
        /\ hits = {} /\ actionTaken = "passed" /\ rulesUsed = {}
        /\ body = request.content.raw
        /\ sent = {} /\ audits = <<>> /\ archives = <<>>

-----------------------------------------------------------------------------
(* ScannerOrchestrator.scan, with the scanners in down raising: keywords   *)
(* first, and a block ends the scan.                                       *)
HitsOf(rules, down, scanner) ==
    IF scanner \in down THEN {} ELSE request.content.seen \cap rules \cap enabled

KeywordHits(down) == HitsOf(KeywordRules, down, "keyword")
RegexHits(down) == HitsOf(RegexRules, down, "regex")

ScanRaises(down) ==
    /\ ~failOpen
    /\ \/ "keyword" \in down
       \/ "regex" \in down /\ KeywordHits(down) \cap Blocking = {}

Scan(down) ==
    IF KeywordHits(down) \cap Blocking # {} THEN KeywordHits(down)
                                            ELSE KeywordHits(down) \cup RegexHits(down)

(* desensitize_chat_request_body with the enabled regex rules.             *)
Sanitized == request.content.raw \ (MaskPatterns \cap enabled)

(* Faulty variant: the documentation's name for the action.                *)
ActionNamed(h, rewritten) ==
    IF rewritten \/ h \cap Masking # {} THEN "desensitized"
    ELSE IF h # {} THEN "warn" ELSE "passed"

(* _action_from_scan_result, for what is not blocked.                      *)
ActionOf(h, rewritten) ==
    IF rewritten \/ h \cap Masking # {} THEN "desensitized"
    ELSE IF h # {} THEN "warned" ELSE "passed"

(* Faulty variant: a stream is always sent the client's own bytes.         *)
PayloadUnlessStream == IF actionTaken = "desensitized" /\ ~request.stream
                       THEN body ELSE request.content.raw

(* _select_relay_payload: the masked object, or the client's own bytes.    *)
Payload == IF actionTaken = "desensitized" THEN body ELSE request.content.raw

(* _write_chat_audit.                                                      *)
Audit(h, action) == audits' = IF h = {} THEN audits ELSE Append(audits, action)

(* _write_chat_archive.                                                    *)
Archive(action, relayed) ==
    archives' = IF request.chat /\ capture
                THEN Append(archives, [action |-> action, prompt |-> relayed])
                ELSE archives

-----------------------------------------------------------------------------
(* The body cannot be read, is not JSON, or is not an object.              *)
Refuse == /\ pc = "new"
          /\ pc' = "done" /\ answer' = "refused"
          /\ UNCHANGED <<setup, shared, judged, sent, audits, archives>>

(* An exception leaves the handler: the client gets a 500, or a 503.       *)
Crash == pc' = "done" /\ answer' = "crash" /\ UNCHANGED <<sent, archives>>

(* A chat request without scannable text: `scanner` is read unassigned.    *)
JudgeNoText == /\ pc = "new" /\ request.chat /\ ~request.content.text
               /\ Crash
               /\ UNCHANGED <<setup, shared, judged, audits>>

ScannerFails == /\ pc = "new" /\ request.chat /\ request.content.text
                /\ \E down \in SUBSET Scanners : ScanRaises(down)
                /\ Crash
                /\ UNCHANGED <<setup, shared, judged, audits>>

(* A block: the fake response, its audit and its archive.                  *)
Block(h) == /\ h \cap Blocking # {}
            /\ actionTaken' = "blocked"
            /\ pc' = "done" /\ answer' = "fake"
            /\ Audit(h, "blocked") /\ Archive("blocked", body)
            /\ UNCHANGED <<body, sent>>

(* On to the upstream: a stream's generator is started by the server.      *)
Launch == \/ ~upstreamSet /\ Crash
          \/ /\ upstreamSet
             /\ pc' = IF request.stream THEN "ready" ELSE "relaying"
             /\ UNCHANGED <<sent, archives, answer>>

(* Faulty variant: the audit is written by _relay_to_upstream, after its   *)
(* configuration test.                                                     *)
ForwardAuditLate(h) ==
    /\ h \cap Blocking = {}
    /\ body' = Sanitized
    /\ actionTaken' = ActionOf(h, Sanitized # request.content.raw)
    /\ IF upstreamSet THEN Audit(h, actionTaken') ELSE UNCHANGED audits
    /\ Launch

Forward(h) == /\ h \cap Blocking = {}
              /\ body' = Sanitized
              /\ actionTaken' = ActionOf(h, Sanitized # request.content.raw)
              /\ Audit(h, actionTaken')
              /\ Launch

Judge == /\ pc = "new" /\ request.chat /\ request.content.text
         /\ \E down \in SUBSET Scanners :
               /\ ~ScanRaises(down)
               /\ hits' = Scan(down)
               /\ Block(Scan(down)) \/ Forward(Scan(down))
         /\ rulesUsed' = enabled
         /\ UNCHANGED <<setup, shared>>

PassThrough == /\ pc = "new" /\ ~request.chat
               /\ Launch
               /\ UNCHANGED <<setup, shared, judged, audits>>

-----------------------------------------------------------------------------
(* The end of the relay, with or without an archive.                       *)
End(result) == pc' = "done" /\ answer' = result /\ UNCHANGED <<setup, shared, judged, audits>>

(* The client leaves before the server starts the stream's generator.      *)
Vanish == pc = "ready" /\ End("cut") /\ UNCHANGED <<sent, archives>>

StartStream == /\ pc = "ready"
               /\ pc' = "relaying"
               /\ UNCHANGED <<setup, shared, judged, sent, audits, archives, answer>>

Send == /\ pc = "relaying"
        /\ pc' = "awaiting"
        /\ sent' = sent \cup {Payload}
        /\ UNCHANGED <<setup, shared, judged, audits, archives, answer>>

(* Faulty variant: the handler archives streams too.                       *)
RespondTwice == /\ pc = "awaiting"
                /\ End("upstream")
                /\ archives' = IF request.chat /\ request.stream /\ capture
                               THEN archives \o <<[action |-> actionTaken, prompt |-> body],
                                                  [action |-> actionTaken, prompt |-> body]>>
                               ELSE archives
                /\ UNCHANGED sent

Respond == pc = "awaiting" /\ End("upstream") /\ Archive(actionTaken, body) /\ UNCHANGED sent

(* Faulty variant: an error answer returns before the archive.             *)
TransportFailsUnarchived == pc \in {"relaying", "awaiting"} /\ End("error")
                            /\ UNCHANGED <<archives, sent>>

(* Faulty variant: no read timeout.                                        *)
TransportFailsBeforeSend == pc = "relaying" /\ End("error")
                            /\ Archive(actionTaken, body) /\ UNCHANGED sent

(* A full pool, a timeout or a broken connection becomes an error answer.  *)
TransportFails == pc \in {"relaying", "awaiting"} /\ End("error")
                  /\ Archive(actionTaken, body) /\ UNCHANGED sent

(* Any other httpx error, such as an undecodable response, is not caught:  *)
(* only a stream, whose generator has a finally block, is archived.        *)
ResponseUnreadable == /\ pc = "awaiting"
                      /\ End("crash")
                      /\ IF request.stream THEN Archive(actionTaken, body) ELSE UNCHANGED archives
                      /\ UNCHANGED sent

(* The client leaves a running stream: the generator is closed.            *)
CutStream == pc \in {"relaying", "awaiting"} /\ request.stream /\ End("cut")
             /\ Archive(actionTaken, body) /\ UNCHANGED sent

-----------------------------------------------------------------------------
(* periodic_rules_reload and the admin page's rule switches.               *)
Reload == /\ \E rules \in SUBSET Rules : enabled' = rules
          /\ UNCHANGED <<setup, capture, pc, judged, sent, audits, archives, answer>>

SetCapture == capture' = ~capture
              /\ UNCHANGED <<setup, enabled, pc, judged, sent, audits, archives, answer>>

Handle == JudgeNoText \/ ScannerFails \/ Judge \/ PassThrough
Relay == StartStream \/ Vanish \/ Send \/ Respond \/ TransportFails
            \/ ResponseUnreadable \/ CutStream

Next == Refuse \/ Handle \/ Relay \/ Reload \/ SetCapture

Spec == Init /\ [][Next]_vars

(* The handler runs, the server starts the generator or drops it, and      *)
(* httpx's timeouts bound the waits for an upstream that need not answer.  *)
(* A stream is one such wait: its chunks are not counted.                  *)
FairSpec == Spec /\ WF_vars(Handle) /\ WF_vars(StartStream \/ Vanish)
                 /\ WF_vars(TransportFails)

-----------------------------------------------------------------------------
TypeOK == /\ request \in RequestsOf /\ failOpen \in BOOLEAN /\ upstreamSet \in BOOLEAN
          /\ enabled \subseteq Rules /\ capture \in BOOLEAN
          /\ pc \in PcStates /\ answer \in Answers
          /\ hits \subseteq Rules /\ rulesUsed \subseteq Rules
          /\ actionTaken \in Actions
          /\ body \subseteq MaskPatterns
          /\ sent \subseteq SUBSET MaskPatterns
          /\ audits \in Seq(Actions)
          /\ archives \in Seq([action : Actions, prompt : SUBSET MaskPatterns])

(* Whatever is reloaded between the judgement and the send, the upstream   *)
(* gets the body that was judged: no text a masking rule in force matched  *)
(* and, unless failing scanners are tolerated, none a block rule matched.  *)
UpstreamSeesJudgedBody ==
    request.chat /\ sent # {} =>
        /\ \A b \in sent : b \cap rulesUsed \cap MaskPatterns = {}
        /\ hits \cap Blocking = {}
        /\ ~failOpen => request.content.seen \cap rulesUsed \cap Blocking = {}

(* A request that hit a rule is audited once, with the action that was     *)
(* taken, however it ends: a fake answer is a blocked audit, and a missing *)
(* upstream, a failure or a client that left loses none.                   *)
AuditedOnce ==
    /\ audits = IF hits = {} THEN <<>> ELSE <<actionTaken>>
    /\ answer = "fake" <=> audits = <<"blocked">>

(* A conversation is archived at most once, as what the upstream was sent  *)
(* and under the action it was audited with.                               *)
ArchivedAsSent ==
    /\ Len(archives) <= 1
    /\ \A i \in DOMAIN archives :
          /\ audits # <<>> => archives[i].action = audits[1]
          /\ sent \subseteq {archives[i].prompt}

(* Every chat request that gets an answer, or whose stream was started, is *)
(* archived exactly when the capture is on at its end.                     *)
ArchivedAtTheEnd ==
    [][/\ request.chat
       /\ pc # "done" /\ pc' = "done"
       /\ \/ answer' \in {"fake", "upstream", "error"}
          \/ answer' = "cut" /\ pc # "ready"
       => (capture <=> archives' # <<>>)]_vars

(* A request that was taken up ends, whatever the upstream does.           *)
EveryRequestEnds == pc \in {"ready", "relaying", "awaiting"} ~> pc = "done"

(* The decision table of the documentation: without text to scan, a chat   *)
(* request is passed on.                                                   *)
NoTextIsPassedOn ==
    request.chat /\ ~request.content.text /\ upstreamSet => answer # "crash" \/ sent # {}

(* The same table: a body that was masked is audited as desensitized.      *)
MaskingIsAudited ==
    request.chat /\ sent # {} /\ sent # {request.content.raw} => audits = <<"desensitized">>

(* The same page: an audit says desensitized when the body was masked.     *)
DesensitizedWasMasked ==
    audits = <<"desensitized">> => body # request.content.raw
=============================================================================
