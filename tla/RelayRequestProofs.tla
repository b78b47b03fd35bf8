------------------------- MODULE RelayRequestProofs -------------------------
(***************************************************************************)
(* What the relay promises of one request, for every set of rules.         *)
(***************************************************************************)
EXTENDS RelayRequest, TLAPS

Kept == [action |-> actionTaken, prompt |-> body]

(* What holds of a request that may go upstream, from its actionTaken on.      *)
Cleared ==
    /\ Payload = body
    /\ actionTaken # "blocked"
    /\ request.chat => /\ body \cap rulesUsed \cap MaskPatterns = {}
                       /\ hits \cap Blocking = {}
                       /\ ~failOpen => request.content.seen \cap rulesUsed \cap Blocking = {}

OnItsWay == pc \in {"ready", "relaying", "awaiting"}

(* The inductive invariant.  AuditedOnce and the properties about sent and *)
(* archives are not inductive alone: they need to know that a request on   *)
(* its way was cleared, and that nothing is sent or archived before.       *)
IInv == /\ TypeOK
        /\ AuditedOnce
        /\ sent \subseteq {body}
        /\ archives \in {<<>>, <<Kept>>}
        /\ pc # "done" => archives = <<>> /\ answer = "none"
        /\ pc \in {"new", "ready", "relaying"} => sent = {}
        /\ pc = "new" => hits = {} /\ actionTaken = "passed" /\ body = request.content.raw
        /\ OnItsWay \/ sent # {} => Cleared

(* IInv implies the properties that are not conjuncts of it.               *)
LEMMA IInvSuffices == IInv => UpstreamSeesJudgedBody /\ ArchivedAsSent
<1> SUFFICES ASSUME IInv PROVE UpstreamSeesJudgedBody /\ ArchivedAsSent
  OBVIOUS
<1>1. UpstreamSeesJudgedBody
  <2>1. sent # {} => Cleared /\ sent = {body}
    BY DEF IInv
  <2> QED BY <2>1 DEF UpstreamSeesJudgedBody, Cleared
<1>2. ArchivedAsSent
  <2>1. CASE archives = <<>>
    BY <2>1 DEF ArchivedAsSent
  <2>2. CASE archives = <<Kept>>
    <3>1. Len(archives) = 1 /\ DOMAIN archives = {1} /\ archives[1] = Kept
      BY <2>2
    <3>2. Kept.action = actionTaken /\ Kept.prompt = body
      BY DEF Kept
    <3>3. audits # <<>> => audits[1] = actionTaken
      BY DEF IInv, AuditedOnce
    <3>4. sent \subseteq {body}
      BY DEF IInv
    <3> QED BY <3>1, <3>2, <3>3, <3>4 DEF ArchivedAsSent
  <2> QED BY <2>1, <2>2 DEF IInv
<1> QED BY <1>1, <1>2

-----------------------------------------------------------------------------
(* What a request is: its text's marks are rules.                          *)
LEMMA RequestShape ==
    ASSUME request \in RequestsOf
    PROVE  /\ request.chat \in BOOLEAN /\ request.stream \in BOOLEAN
           /\ request.content.raw \subseteq MaskPatterns
           /\ request.content.seen \subseteq Rules
           /\ ~request.chat => request.content.raw = {}
<1>1. ASSUME NEW t \in Texts
      PROVE  t.raw \subseteq MaskPatterns /\ t.seen \subseteq Rules
  <2>1. CASE t = NoText
    BY <2>1 DEF NoText
  <2>2. CASE t \in [text : {TRUE}, seen : SUBSET Rules, raw : SUBSET MaskPatterns]
    BY <2>2
  <2> QED BY <2>1, <2>2 DEF Texts
<1>2. CASE request \in [chat : {TRUE}, stream : BOOLEAN, content : Texts]
  <2>1. request.content \in Texts /\ request.chat = TRUE /\ request.stream \in BOOLEAN
    BY <1>2
  <2>2. request.content.raw \subseteq MaskPatterns /\ request.content.seen \subseteq Rules
    BY <1>1, <2>1
  <2> QED BY <2>1, <2>2
<1>3. CASE request \in [chat : {FALSE}, stream : BOOLEAN, content : {NoText}]
  <2>1. request.content = NoText /\ request.chat = FALSE /\ request.stream \in BOOLEAN
    BY <1>3
  <2>2. request.content.raw = {} /\ request.content.seen = {}
    BY <2>1 DEF NoText
  <2> QED BY <2>1, <2>2
<1> QED BY <1>2, <1>3 DEF RequestsOf

(* The initial states satisfy IInv.                                        *)
LEMMA InitIInv == Init => IInv
<1> SUFFICES ASSUME Init PROVE IInv
  OBVIOUS
<1>1. request.content.raw \subseteq MaskPatterns
  BY RequestShape DEF Init
<1>2. TypeOK
  BY <1>1 DEF Init, TypeOK, PcStates, Answers, Actions
<1>3. AuditedOnce
  BY DEF Init, AuditedOnce
<1> QED BY <1>2, <1>3 DEF Init, IInv, OnItsWay

(* Append to the empty sequence.                                           *)
LEMMA AppendFirst == \A x : Append(<<>>, x) = <<x>>
OBVIOUS

(* A sequence of at most one element.                                      *)
LEMMA ShortSeq ==
    ASSUME NEW T, NEW x \in T
    PROVE  <<>> \in Seq(T) /\ <<x>> \in Seq(T)
OBVIOUS

(* The archive is written once: before, there is none.                     *)
LEMMA ArchiveOnce ==
    ASSUME TypeOK, archives = <<>>, NEW a \in Actions, NEW b \in SUBSET MaskPatterns,
           Archive(a, b)
    PROVE  /\ archives' \in {<<>>, <<[action |-> a, prompt |-> b]>>}
           /\ archives' \in Seq([action : Actions, prompt : SUBSET MaskPatterns])
           /\ request.chat => (capture <=> archives' # <<>>)
<1>1. archives' \in {<<>>, <<[action |-> a, prompt |-> b]>>}
  BY AppendFirst DEF Archive
<1>2. [action |-> a, prompt |-> b] \in [action : Actions, prompt : SUBSET MaskPatterns]
  OBVIOUS
<1>3. request.chat => (capture <=> archives' # <<>>)
  BY AppendFirst DEF Archive, TypeOK
<1>4. archives' \in Seq([action : Actions, prompt : SUBSET MaskPatterns])
  <2> DEFINE x == [action |-> a, prompt |-> b]
             T == [action : Actions, prompt : SUBSET MaskPatterns]
  <2>1. x \in T
    BY <1>2
  <2>2. archives' = <<>> \/ archives' = <<x>>
    BY <1>1
  <2> HIDE DEF x, T
  <2>3. <<>> \in Seq(T) /\ <<x>> \in Seq(T)
    BY <2>1, ShortSeq
  <2>4. archives' \in Seq(T)
    BY <2>2, <2>3, Zenon
  <2> QED BY <2>4 DEF T
<1> QED BY <1>1, <1>3, <1>4

(* A step that ends a request on its way keeps IInv.                       *)
LEMMA EndKeeps ==
    ASSUME IInv, OnItsWay, NEW result \in Answers \ {"none", "fake"}, End(result),
           UNCHANGED sent,
           \/ UNCHANGED archives
           \/ Archive(actionTaken, body)
    PROVE  IInv'
<1> USE DEF IInv, End, setup, shared, judged
<1>1. archives = <<>> /\ pc # "done"
  BY DEF OnItsWay
<1>2. actionTaken \in Actions /\ body \in SUBSET MaskPatterns
  BY DEF TypeOK
<1>3. /\ archives' \in {<<>>, <<Kept>>}
      /\ archives' \in Seq([action : Actions, prompt : SUBSET MaskPatterns])
  BY <1>1, <1>2, ArchiveOnce DEF Kept, TypeOK
<1>4. TypeOK'
  BY <1>3 DEF TypeOK, PcStates
<1>5. audits # <<"blocked">>
  BY DEF Cleared, AuditedOnce
<1>6. AuditedOnce'
  BY <1>5 DEF AuditedOnce
<1>7. Cleared'
  BY DEF Cleared, Payload
<1>8. (archives \in {<<>>, <<Kept>>})'
  BY <1>3 DEF Kept
<1> QED BY <1>4, <1>6, <1>7, <1>8

(* A request that is passed through, or was judged and not blocked, is put *)
(* on its way, or fails for want of an upstream.                           *)
LEMMA LaunchKeeps ==
    ASSUME IInv, pc = "new", Launch, UNCHANGED <<setup, shared>>,
           actionTaken' \in Actions, body' \in SUBSET MaskPatterns,
           hits' \in SUBSET Rules, rulesUsed' \in SUBSET Rules,
           audits' = IF hits' = {} THEN <<>> ELSE <<actionTaken'>>,
           Cleared'
    PROVE  IInv'
<1> USE DEF IInv, setup, shared
<1>1. sent = {} /\ archives = <<>> /\ answer = "none"
  OBVIOUS
<1>2. /\ UNCHANGED <<sent, archives>>
      /\ \/ pc' = "done" /\ answer' = "crash"
         \/ pc' \in {"ready", "relaying"} /\ answer' = "none"
  BY <1>1 DEF Launch, Crash
<1>3. audits' \in Seq(Actions)
  OBVIOUS
<1>4. TypeOK'
  BY <1>1, <1>2, <1>3 DEF TypeOK, PcStates, Answers
<1>5. actionTaken' # "blocked"
  BY DEF Cleared
<1>6. AuditedOnce'
  BY <1>2, <1>5 DEF AuditedOnce
<1> QED BY <1>1, <1>2, <1>4, <1>6

(* Judging a request that hits a block rule keeps IInv.                    *)
LEMMA BlockKeeps ==
    ASSUME IInv, pc = "new", NEW h \in SUBSET Rules, Block(h), hits' = h,
           rulesUsed' = enabled, UNCHANGED <<setup, shared>>
    PROVE  IInv'
<1> USE DEF IInv, setup, shared
<1>1. /\ sent = {} /\ archives = <<>> /\ hits = {} /\ audits = <<>>
      /\ h # {} /\ actionTaken' = "blocked" /\ pc' = "done" /\ answer' = "fake"
      /\ UNCHANGED <<body, sent>>
  BY DEF Block, AuditedOnce
<1>2. "blocked" \in Actions /\ body \in SUBSET MaskPatterns
  BY DEF Actions, TypeOK
<1>3. /\ archives' \in {<<>>, <<[action |-> "blocked", prompt |-> body]>>}
      /\ archives' \in Seq([action : Actions, prompt : SUBSET MaskPatterns])
  BY <1>1, <1>2, ArchiveOnce DEF Block
<1>4. audits' = <<"blocked">>
  BY <1>1, AppendFirst DEF Block, Audit
<1>5. audits' \in Seq(Actions)
  BY <1>2, <1>4
<1>6. TypeOK'
  BY <1>1, <1>2, <1>3, <1>5 DEF TypeOK, PcStates, Answers
<1>7. AuditedOnce'
  BY <1>1, <1>4 DEF AuditedOnce
<1>8. (archives \in {<<>>, <<Kept>>})'
  BY <1>1, <1>3 DEF Kept
<1>9. ~OnItsWay' /\ sent' = {}
  BY <1>1 DEF OnItsWay
<1> QED BY <1>1, <1>6, <1>7, <1>8, <1>9

(* What the scan misses: nothing that blocks, unless a scanner failed.     *)
LEMMA ScanFinds ==
    ASSUME TypeOK, NEW down \in SUBSET Scanners, ~ScanRaises(down)
    PROVE  /\ Scan(down) \subseteq Rules
           /\ ~failOpen /\ Scan(down) \cap Blocking = {}
                => request.content.seen \cap enabled \cap Blocking = {}
<1>1. Scan(down) \subseteq Rules
  BY DEF TypeOK, Scan, KeywordHits, RegexHits, HitsOf
<1>2. ASSUME ~failOpen, Scan(down) \cap Blocking = {}
      PROVE  request.content.seen \cap enabled \cap Blocking = {}
  <2>1. KeywordHits(down) \cap Blocking = {}
    BY <1>2 DEF Scan
  <2>2. "keyword" \notin down /\ "regex" \notin down
    BY <1>2, <2>1 DEF ScanRaises
  <2>3. /\ request.content.seen \cap KeywordRules \cap enabled \cap Blocking = {}
        /\ request.content.seen \cap RegexRules \cap enabled \cap Blocking = {}
    BY <1>2, <2>1, <2>2 DEF Scan, KeywordHits, RegexHits, HitsOf
  <2>4. enabled \subseteq KeywordRules \cup RegexRules
    BY DEF TypeOK, Rules
  <2> QED BY <2>3, <2>4
<1> QED BY <1>1, <1>2

(* Judging a request that is not blocked keeps IInv: what is on its way is *)
(* cleared.                                                                *)
LEMMA ForwardKeeps ==
    ASSUME IInv, pc = "new", NEW down \in SUBSET Scanners, ~ScanRaises(down),
           Forward(Scan(down)), hits' = Scan(down),
           rulesUsed' = enabled, UNCHANGED <<setup, shared>>
    PROVE  IInv'
<1> DEFINE h == Scan(down)
<1>0. TypeOK /\ hits = {} /\ audits = <<>> /\ setup' = setup
  BY DEF IInv, AuditedOnce
<1>1. /\ h \subseteq Rules
      /\ ~failOpen /\ h \cap Blocking = {}
           => request.content.seen \cap enabled \cap Blocking = {}
  BY <1>0, ScanFinds
<1>2. /\ h \cap Blocking = {} /\ body' = Sanitized
      /\ actionTaken' = ActionOf(h, Sanitized # request.content.raw)
      /\ Audit(h, actionTaken') /\ Launch
  BY DEF Forward
<1>3. actionTaken' \in {"passed", "warned", "desensitized"}
  BY <1>2 DEF ActionOf
<1>4. body' # request.content.raw => actionTaken' = "desensitized"
  BY <1>2 DEF ActionOf
<1>5. request' = request /\ failOpen' = failOpen
  BY <1>0 DEF setup
<1>6. body' \subseteq MaskPatterns /\ body' \cap enabled \cap MaskPatterns = {}
  BY <1>0, <1>2, RequestShape DEF Sanitized, TypeOK
<1>7. Payload' = body'
  BY <1>4, <1>5 DEF Payload
<1>8. Cleared'
  BY <1>1, <1>2, <1>3, <1>5, <1>6, <1>7 DEF Cleared
<1>9. audits' = IF hits' = {} THEN <<>> ELSE <<actionTaken'>>
  BY <1>0, <1>2, AppendFirst DEF Audit
<1>10. actionTaken' \in Actions /\ enabled \subseteq Rules
  BY <1>0, <1>3 DEF Actions, TypeOK
<1> QED BY <1>1, <1>2, <1>6, <1>8, <1>9, <1>10, LaunchKeeps

(* Every step keeps IInv.                                                  *)
LEMMA NextKeepsIInv == IInv /\ [Next]_vars => IInv'
<1> SUFFICES ASSUME IInv, [Next]_vars PROVE IInv'
  OBVIOUS
<1>0. TypeOK
  BY DEF IInv
<1>1. CASE Refuse \/ JudgeNoText \/ ScannerFails
  <2>1. /\ pc = "new" /\ pc' = "done" /\ answer' \in {"refused", "crash"}
        /\ UNCHANGED <<setup, shared, judged, sent, audits, archives>>
    BY <1>1 DEF Refuse, JudgeNoText, ScannerFails, Crash
  <2>2. audits = <<>> /\ sent = {} /\ archives = <<>>
    BY <2>1 DEF IInv, AuditedOnce
  <2>3. TypeOK'
    BY <2>1, <1>0 DEF TypeOK, PcStates, Answers, setup, shared, judged
  <2>4. AuditedOnce'
    BY <2>1, <2>2 DEF IInv, AuditedOnce, judged
  <2> QED BY <2>1, <2>2, <2>3, <2>4 DEF IInv, OnItsWay, judged
<1>2. CASE Judge
  <2>1. PICK down \in SUBSET Scanners :
              /\ ~ScanRaises(down)
              /\ hits' = Scan(down)
              /\ Block(Scan(down)) \/ Forward(Scan(down))
    BY <1>2 DEF Judge
  <2>2. pc = "new" /\ rulesUsed' = enabled /\ UNCHANGED <<setup, shared>>
    BY <1>2 DEF Judge
  <2>3. Scan(down) \in SUBSET Rules
    BY <2>1, <1>0, ScanFinds
  <2>4. CASE Block(Scan(down))
    BY <2>1, <2>2, <2>3, <2>4, BlockKeeps
  <2>5. CASE Forward(Scan(down))
    BY <2>1, <2>2, <2>5, ForwardKeeps
  <2> QED BY <2>1, <2>4, <2>5
<1>3. CASE PassThrough
  <2>1. /\ pc = "new" /\ ~request.chat /\ Launch
        /\ UNCHANGED <<setup, shared, judged, audits>>
    BY <1>3 DEF PassThrough
  <2>2. hits = {} /\ actionTaken = "passed" /\ body = request.content.raw /\ audits = <<>>
    BY <2>1 DEF IInv, AuditedOnce
  <2>3. Cleared'
    BY <2>1, <2>2 DEF Cleared, Payload, setup, judged
  <2>4. /\ actionTaken' \in Actions /\ body' \in SUBSET MaskPatterns
        /\ hits' \in SUBSET Rules /\ rulesUsed' \in SUBSET Rules
        /\ audits' = <<>> /\ hits' = {}
    BY <2>1, <2>2, <1>0 DEF TypeOK, judged
  <2> QED BY <2>1, <2>3, <2>4, LaunchKeeps
<1>4. CASE Vanish \/ Respond \/ TransportFails \/ ResponseUnreadable \/ CutStream
  <2>1. PICK result \in {"cut", "upstream", "error", "crash"} : End(result)
    BY <1>4 DEF Vanish, Respond, TransportFails, ResponseUnreadable, CutStream
  <2>2. OnItsWay /\ UNCHANGED sent /\ (UNCHANGED archives \/ Archive(actionTaken, body))
    BY <1>4 DEF OnItsWay, Vanish, Respond, TransportFails, ResponseUnreadable, CutStream
  <2>3. result \in Answers \ {"none", "fake"}
    BY DEF Answers
  <2> QED BY <2>1, <2>2, <2>3, EndKeeps
<1>5. CASE StartStream
  <2>1. /\ pc = "ready" /\ pc' = "relaying"
        /\ UNCHANGED <<setup, shared, judged, sent, audits, archives, answer>>
    BY <1>5 DEF StartStream
  <2>2. TypeOK' /\ AuditedOnce'
    BY <2>1, <1>0 DEF IInv, TypeOK, PcStates, AuditedOnce, setup, shared, judged
  <2>3. Cleared'
    BY <2>1 DEF IInv, OnItsWay, Cleared, Payload, setup, judged
  <2> QED BY <2>1, <2>2, <2>3 DEF IInv, judged
<1>6. CASE Send
  <2>1. /\ pc = "relaying" /\ pc' = "awaiting" /\ sent' = sent \cup {Payload}
        /\ UNCHANGED <<setup, shared, judged, audits, archives, answer>>
    BY <1>6 DEF Send
  <2>2. Cleared /\ sent = {}
    BY <2>1 DEF IInv, OnItsWay
  <2>3. sent' = {body}
    BY <2>1, <2>2 DEF Cleared
  <2>4. TypeOK' /\ AuditedOnce'
    BY <2>1, <2>3, <1>0 DEF IInv, TypeOK, PcStates, AuditedOnce, setup, shared, judged
  <2>5. Cleared'
    BY <2>1, <2>2 DEF Cleared, Payload, setup, judged
  <2> QED BY <2>1, <2>3, <2>4, <2>5 DEF IInv, judged
<1>7. CASE Reload \/ SetCapture
  <2>1. /\ enabled' \in SUBSET Rules /\ capture' \in BOOLEAN
        /\ UNCHANGED <<setup, pc, judged, sent, audits, archives, answer>>
    BY <1>7, <1>0 DEF Reload, SetCapture, TypeOK
  <2>2. TypeOK' /\ AuditedOnce'
    BY <2>1, <1>0 DEF IInv, TypeOK, AuditedOnce, setup, judged
  <2>3. Cleared <=> Cleared'
    BY <2>1 DEF Cleared, Payload, setup, judged
  <2>4. OnItsWay <=> OnItsWay'
    BY <2>1 DEF OnItsWay
  <2>5. Kept' = Kept
    BY <2>1 DEF Kept, judged
  <2> QED BY <2>1, <2>2, <2>3, <2>4, <2>5 DEF IInv, setup, judged
<1>8. CASE UNCHANGED vars
  <2>1. UNCHANGED <<setup, shared, pc, judged, sent, audits, archives, answer>>
    BY <1>8 DEF vars
  <2>2. TypeOK' /\ AuditedOnce'
    BY <2>1, <1>0 DEF IInv, TypeOK, AuditedOnce, setup, shared, judged
  <2>3. (Cleared <=> Cleared') /\ (OnItsWay <=> OnItsWay')
    BY <2>1 DEF Cleared, Payload, OnItsWay, setup, judged
  <2>4. Kept' = Kept
    BY <2>1 DEF Kept, judged
  <2> QED BY <2>1, <2>2, <2>3, <2>4 DEF IInv, setup, judged
<1> QED
  BY <1>1, <1>2, <1>3, <1>4, <1>5, <1>6, <1>7, <1>8 DEF Next, Handle, Relay

-----------------------------------------------------------------------------
(* IInv is an invariant of the relay.                                      *)
THEOREM Invariant == Spec => []IInv
<1> QED BY InitIInv, NextKeepsIInv, PTL DEF Spec

(* Every variable keeps its type.                                          *)
THEOREM TypeCorrect == Spec => []TypeOK
<1>1. IInv => TypeOK
  BY DEF IInv
<1> QED BY <1>1, Invariant, PTL

(* A rule reload between the actionTaken and the send changes nothing of what  *)
(* the upstream may see.                                                   *)
THEOREM UpstreamSafe == Spec => []UpstreamSeesJudgedBody
<1> QED BY IInvSuffices, Invariant, PTL

(* Every hit leaves one audit with the action taken, on every path.        *)
THEOREM AuditExact == Spec => []AuditedOnce
<1>1. IInv => AuditedOnce
  BY DEF IInv
<1> QED BY <1>1, Invariant, PTL

(* There is one archive at most, and it says what was sent and audited.    *)
THEOREM ArchiveFaithful == Spec => []ArchivedAsSent
<1> QED BY IInvSuffices, Invariant, PTL

(* Every answered request and every started stream leaves its archive, if  *)
(* the capture is on, and none if it is off.                               *)
THEOREM NothingAnsweredUnarchived == Spec => ArchivedAtTheEnd
<1> DEFINE A == /\ request.chat
                /\ pc # "done" /\ pc' = "done"
                /\ \/ answer' \in {"fake", "upstream", "error"}
                   \/ answer' = "cut" /\ pc # "ready"
                => (capture <=> archives' # <<>>)
<1>1. IInv /\ [Next]_vars => [A]_vars
  <2> SUFFICES ASSUME IInv, Next, request.chat, pc # "done", pc' = "done",
                      \/ answer' \in {"fake", "upstream", "error"}
                      \/ answer' = "cut" /\ pc # "ready"
               PROVE  capture <=> archives' # <<>>
    OBVIOUS
  <2>0. TypeOK /\ archives = <<>> /\ actionTaken \in Actions /\ body \in SUBSET MaskPatterns
    BY DEF IInv, TypeOK
  <2>1. CASE Judge
    <3>1. PICK down \in SUBSET Scanners : Block(Scan(down)) \/ Forward(Scan(down))
      BY <2>1 DEF Judge
    <3>2. CASE Block(Scan(down))
      <4>1. Archive("blocked", body) /\ "blocked" \in Actions
        BY <3>2 DEF Block, Actions
      <4> QED BY <2>0, <4>1, ArchiveOnce
    <3>3. CASE Forward(Scan(down))
      BY <3>3 DEF Forward, Launch, Crash
    <3> QED BY <3>1, <3>2, <3>3
  <2>2. CASE Respond \/ TransportFails \/ CutStream
    <3>1. Archive(actionTaken, body)
      BY <2>2 DEF Respond, TransportFails, CutStream
    <3> QED BY <2>0, <3>1, ArchiveOnce
  <2>3. CASE Refuse \/ JudgeNoText \/ ScannerFails \/ PassThrough \/ Vanish
               \/ ResponseUnreadable
    BY <2>3 DEF Refuse, JudgeNoText, ScannerFails, PassThrough, Launch, Crash,
                Vanish, ResponseUnreadable, End
  <2>4. CASE StartStream \/ Send \/ Reload \/ SetCapture
    BY <2>4 DEF StartStream, Send, Reload, SetCapture
  <2> QED BY <2>1, <2>2, <2>3, <2>4 DEF Next, Handle, Relay
<1> QED BY <1>1, Invariant, PTL DEF Spec, ArchivedAtTheEnd
=============================================================================
