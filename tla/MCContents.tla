----------------------------- MODULE MCContents -----------------------------
(***************************************************************************)
(* What is read of a request and kept of an answer: the text of a chat, a  *)
(* stream, and generated images.  They share no state, so a behaviour      *)
(* follows one of them, its subject, while the others rest.  A small       *)
(* instance: chats of up to two messages and their nested contents, under  *)
(* five sets of rules; streams of up to three events; two image tasks,     *)
(* which may share their request id, and answers with one or two images,   *)
(* two of them under one index.                                            *)
(***************************************************************************)
EXTENDS StreamArchive, ImageAssets, ChatText

CONSTANTS i1, i2

MCSayings == {<<>>, <<"a">>, <<"a", "b">>, <<"b", "a", "a">>, <<"a", "U+2028", "b">>}

Coded(what) == [url |-> Nothing, b64_json |-> what]
MCAnswers == {<<Coded(i1)>>,
              <<Coded(i2), Coded(Junk)>>,
              <<[url |-> Junk, b64_json |-> i2]>>}

-----------------------------------------------------------------------------
Plain(what) == [is |-> what, coded |-> 0]
Say(words) == [i \in DOMAIN words |-> Plain(words[i])]

Written == {<<>>, Say(<<"mobile">>), Say(<<"word", "gap", "mobile">>), Say(<<"abroad", "word">>),
            Say(<<"gap", "unseen", "gap", "other", "gap", "mobile", "mobile">>),
            Say(<<"Word">>), <<[is |-> "word", coded |-> 2], Plain("abroad")>>,
            <<[is |-> "mobile", coded |-> 1]>>, <<[is |-> "mobile", coded |-> 3]>>}

Text(t) == <<[at |-> <<>>, text |-> t]>>
In(item, field) == [item |-> item, field |-> field]
MCTexts == {Text(t) : t \in Written} \cup {<<>>}
            \cup {<<[at |-> <<In(1, "item")>>, text |-> t], [at |-> <<In(3, "content")>>, text |-> u],
                    [at |-> <<In(4, "image_url"), In(1, "text")>>, text |-> Say(<<"mobile">>)]>> :
                     t, u \in {<<>>, Say(<<"mobile">>), Say(<<"other">>)}}
            \cup {<<[at |-> <<In(1, "text")>>, text |-> t],
                    [at |-> <<In(1, "content"), In(1, "item")>>, text |-> u],
                    [at |-> <<In(2, "content"), In(1, "content")>>, text |-> u]>> :
                     t, u \in {<<>>, Say(<<"abroad">>)}}

MCChats == {<<[role |-> r, content |-> c]>> : r \in {"user", "tool", "assistant"}, c \in MCTexts}
           \cup {<<[role |-> "user", content |-> c], [role |-> r, content |-> d]>> :
                    r \in {"user", "assistant"}, c, d \in MCTexts}

Keyword(name, words) == [id |-> name, keywords |-> <<Say(<<>>), Say(words)>>]
Regex(name, number, level) == [id |-> name, finds |-> number, level |-> level]
Off == [enabled |-> FALSE]
MCRuleSets ==
    {[keyword |-> <<>>, regex |-> <<>>],
     [keyword |-> <<Keyword("k1", <<"word">>)>>, regex |-> <<Regex("r1", "mobile", "desensitize")>>],
     [keyword |-> <<[id |-> "k1", keywords |-> <<Say(<<"word">>), Say(<<"other">>)>>, level |-> "warn",
                     stop_on_first |-> FALSE, match_mode |-> "prefix"]>>,
      regex |-> <<Regex("r1", "mobile", "desensitize"), Regex("r2", "abroad", "block")>>],
     [keyword |-> <<Keyword("k1", <<"word">>) @@ [level |-> "desensitize", match_mode |-> "exact"],
                    Keyword("k2", <<"word">>) @@ [level |-> "warn", case_sensitive |-> TRUE]>>,
      regex |-> <<Regex("r1", "mobile", "warn"), Regex("r2", "abroad", "desensitize")>>],
     [keyword |-> <<Keyword("k1", <<"word">>) @@ Off>>,
      regex |-> <<Regex("r1", "mobile", "desensitize") @@ Off, Regex("r2", "abroad", "warn")>>]}
MCKeywordRules == UNION {ToSet(r.keyword) : r \in MCRuleSets}
MCRegexRules == UNION {ToSet(r.regex) : r \in MCRuleSets}
FirstChat == <<[role |-> "user", content |-> Text(<<>>)]>>
FirstRules == [keyword |-> <<>>, regex |-> <<>>]

-----------------------------------------------------------------------------
VARIABLE subject
all == <<subject, textVars, streamVars, imageVars>>

ChatRests   == messages = FirstChat /\ rules = FirstRules
StreamRests == said = <<>> /\ limit = 1
ImagesRest  == /\ sources = [t \in Tasks |-> Sources(<<Coded(i1)>>)]
               /\ id = [t \in Tasks |-> CHOOSE i \in Ids : TRUE]
Init == /\ subject \in {"chat", "stream", "images"}
        /\ subject # "chat" => ChatRests
        /\ subject # "stream" => StreamRests
        /\ subject # "images" => ImagesRest
        /\ TextInit /\ StreamInit /\ ImagesInit

OnImages(A) == subject = "images" /\ A /\ UNCHANGED <<subject, textVars, streamVars>>

Next == \/ subject = "chat" /\ TextNext /\ UNCHANGED <<subject, streamVars, imageVars>>
        \/ subject = "stream" /\ StreamNext /\ UNCHANGED <<subject, textVars, imageVars>>
        \/ OnImages(ImagesNext)

(* Every step of an image task returns or times out.                       *)
Spec == /\ Init /\ [][Next]_all
        /\ \A t \in Tasks : WF_all(OnImages(Work(t)))

(* Every image task ends, wherever redirects lead and whatever fails.      *)
TasksEnd == subject = "images" => \A t \in Tasks : <>Ended(t)
=============================================================================
