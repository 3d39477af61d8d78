-------------------------------- MODULE Chat --------------------------------
(***************************************************************************)
(* sftdpo.modeling.chat: a conversation rendered as text, tokenised, and   *)
(* split where the answer begins.  A text is a sequence of pieces, the     *)
(* units its tokenizer may merge; a token is the sequence of its pieces.   *)
(***************************************************************************)
EXTENDS Naturals, SequencesExt

CONSTANTS Merges,       \* the pairs of adjacent pieces that make one token
          Templates     \* the kinds of chat template a tokenizer may carry

ASSUME ChatAssumption == Templates \subseteq {"none", "own", "rewriting", "broken"}

IsText(text) == text \in Seq(ToSet(text))

Messages(prompt) == <<[role |-> "system", content |-> <<"system prompt">>],
                      [role |-> "user", content |-> prompt]>>
Answered(prompt, completion) ==
    Append(Messages(prompt), [role |-> "assistant", content |-> completion])

RenderChatml(messages, open) ==
    FlattenSeq([i \in DOMAIN messages |->
                   <<"start", messages[i].role, "newline">>
                     \o messages[i].content \o <<"end", "newline">>])
      \o IF open THEN <<"start", "assistant", "newline">> ELSE <<>>

\* A template of the tokenizer's own: other marks and no line breaks.
RenderOwn(messages, open) ==
    FlattenSeq([i \in DOMAIN messages |->
                   <<"header", messages[i].role>> \o messages[i].content \o <<"end">>])
      \o IF open THEN <<"header", "assistant">> ELSE <<>>

\* ChatML without a template; a rewriting one says something else in earlier turns
\* once there is an answer.
Rendered(template, messages, open) ==
    CASE template = "own" -> RenderOwn(messages, open)
      [] template = "rewriting" /\ Len(messages) = 3 -> RenderChatml(Tail(messages), open)
      [] OTHER -> RenderChatml(messages, open)

PromptText(template, prompt) == Rendered(template, Messages(prompt), TRUE)
FullText(template, prompt, completion) ==
    Rendered(template, Answered(prompt, completion), FALSE)

\* The tokenizer: left to right, a piece joins a single one before it.
Merged(tokens, piece) ==
    IF /\ tokens # <<>> /\ Len(Last(tokens)) = 1
       /\ <<Last(tokens)[1], piece>> \in Merges
    THEN Append(Front(tokens), Append(Last(tokens), piece))
    ELSE Append(tokens, <<piece>>)

Encode(text) ==
    LET tokens[n \in 0..Len(text)] ==
            IF n = 0 THEN <<>> ELSE Merged(tokens[n - 1], text[n])
    IN  tokens[Len(text)]

CommonPrefixLength(left, right) ==
    LET differs == {i \in 1..Len(left) : i > Len(right) \/ left[i] # right[i]}
    IN  IF differs = {} THEN Len(left) ELSE (CHOOSE i \in differs : \A j \in differs : i <= j) - 1

Refused == [ids |-> <<>>, promptLen |-> 0]

\* Fault: the prompt is as long as when it is tokenised alone.
PromptLenAlone(prompt, full) == Len(Encode(prompt))

PromptLen(prompt, full) == CommonPrefixLength(Encode(prompt), Encode(full))

\* encoded_split: refuses a template that fails or rewrites the prompt, and an answer
\* without tokens.
EncodedSplit(template, prompt, completion) ==
    LET before == PromptText(template, prompt)
        full == FullText(template, prompt, completion)
    IN  IF \/ template = "broken"
           \/ ~IsPrefix(before, full)
           \/ PromptLen(before, full) >= Len(Encode(full))
        THEN Refused
        ELSE [ids |-> Encode(full), promptLen |-> PromptLen(before, full)]
=============================================================================
