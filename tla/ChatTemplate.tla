---------------------------- MODULE ChatTemplate ----------------------------
(***************************************************************************)
(* The prompts the architectures render from a conversation (render_chat   *)
(* of src/gemma4.rs, src/glm52/tokenizer.rs, src/qwen35/tokenizer.rs).  A  *)
(* message is [role, content], a prompt a sequence of code points and of   *)
(* markers: a marker is a string and stands for the fixed text between the *)
(* contents.                                                               *)
(***************************************************************************)
EXTENDS Characters

CONSTANTS
    Contents,     \* the texts a message may have
    MaxMessages   \* a bound: the longest conversation

ASSUME ChatTemplateAssumption == Contents \subseteq Seq(Nat)

VARIABLES
    template,     \* the architecture that renders
    conversation  \* its messages so far

chatVars == <<template, conversation>>

SystemMessageOrder == <<"error">>

\* A system message that is not the first one is refused by Gemma 4 and Qwen 3.5.
Misplaced(messages) == \E i \in 2..Len(messages) : messages[i].role = "system"

GlmMessage(message) ==
    CASE message.role = "system" -> <<"<|system|>">> \o message.content
      [] message.role = "user" -> <<"<|user|>">> \o message.content
      [] message.role = "assistant" ->
           <<"<|assistant|>", "<think>", "</think>">> \o Trim(message.content)

GlmRender(messages, thinking) ==
    <<"[gMASK]<sop>">>
        \o FlattenSeq([i \in DOMAIN messages |-> GlmMessage(messages[i])])
        \o <<"<|assistant|>", "<think>">> \o (IF thinking THEN <<>> ELSE <<"</think>">>)

\* Mutant of QwenMessage: the empty thought is left out of an earlier answer.
QwenMessageBare(message) ==
    <<"<|im_start|>", message.role>> \o Trim(message.content) \o <<"<|im_end|>">>

QwenMessage(message) ==
    <<"<|im_start|>", message.role>>
        \o (IF message.role = "assistant" THEN <<"<think>", "</think>">> ELSE <<>>)
        \o Trim(message.content) \o <<"<|im_end|>">>

QwenRender(messages, thinking) ==
    IF Misplaced(messages) THEN SystemMessageOrder
    ELSE FlattenSeq([i \in DOMAIN messages |-> QwenMessage(messages[i])])
            \o <<"<|im_start|>", "assistant", "<think>">>
            \o (IF thinking THEN <<>> ELSE <<"</think>">>)

GemmaMessage(message) ==
    <<"<|turn>", IF message.role = "assistant" THEN "model" ELSE message.role>>
        \o Trim(message.content) \o <<"<turn|>">>

GemmaRender(messages) ==
    IF Misplaced(messages) THEN SystemMessageOrder
    ELSE <<"<bos>">> \o FlattenSeq([i \in DOMAIN messages |-> GemmaMessage(messages[i])])
            \o <<"<|turn>", "model", "<|channel>thought", "<channel|>">>

\* What an architecture is asked to render; thinking is only GLM's and Qwen's.
Render(architecture, messages, thinking) ==
    CASE architecture = "glm" -> GlmRender(messages, thinking)
      [] architecture = "qwen" -> QwenRender(messages, thinking)
      [] architecture = "gemma" -> GemmaRender(messages)

ChatInit == template \in {"glm", "qwen", "gemma"} /\ conversation = <<>>

\* A client adds a message; the server renders whatever list of messages it is given.
Say ==
    /\ Len(conversation) < MaxMessages
    /\ \E role \in {"system", "user", "assistant"}, content \in Contents :
         conversation' = Append(conversation, [role |-> role, content |-> content])
    /\ UNCHANGED template

ChatSpec == ChatInit /\ [][Say]_chatVars

\* What the next prompt keeps of this one when the answer was `answer`: Gemma opens a
\* thought channel only in the prompt.
Lasting(prompt) ==
    IF template = "gemma" THEN SubSeq(prompt, 1, Len(prompt) - 2) ELSE prompt

\* CONTRIBUTING_MODELS.md, "prompt-prefix behavior": the prompt of the next turn of a
\* conversation begins with this prompt and, but for Gemma's thought channel and for blanks
\* around it, the answer, so a session can go on from its cached tokens.
TurnsExtendPrompt ==
    LET prompt == Render(template, conversation, FALSE)
        Turn(answer) == <<[role |-> "assistant", content |-> answer],
                          [role |-> "user", content |-> <<>>]>>
        Next(answer) == Render(template, conversation \o Turn(answer), FALSE)
        Held(answer) == IF template = "gemma" THEN <<>> ELSE Trim(answer)
    IN  IF prompt = SystemMessageOrder THEN \A answer \in Contents : Next(answer) = prompt
        ELSE \A answer \in Contents : IsPrefix(Lasting(prompt) \o Held(answer), Next(answer))
=============================================================================
