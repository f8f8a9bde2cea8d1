------------------------------ MODULE Inference ------------------------------
(***************************************************************************)
(* internal/inference over internal/primitives/llm: one chat request, from *)
(* the router to the engine.  TinyEngine draws words from a generator      *)
(* seeded with model and prompt, so a prompt fixes the draws: the variable *)
(* draws.  A word is its length and whether shouldStop finds it.  Chat     *)
(* answers at once; Stream runs a goroutine (the producer) that sends on a *)
(* channel, and streamChat (the consumer) writes what it receives.         *)
(***************************************************************************)
EXTENDS Integers, Sequences

CONSTANTS
  Names,          \* model names
  Prompts,        \* contents of a message
  Requests,       \* bodies: model, messages, max, stream
  Words,          \* [len, stop]
  DefaultTokens,  \* 64
  ChanCap,        \* 16
  MostTokens      \* bound: no request asks for more words

ASSUME ChatAssumption ==
  /\ MostTokens \in Nat /\ DefaultTokens \in 1..MostTokens /\ ChanCap \in Nat \ {0}
  /\ \A r \in Requests : r.messages \in Seq(Prompts) /\ r.max \in Int /\ r.max <= MostTokens

VARIABLES
  models,   \* registry.models: the names registered
  engines,  \* registry.engines: the names that have one
  draws,    \* the generator: what each prompt makes it draw
  req,      \* the request: model, messages, max, stream
  ctx,      \* "live", "gone" once the client left, or "done" when the handler returned before that
  prod,     \* the producer: pc and the tokens sent
  ch,       \* the channel: its contents and whether it is closed
  cons,     \* the handler: "start", "recv", "test", "chat", or its end
  out       \* the token in hand, the tokens written, and whether [DONE] followed

chatVars == <<models, engines, draws, req, ctx, prod, ch, cons, out>>

NoRequest == [model |-> "", messages |-> <<>>, max |-> 0, stream |-> FALSE]

NewRegistry == models = {} /\ engines = {}

\* Chat joins the messages; Stream takes the last one.
ChatPrompt(messages) == messages
StreamPrompt(messages) == <<messages[Len(messages)]>>

Prompted == UNION {{ChatPrompt(r.messages), StreamPrompt(r.messages)} : r \in {q \in Requests : q.messages # <<>>}}

\* The words of the vocabulary come in any order that the generator yields.
NewTinyEngine == draws \in [Prompted -> [1..MostTokens -> Words]]

ChatInit ==
  /\ NewRegistry /\ NewTinyEngine
  /\ req = NoRequest
  /\ ctx = "live"
  /\ prod = [pc |-> "none", sent |-> 0]
  /\ ch = [buf |-> <<>>, closed |-> FALSE]
  /\ cons = "start"
  /\ out = [hand |-> <<>>, tokens |-> <<>>, done |-> FALSE]

\* Registry.Register: a nil engine keeps the one that is there.
Register(name, withEngine) ==
  /\ models' = models \cup {name}
  /\ engines' = IF withEngine THEN engines \cup {name} ELSE engines
  /\ UNCHANGED <<draws, req, ctx, prod, ch, cons, out>>

\* Registry.Resolve: the engine registered, else a new one of the same kind.
Resolve(name) == IF name \in engines THEN name ELSE "tiny"

MaxTokens(max) == IF max <= 0 THEN DefaultTokens ELSE max

ShouldStop(w) == w.stop

\* The loop of Chat and of Stream: up to max words, and none after a word that
\* stops.
UpToStop(words, max) ==
  LET stops == {i \in 1..max : ShouldStop(words[i])}
      n     == IF stops = {} THEN max ELSE CHOOSE i \in stops : \A j \in stops : i <= j
  IN [i \in 1..n |-> words[i]]

Tokens(prompt, max) == UpToStop(draws[prompt], max)

\* The response of TinyEngine.Chat: its text is the words with a blank after each.
Chat(messages, max) ==
  LET toks == Tokens(ChatPrompt(messages), MaxTokens(max))
      chars[i \in 0..Len(toks)] == IF i = 0 THEN 0 ELSE chars[i - 1] + toks[i].len + 1
  IN [tokens |-> toks, finish |-> IF chars[Len(toks)] < 5 * MaxTokens(max) THEN "length" ELSE "stop"]

\* handleChat until the engine is called: a request without model or messages
\* is refused, and no model is unknown.
HandleChat(r) ==
  /\ cons = "start"
  /\ req' = r
  /\ IF r.model = "" \/ r.messages = <<>>
     THEN cons' = "400" /\ ctx' = "done" /\ UNCHANGED prod
     ELSE IF r.stream
     THEN cons' = "recv" /\ prod' = [pc |-> "check", sent |-> 0] /\ UNCHANGED ctx
     ELSE cons' = "chat" /\ UNCHANGED <<prod, ctx>>
  /\ UNCHANGED <<models, engines, draws, ch, out>>

\* The call of Chat: it tests the context before every word.
ChatReply ==
  /\ cons = "chat"
  /\ IF ctx # "live" THEN cons' = "500" /\ UNCHANGED out
     ELSE cons' = "200" /\ out' = [out EXCEPT !.tokens = Chat(req.messages, req.max).tokens, !.done = TRUE]
  /\ ctx' = IF ctx = "live" THEN "done" ELSE ctx
  /\ UNCHANGED <<models, engines, draws, req, prod, ch>>

-----------------------------------------------------------------------------
(* The goroutine of Stream.                                                 *)

Streamed == Tokens(StreamPrompt(req.messages), MaxTokens(req.max))

Exit == prod' = [prod EXCEPT !.pc = "exited"] /\ ch' = [ch EXCEPT !.closed = TRUE]

\* The head of the loop: the context ends it.
Check ==
  /\ prod.pc = "check"
  /\ IF ctx # "live" THEN Exit ELSE prod' = [prod EXCEPT !.pc = "send"] /\ UNCHANGED ch
  /\ UNCHANGED <<models, engines, draws, req, ctx, cons, out>>

\* Mutant of Send: the channel is written without a look at the context.
SendBlocks ==
  /\ prod.pc = "send"
  /\ Len(ch.buf) < ChanCap
  /\ LET n == prod.sent + 1
     IN /\ prod' = [pc |-> IF n = Len(Streamed) THEN "exited" ELSE "check", sent |-> n]
        /\ ch' = [buf |-> Append(ch.buf, Streamed[n]), closed |-> n = Len(Streamed)]
  /\ UNCHANGED <<models, engines, draws, req, ctx, cons, out>>

\* The select: room in the channel or the end of the context.  After a word
\* that stops, or the last one, the goroutine returns and closes the channel.
Send ==
  /\ prod.pc = "send"
  /\ \/ /\ Len(ch.buf) < ChanCap
        /\ LET n == prod.sent + 1
           IN /\ prod' = [pc |-> IF n = Len(Streamed) THEN "exited" ELSE "check", sent |-> n]
              /\ ch' = [buf |-> Append(ch.buf, Streamed[n]), closed |-> n = Len(Streamed)]
     \/ ctx # "live" /\ Exit
  /\ UNCHANGED <<models, engines, draws, req, ctx, cons, out>>

-----------------------------------------------------------------------------
(* The loop of streamChat.  When the handler returns, the server ends the   *)
(* context of the request.                                                  *)

Receive ==
  /\ cons = "recv"
  /\ ch.buf # <<>>
  /\ cons' = "test"
  /\ out' = [out EXCEPT !.hand = <<Head(ch.buf)>>]
  /\ ch' = [ch EXCEPT !.buf = Tail(@)]
  /\ UNCHANGED <<models, engines, draws, req, ctx, prod>>

\* Mutant of Forward: the handler returns for good when the channel is empty.
ForwardEnds ==
  /\ cons = "test"
  /\ IF ctx # "live" THEN cons' = "gone" /\ UNCHANGED <<out, ctx>>
     ELSE /\ cons' = IF ch.buf = <<>> THEN "200" ELSE "recv"
          /\ ctx' = IF ch.buf = <<>> THEN "done" ELSE ctx
          /\ out' = [hand |-> <<>>, tokens |-> out.tokens \o out.hand, done |-> ch.buf = <<>>]
  /\ UNCHANGED <<models, engines, draws, req, prod, ch>>

Forward ==
  /\ cons = "test"
  /\ IF ctx # "live" THEN cons' = "gone" /\ UNCHANGED out
     ELSE cons' = "recv" /\ out' = [out EXCEPT !.hand = <<>>, !.tokens = @ \o out.hand]
  /\ UNCHANGED <<models, engines, draws, req, ctx, prod, ch>>

Finish ==
  /\ cons = "recv"
  /\ ch.buf = <<>> /\ ch.closed
  /\ cons' = "200"
  /\ out' = [out EXCEPT !.done = TRUE]
  /\ ctx' = IF ctx = "live" THEN "done" ELSE ctx
  /\ UNCHANGED <<models, engines, draws, req, prod, ch>>

\* The client goes away.
Cancel ==
  /\ cons \in {"recv", "test", "chat"}
  /\ ctx = "live"
  /\ ctx' = "gone"
  /\ UNCHANGED <<models, engines, draws, req, prod, ch, cons, out>>

Producer == Check \/ Send
Handler == Receive \/ Forward \/ Finish \/ ChatReply

ChatNext ==
  \/ \E name \in Names, withEngine \in BOOLEAN : Register(name, withEngine)
  \/ \E r \in Requests : HandleChat(r)
  \/ Cancel \/ Producer \/ Handler

ChatSpec == ChatInit /\ [][ChatNext]_chatVars

\* What streamChat has written is always a prefix of what the engine generates
\* for the last message, in order and without gaps.  Unless the client left,
\* [DONE] follows only all of it, and then it is what Chat would have returned,
\* if there is one message.
StreamIsChat ==
  prod.pc # "none" =>
    /\ Len(out.tokens) <= Len(Streamed)
    /\ \A i \in DOMAIN out.tokens : out.tokens[i] = Streamed[i]
    /\ (out.done /\ ctx = "done") => out.tokens = Streamed
    /\ (out.done /\ ctx = "done" /\ Len(req.messages) = 1) => out.tokens = Chat(req.messages, req.max).tokens
==============================================================================
