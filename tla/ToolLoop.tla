------------------------------ MODULE ToolLoop ------------------------------
(***************************************************************************)
(* The tool proxy's conversation with a backend (internal/toolproxy): it   *)
(* attaches its own tools to the client's request, runs the calls it owns, *)
(* feeds the results back and asks again, until the model answers, calls a *)
(* tool of the client's, or runs out of rounds.  Two drivers share the     *)
(* loop: runToolLoopJSON answers in one piece, runToolLoopStreaming relays *)
(* every round as it arrives and cannot take anything back.                *)
(*                                                                         *)
(* A backend's reply is built up chunk by chunk, in any way it likes.  The *)
(* streaming driver sees the chunks, the JSON driver only the whole.  Text *)
(* is a sequence of tokens: the pieces of the <tool_call> tag, the body of *)
(* a textual call with its closing tag, a <think> block, and plain words.  *)
(***************************************************************************)
EXTENDS ContentGate, FiniteSets

CONSTANTS
  ProxyTools,     \* the tools the proxy owns (tools.Registry)
  Tools,          \* every tool a model may call
  Bodies,         \* body token -> the tool it calls
  BadBody,        \* a body that is no call, with its closing tag
  Think,          \* a <think>...</think> block
  Word,           \* any other text
  MaxRounds,      \* maxToolRounds
  MaxReply        \* bound: the parts of a reply (tokens, thinking, calls)

Closers == DOMAIN Bodies \cup {BadBody}

ASSUME LoopAssumption ==
  /\ ProxyTools \subseteq Tools
  /\ \A c \in DOMAIN Bodies : Bodies[c] \in Tools
  /\ MaxRounds \in Nat \ {0}
  /\ MaxReply \in Nat

VARIABLES
  mode,       \* the driver
  pc, round,
  messages,   \* the turns added to the client's conversation
  reply,      \* the backend's reply, so far
  gate, shown,    \* streaming: the gate, and this round's text at the client
  executed, total,   \* tools run; usage summed over the rounds
  prior,      \* JSON: the truncated answer a regeneration may replace
  status, events, answer,   \* what the client has been sent
  reported    \* history: rounds whose backend reported usage

loopVars == <<mode, pc, round, messages, reply, gate, shown, executed, total, prior,
              status, events, answer, reported>>

-----------------------------------------------------------------------------
(* Text: the first block from an opening tag to the next closing one       *)
(* (toolCallTagRe), the call in it, and what is left without it.           *)
BlockEnds(s) == {k \in 1 .. Len(s) : /\ TagAt(s) # {} /\ s[k] \in Closers
                                     /\ k >= Least(TagAt(s)) + Len(Tag)}

(* Bound: a reply holds one such block at most.                            *)
OneBlock(s) ==
  BlockEnds(s) # {} => BlockEnds(SubSeq(s, Least(BlockEnds(s)) + 1, Len(s))) = {}

ExtractToolCallsFromContent(s) ==
  LET end == Least(BlockEnds(s)) IN
  IF /\ BlockEnds(s) # {} /\ end = Least(TagAt(s)) + Len(Tag)
     /\ s[end] \in DOMAIN Bodies
    THEN <<Bodies[s[end]]>> ELSE <<>>

StripToolCallTags(s) ==
  IF BlockEnds(s) = {} THEN s
  ELSE SubSeq(s, 1, Least(TagAt(s)) - 1) \o SubSeq(s, Least(BlockEnds(s)) + 1, Len(s))

(* The tokens of it that are not thinking.                                 *)
CleanContent(s) == ToSet(StripToolCallTags(s)) \ {Think}

(* extractToolCalls: the structured calls win over the text.               *)
ExtractToolCalls(structured, text) ==
  IF structured # <<>> THEN structured ELSE ExtractToolCallsFromContent(text)

NewReply == [content |-> <<>>, reasoning |-> FALSE, calls |-> <<>>]

(* An answer: of its text, whether there is any.                           *)
NoAnswer == [kind |-> "none", text |-> FALSE, reasoning |-> FALSE, finish |-> "", calls |-> <<>>]

(* JSON: reasoning may be inlined.  Streaming: only the structured kind.   *)
Reasons(r) == r.reasoning \/ (mode = "json" /\ Think \in ToSet(StripToolCallTags(r.content)))

FinalAnswer(r, finish) ==
  [kind |-> "final", text |-> CleanContent(r.content) # {}, reasoning |-> Reasons(r),
   finish |-> finish, calls |-> <<>>]

(* Mutant: every cap is taken for an honest one.                           *)
EmptyAnswerCapped(a) == ~a.text /\ a.finish # "length"

(* No text, unless a reasoning model spent its whole budget on thinking.   *)
EmptyAnswer(a) == ~a.text /\ ~(a.finish = "length" /\ a.reasoning)

-----------------------------------------------------------------------------
(* The client's stream.  Deltas in a row are one event.                    *)
Event(kind, usage) == [kind |-> kind, usage |-> usage]

Delta(evs) ==
  IF evs # <<>> /\ Last(evs).kind = "delta" THEN evs ELSE Append(evs, Event("delta", 0))

DeltaIf(some, evs) == IF some THEN Delta(evs) ELSE evs

UsageIf(some, evs) == IF some THEN Append(evs, Event("usage", total')) ELSE evs

Done(evs) == Append(evs, Event("done", 0))

AddUsage(a, b) == a + b

(* finishStream: the backend's terminal chunks with the summed usage, or a *)
(* stop of our own.  A finish chunk that has a usage key gets it too.      *)
FinishStream(evs, finish, usage, nullUsage) ==
  LET finished ==
        CASE finish # "" -> Append(evs, Event("finish", IF nullUsage THEN total' ELSE 0))
          [] finish = "" /\ usage > 0 -> evs
          [] OTHER -> Append(evs, Event("finish", 0))
      sent == usage > 0 \/ (finish # "" /\ nullUsage)
      replayed == UsageIf(usage > 0, finished)
  IN  Done(UsageIf(~sent /\ total' > 0, replayed))

-----------------------------------------------------------------------------
(* The backend adds text, thinking or a structured call to its reply.      *)
Size(r) == Len(r.content) + Len(r.calls) + (IF r.reasoning THEN 1 ELSE 0)

Deltas == {<<t>> : t \in ToSet(Tag) \cup Closers \cup {Think, Word}} \cup {Tag}

Say(text) ==
  /\ pc # "done"
  /\ Size(reply) + Len(text) <= MaxReply /\ OneBlock(reply.content \o text)
  /\ reply' = [reply EXCEPT !.content = @ \o text]
  /\ IF mode = "json" THEN UNCHANGED <<gate, shown, events, status>>
     ELSE LET p == Push(gate, text) IN
          /\ gate' = p.gate
          /\ shown' = shown \o p.out
          /\ events' = DeltaIf(p.out # <<>>, events)
          /\ status' = IF p.out # <<>> THEN "200" ELSE status
  /\ UNCHANGED <<mode, pc, round, messages, executed, total, prior, answer, reported>>

Reason ==
  /\ pc # "done" /\ ~reply.reasoning /\ Size(reply) < MaxReply
  /\ reply' = [reply EXCEPT !.reasoning = TRUE]
  /\ IF mode = "json" THEN UNCHANGED <<events, status>>
     ELSE events' = Delta(events) /\ status' = "200"
  /\ UNCHANGED <<mode, pc, round, messages, gate, shown, executed, total, prior, answer, reported>>

CallTool(name) ==
  /\ pc # "done" /\ Size(reply) < MaxReply
  /\ reply' = [reply EXCEPT !.calls = Append(@, name)]
  /\ UNCHANGED <<mode, pc, round, messages, gate, shown, executed, total, prior, status,
                 events, answer, reported>>

-----------------------------------------------------------------------------
(* The end of a reply.                                                     *)

(* The text at the client once the reply is complete: a tag that never     *)
(* completed goes out, and so does a literal tag that was no call.         *)
Flushed(calls) ==
  shown \o gate.pending \o (IF calls = <<>> THEN gate.captured ELSE <<>>)

(* The calls the driver reads off the reply.                               *)
CallsOf == ExtractToolCalls(reply.calls, IF mode = "json" THEN reply.content ELSE gate.captured)

(* Mutant: calls the client owns do not stop the proxy from running its    *)
(* own.                                                                    *)
AllProxySome(calls) == \E k \in 1 .. Len(calls) : calls[k] \in ProxyTools

(* One call of the client's, and the whole batch goes back to the client.  *)
AllProxy(calls) == \A k \in 1 .. Len(calls) : calls[k] \in ProxyTools

Batch(calls) == [k \in 1 .. Len(calls) |-> [id |-> <<round, k>>, name |-> calls[k]]]

(* assistantToolCallMessage: of the text, whether it replays the thinking. *)
AssistantTurn(calls) ==
  [role |-> "assistant", thinks |-> Think \in CleanContent(reply.content),
   calls |-> Batch(calls)]

ToolTurn(id) == [role |-> "tool", id |-> id]

(* executeProxyCalls: every call has its result, failed or not.            *)
ExecuteProxyCalls(calls, failed) ==
  [k \in 1 .. Len(calls) |-> ToolTurn(<<round, k>>)]

LastRound == round + 1 = MaxRounds

(* The reply makes calls the proxy owns: run them and go round again, or   *)
(* stop with whatever there is when the rounds are used up.                *)
RunTools(usage) ==
  LET calls == CallsOf
      text == Flushed(calls)
      closing == Append(DeltaIf(text = <<>>, DeltaIf(text # shown, events)), Event("finish", 0))
  IN
  /\ pc = "asking" /\ calls # <<>> /\ AllProxy(calls)
  /\ total' = IF mode = "json" THEN 0 ELSE AddUsage(total, usage)
  /\ executed' = executed + Len(calls)
  /\ \E failed \in SUBSET (1 .. Len(calls)) :
       messages' = messages \o <<AssistantTurn(calls)>> \o ExecuteProxyCalls(calls, failed)
  /\ round' = round + 1
  /\ pc' = IF LastRound THEN "done" ELSE "asking"
  /\ reply' = IF LastRound THEN reply ELSE NewReply
  /\ gate' = IF LastRound THEN gate ELSE NewGate
  /\ shown' = IF LastRound THEN text ELSE <<>>
  /\ answer' = IF ~LastRound THEN answer
               ELSE [NoAnswer EXCEPT !.kind = "maxRounds", !.text = CleanContent(reply.content) # {}]
  /\ status' = IF LastRound \/ (mode = "stream" /\ text # shown) THEN "200" ELSE status
  /\ events' = CASE mode = "json" -> events
                 [] mode = "stream" /\ ~LastRound -> DeltaIf(text # shown, events)
                 [] OTHER -> Done(UsageIf(total' > 0, closing))
  /\ UNCHANGED <<mode, prior>>

(* The reply calls a tool of the client's.                                 *)
ReturnCalls(usage) ==
  LET calls == CallsOf IN
  /\ pc = "asking" /\ calls # <<>> /\ ~AllProxy(calls)
  /\ total' = IF mode = "json" THEN 0 ELSE AddUsage(total, usage)
  /\ pc' = "done" /\ status' = "200"
  /\ shown' = Flushed(calls)
  /\ events' = IF mode = "json" THEN events
               ELSE Done(Append(DeltaIf(shown' # shown, events), Event("calls", total')))
  /\ answer' = [NoAnswer EXCEPT !.kind = "calls", !.calls = Batch(calls)]
  /\ UNCHANGED <<mode, round, messages, reply, gate, executed, prior>>

(* An empty answer is refused as long as nothing has been sent.            *)
Settle(a) ==
  /\ pc' = "done" /\ answer' = a
  /\ status' = IF EmptyAnswer(a) THEN "502" ELSE "200"

TruncatedFinal(a) == a.finish = "length"

(* The reply makes no calls.  JSON: a truncated answer is asked for once   *)
(* more, without tools.                                                    *)
AnswerJSON(finish) ==
  LET a == FinalAnswer(reply, finish) IN
  /\ mode = "json" /\ pc = "asking" /\ CallsOf = <<>>
  /\ IF TruncatedFinal(a)
       THEN /\ pc' = "regen" /\ prior' = a /\ reply' = NewReply
            /\ UNCHANGED <<answer, status>>
       ELSE Settle(a) /\ UNCHANGED <<prior, reply>>
  /\ UNCHANGED <<mode, round, messages, gate, shown, executed, total, events>>

(* regenerateFinal: its answer replaces the truncated one; any call in it  *)
(* is ignored.                                                             *)
Regenerated(finish) ==
  /\ pc = "regen"
  /\ Settle(FinalAnswer(reply, finish))
  /\ UNCHANGED <<mode, round, messages, reply, gate, shown, executed, total, prior, events>>

(* Streaming: everything held back is sent on and the stream is closed.    *)
AnswerStream(finish, usage, nullUsage) ==
  LET a == FinalAnswer(reply, finish)
      opened == status = "200" \/ Flushed(<<>>) # <<>>
  IN
  /\ mode = "stream" /\ pc = "asking" /\ CallsOf = <<>>
  /\ total' = AddUsage(total, usage)
  /\ shown' = Flushed(<<>>)
  /\ pc' = "done" /\ answer' = a
  /\ IF ~opened /\ EmptyAnswer(a)
       THEN status' = "502" /\ UNCHANGED events
       ELSE /\ status' = "200"
            /\ events' = FinishStream(DeltaIf(shown' # shown, events), finish, usage, nullUsage)
  /\ UNCHANGED <<mode, round, messages, reply, gate, executed, prior>>

RoundEnds(finish, usage, nullUsage) ==
  /\ \/ RunTools(usage)
     \/ ReturnCalls(usage)
     \/ AnswerJSON(finish)
     \/ AnswerStream(finish, usage, nullUsage)
  /\ reported' = reported + usage

(* fail: in-band, whether or not a byte has been sent.                     *)
FailStream == Done(Append(Delta(events), Event("finish", 0)))

(* No connection, a status that is no success, no choices, or a stream     *)
(* that breaks off.  A failed regeneration keeps the truncated answer.     *)
BackendFails ==
  /\ pc # "done"
  /\ IF pc = "regen" THEN Settle(prior) /\ UNCHANGED events
     ELSE /\ pc' = "done" /\ answer' = [NoAnswer EXCEPT !.kind = "error"]
          /\ status' = IF mode = "json" THEN "502" ELSE "200"
          /\ events' = IF mode = "json" THEN events ELSE FailStream
  /\ UNCHANGED <<mode, round, messages, reply, gate, shown, executed, total, prior, reported>>

-----------------------------------------------------------------------------
LoopInit ==
  /\ mode \in {"json", "stream"}
  /\ pc = "asking" /\ round = 0 /\ messages = <<>>
  /\ reply = NewReply /\ gate = NewGate /\ shown = <<>>
  /\ executed = 0 /\ total = 0
  /\ prior = NoAnswer
  /\ status = "none" /\ events = <<>> /\ answer = NoAnswer
  /\ reported = 0

Answered == pc = "done" /\ UNCHANGED loopVars

Finishes == {"", "stop", "length"}

LoopNext ==
  \/ \E text \in Deltas : Say(text)
  \/ Reason
  \/ \E name \in Tools : CallTool(name)
  \/ \E finish \in Finishes, usage \in {0, 1}, nullUsage \in BOOLEAN :
       RoundEnds(finish, usage, nullUsage)
  \/ \E finish \in Finishes : Regenerated(finish) /\ UNCHANGED reported
  \/ BackendFails
  \/ Answered

LoopSpec == LoopInit /\ [][LoopNext]_loopVars

-----------------------------------------------------------------------------
Tokens == ToSet(Tag) \cup Closers \cup {Think, Word}

(* The loop's state keeps to its types, and never goes past MaxRounds.     *)
LoopTypeOK ==
  /\ mode \in {"json", "stream"} /\ pc \in {"asking", "regen", "done"}
  /\ round \in 0 .. MaxRounds /\ (pc = "asking" => round < MaxRounds)
  /\ reply.content \in Seq(Tokens) /\ reply.calls \in Seq(Tools)
  /\ shown \in Seq(Tokens) /\ gate.pending \in Seq(Tokens) /\ gate.captured \in Seq(Tokens)
  /\ executed \in 0 .. MaxRounds * MaxReply
  /\ status \in {"none", "200", "502"} /\ total \in Nat

(* Every conversation the backend is asked to continue is well formed:     *)
(* each assistant turn with calls is followed by one result per call, in   *)
(* order, failed tools included; and no turn replays the model's thinking  *)
(* (executeProxyCalls, assistantToolCallMessage).                          *)
HistoryWellFormed ==
  /\ \A i \in 1 .. Len(messages) :
       messages[i].role = "assistant" =>
         /\ ~messages[i].thinks
         /\ \A k \in 1 .. Len(messages[i].calls) :
              i + k <= Len(messages) /\ messages[i + k] = ToolTurn(messages[i].calls[k].id)
  /\ Cardinality({i \in 1 .. Len(messages) : messages[i].role = "tool"}) = executed

(* The proxy runs a batch or hands it back, never a part of it: no tool of *)
(* the client's is ever run, and what the client is handed was not run     *)
(* ("We don't execute a partial set").                                     *)
WholeBatch ==
  /\ \A i \in 1 .. Len(messages) :
       messages[i].role = "assistant" =>
         \A k \in 1 .. Len(messages[i].calls) : messages[i].calls[k].name \in ProxyTools
  /\ answer.kind = "calls" =>
       \A k \in 1 .. Len(answer.calls) : ToolTurn(answer.calls[k].id) \notin ToSet(messages)

(* Every turn of the conversation can be continued: a batch is run whole   *)
(* or handed back whole, each call run has its result, failed or not, and  *)
(* the rounds end.                                                         *)
TurnsComplete == LoopTypeOK /\ HistoryWellFormed /\ WholeBatch

(* "Never hand back a successful-looking empty completion": a JSON answer  *)
(* that is a 200 has text, or is an honest cap on a reasoning model, the   *)
(* regenerated answer included; a stream that is one has sent something,   *)
(* if only in a round before the last.                                     *)
NoEmptySuccess ==
  answer.kind = "final" /\ status = "200" =>
    IF mode = "json" THEN answer.text \/ (answer.finish = "length" /\ answer.reasoning)
    ELSE \E i \in 1 .. Len(events) : events[i].kind = "delta"

(* A stream that was opened is closed: [DONE] comes once and last, however *)
(* the loop ended, and a stream that was never opened is a plain 502.      *)
StreamTerminated ==
  LET dones == {i \in 1 .. Len(events) : events[i].kind = "done"} IN
  IF pc = "done" /\ mode = "stream"
    THEN IF status = "200" THEN dones = {Len(events)} ELSE events = <<>> /\ status = "502"
    ELSE dones = {}

(* A streamed answer is complete: when the model is done, the client has   *)
(* all of its last reply, token for token, whatever the gate held back on  *)
(* the way (contentGate, the flushes of streamRound and of the loop).      *)
NothingLost ==
  mode = "stream" /\ answer.kind = "final" => shown = reply.content

(* A textual call never shows: while a reply streams, and when its calls   *)
(* were textual, the client has seen no tag, even one split over deltas.   *)
NoMarkupLeaks ==
  mode = "stream" /\ (pc = "asking" \/ (answer.kind = "calls" /\ reply.calls = <<>>))
    => TagAt(shown) = {}

(* The gate is faithful both ways: it forwards no tag while a reply        *)
(* streams or behind textual calls, however the tag is split, and withholds*)
(* nothing of a final answer.  What it withholds of a reply whose          *)
(* structured calls are run or handed back is not claimed.                 *)
GateFaithful == NothingLost /\ NoMarkupLeaks

(* Both drivers read the same calls: what the gate captured holds exactly  *)
(* the textual call that is in the whole reply.                            *)
DriversAgree ==
  mode = "stream" =>
    ExtractToolCallsFromContent(gate.captured) = ExtractToolCallsFromContent(reply.content)

(* The usage a stream reports is the usage of all its rounds: bookkeeping  *)
(* (addUsage sums as "reported" does), of weight only in that no event     *)
(* carries the part of one round.                                          *)
UsageIsSum ==
  mode = "stream" =>
    \A i \in 1 .. Len(events) : events[i].usage \in {0, reported}

(* The answer is complete: never an empty success, every opened stream     *)
(* closed once, and usage over all of the rounds.                          *)
AnswerComplete == NoEmptySuccess /\ StreamTerminated /\ UsageIsSum
=============================================================================
