-------------------------- MODULE StreamedCompletion --------------------------
(***************************************************************************)
(* One answer of the model as it streams in (runner_local.py):             *)
(* _stream_one_completion_impl reads the chunks, holds back a tail of the  *)
(* text until it is known to be sound, and races the reader against a      *)
(* steering update of the user; _stream_completion_with_reconnect asks the *)
(* same route again after a broken stream, hides what it says and shows    *)
(* only what is new; the fallback chain of the agent loop carries the      *)
(* partial answer to the next route.                                       *)
(*                                                                         *)
(* A reply is a sequence of items: letters, which recur, so that a text    *)
(* may look like a repetition where it is none; "json", a tool call        *)
(* written as text; "markup", a tool call in tool tags; "wrapper", a       *)
(* provider's own channel marks; "call" and "args", the two halves of a    *)
(* native call.  A block of markup arrives whole; reasoning is not part of *)
(* a reply.  A reply that is not cut short says the whole of its call.     *)
(***************************************************************************)
EXTENDS Naturals, Sequences, SequencesExt, FiniteSetsExt

CONSTANTS
    Letters,
    Replies,          \* what providers may set out to say
    Lag,              \* _STREAM_QUALITY_LAG_CHARS, in items
    Overlap,          \* bound: letters and calls a continuation may repeat
    Window,           \* overlap_window, where a repetition is looked for
    MaxReconnects,    \* STREAM_RECONNECT_BACKOFF_SECONDS has so many entries
    MaxRoutes,        \* bound: routes the fallback chain may try
    IdleLimit,        \* STREAM_IDLE_TIMEOUT_SECONDS
    TotalLimit        \* STREAM_TOTAL_TIMEOUT_SECONDS

Text  == Letters \cup {"json"}
Items == Text \cup {"markup", "wrapper", "call", "args"}

ASSUME StreamAssumption ==
    /\ Letters \cap {"json", "markup", "wrapper", "call", "args"} = {}
    /\ \A r \in Replies : r \in Seq(Items)
    /\ \A r \in Replies : \A i, j \in DOMAIN r : r[i] = r[j] /\ r[i] \notin Letters => i = j
    /\ \A r \in Replies : \A i \in DOMAIN r : r[i] = "call" => \E j \in DOMAIN r : i < j /\ r[j] = "args"
    /\ Lag \in Nat /\ Overlap \in Nat /\ Window \in Nat /\ MaxReconnects \in Nat /\ MaxRoutes \in Nat \ {0}
    /\ IdleLimit \in Nat \ {0} /\ TotalLimit \in Nat \ {0}

VARIABLES
    reply, emit,      \* what is being answered; whether it is shown as it comes
    pc,
    route, attempt,   \* the candidate of the chain, the reconnection within it
    emergency,        \* the request was compacted again after a context rejection
    durable,          \* durable_partial
    from,             \* the item the provider began this attempt with
    at,               \* the item the provider sends next
    content,          \* content_parts
    pending,          \* pending_content, not yet trusted
    native, textual,  \* the native call; calls found in tool tags
    wrapper, bad,     \* malformed_protocol; quality_failure_reason
    finish, error,    \* finish_reason; stream_error
    steering,         \* a steering update is waiting
    deferred,         \* steering_deferred
    idle, total,      \* the clocks of the request
    shown, saved,     \* text given to the renderer, and to progress_callback
    result

request == <<from, at, content, pending, native, textual, wrapper, bad, finish, error, deferred, idle, total>>
chain   == <<route, attempt, durable>>
output  == <<shown, saved, result>>
streamVars == <<reply, emit, pc, emergency, steering, request, chain, output>>

NoResult == [content |-> <<>>, calls |-> <<>>, finish |-> "none"]

StreamTypes ==
    /\ reply \in Replies /\ emit \in BOOLEAN
    /\ pc \in {"ask", "stream", "close", "raised", "done", "failed"}
    /\ route \in 1 .. MaxRoutes /\ attempt \in 0 .. MaxReconnects /\ emergency \in BOOLEAN
    /\ {durable, content, pending, shown, saved} \subseteq Seq(Text)
    /\ at \in 1 .. Len(reply) + 1 /\ from \in 1 .. at
    /\ native \in {"none", "partial", "whole"} /\ textual \in Nat
    /\ wrapper \in BOOLEAN /\ bad \in BOOLEAN /\ steering \in BOOLEAN /\ deferred \in BOOLEAN
    /\ finish \in {"none", "stop", "length", "live_steering", "write_preempted", "corrupted"}
    /\ error \in {"none", "transient", "lasting", "fatal"}
    /\ idle \in 0 .. IdleLimit /\ total \in 0 .. TotalLimit

\* An attempt after visible text is kept from the user until it is complete.
Retrying == durable # <<>>

Fresh ==
    /\ content = <<>> /\ pending = <<>> /\ native = "none" /\ textual = 0
    /\ wrapper = FALSE /\ bad = FALSE /\ finish = "none" /\ error = "none"
    /\ deferred = FALSE /\ idle = 0 /\ total = 0

StreamInit ==
    /\ reply \in Replies /\ emit \in BOOLEAN
    /\ pc = "ask" /\ route = 1 /\ attempt = 0 /\ emergency = FALSE /\ durable = <<>>
    /\ from = 1 /\ at = 1 /\ Fresh /\ steering = FALSE
    /\ shown = <<>> /\ saved = <<>> /\ result = NoResult

-----------------------------------------------------------------------------
(* The request                                                             *)

Only(text, S) ==        \* what a text has of S, in its order
    LET picked == {i \in DOMAIN text : text[i] \in S}
        Nth(n) == CHOOSE i \in picked : Cardinality({j \in picked : j < i}) = n - 1
    IN  [n \in 1 .. Cardinality(picked) |-> text[Nth(n)]]

\* The text of the reply from one item up to another.
Says(a, b) == Only(SubSeq(reply, a, b - 1), Text)

\* The item after a text of the reply.
Ends(text, i) == i > 1 /\ reply[i - 1] \in Text /\ Says(1, i) = text
Onward == CHOOSE i \in 1 .. Len(reply) + 1 : Ends(durable, i)

(* Every request starts with nothing; one that continues a partial answer  *)
(* gets it as a prefix, and the provider goes on after it, or a little     *)
(* before.                                                                 *)
StartsAt ==
    IF ~Retrying THEN {1}
    ELSE {Onward} \cup {i \in 1 .. Onward - 1 : reply[i] \in Text /\ Len(Says(i, Onward)) <= Overlap}

Ask_Mutant ==           \* the calls of the broken attempt are kept
    /\ pc = "ask"
    /\ pc' = "stream"
    /\ at' \in StartsAt /\ from' = at'
    /\ content' = <<>> /\ pending' = <<>> /\ UNCHANGED <<native, textual>>
    /\ wrapper' = FALSE /\ bad' = FALSE /\ finish' = "none" /\ error' = "none"
    /\ deferred' = FALSE /\ idle' = 0 /\ total' = 0
    /\ UNCHANGED <<reply, emit, emergency, steering, chain, output>>

Ask ==
    /\ pc = "ask"
    /\ pc' = "stream"
    /\ at' \in StartsAt /\ from' = at'
    /\ content' = <<>> /\ pending' = <<>> /\ native' = "none" /\ textual' = 0
    /\ wrapper' = FALSE /\ bad' = FALSE /\ finish' = "none" /\ error' = "none"
    /\ deferred' = FALSE /\ idle' = 0 /\ total' = 0
    /\ UNCHANGED <<reply, emit, emergency, steering, chain, output>>

\* A failure of the request compacted again is reported as the rejection it followed.
Reported(e) == IF emergency THEN "fatal" ELSE e

(* No answer within the first-byte limit, or a refusal, before any chunk.  *)
RequestFails ==
    /\ pc = "ask"
    /\ \E e \in {"transient", "lasting", "fatal"} : error' = Reported(e)
    /\ content' = <<>> /\ pending' = <<>>
    /\ pc' = "raised"
    /\ UNCHANGED <<reply, emit, emergency, steering, from, at, native, textual, wrapper, bad, finish,
                   deferred, idle, total, chain, output>>

\* The context is too long by the provider's own count: compacted once more.
ContextRejected ==
    /\ pc = "ask" /\ ~emergency
    /\ emergency' = TRUE
    /\ UNCHANGED <<reply, emit, pc, steering, request, chain, output>>

-----------------------------------------------------------------------------
(* The stream                                                              *)

InTime == idle < IdleLimit /\ total < TotalLimit

\* The next chunk is looked at: the watcher of steering did not come first.
Reads(item) ==
    /\ pc = "stream" /\ InTime /\ (steering => deferred)
    /\ at <= Len(reply) /\ item = reply[at]
    /\ at' = at + 1 /\ idle' = 0
    /\ UNCHANGED <<reply, emit, pc, emergency, steering, from, bad, finish, error, deferred, total, chain, result>>

\* forward: what has left the quarantine is remembered, and shown unless hidden.
Forward(text) ==
    /\ content' = content \o text
    /\ saved' = IF Retrying THEN saved ELSE saved \o text
    /\ shown' = IF Retrying \/ ~emit THEN shown ELSE shown \o text

ReadText ==
    /\ at \in DOMAIN reply /\ reply[at] \in Text
    /\ Reads(reply[at])
    /\ LET held == Append(pending, reply[at])
           n    == IF Len(held) > Lag THEN Len(held) - Lag ELSE 0
       IN  /\ Forward(SubSeq(held, 1, n))
           /\ pending' = SubSeq(held, n + 1, Len(held))
    /\ UNCHANGED <<native, textual, wrapper>>

ReadMarkup ==
    /\ Reads("markup")
    /\ textual' = textual + 1
    /\ UNCHANGED <<content, pending, native, wrapper, shown, saved>>

ReadWrapper ==
    /\ Reads("wrapper")
    /\ wrapper' = TRUE
    /\ UNCHANGED <<content, pending, native, textual, shown, saved>>

ReadCall ==
    /\ \/ Reads("call") /\ native' = "partial"
       \/ Reads("args") /\ native' = "whole"
    /\ UNCHANGED <<content, pending, textual, wrapper, shown, saved>>

\* A chunk of reasoning.  One without any output leaves the idle clock alone.
Reasons ==
    /\ pc = "stream" /\ InTime /\ (steering => deferred)
    /\ idle' = 0
    /\ UNCHANGED <<reply, emit, pc, emergency, steering, from, at, content, pending, native, textual,
                   wrapper, bad, finish, error, deferred, total, chain, output>>

Stops(reason, e) ==
    /\ pc' = "close"
    /\ finish' = reason /\ error' = e
    /\ UNCHANGED <<reply, emit, emergency, steering, from, at, content, pending, native, textual,
                   wrapper, deferred, idle, total, chain, output>>

\* The text repeats itself, echoes the conversation or is corrupted.
GoesBad ==
    /\ pc = "stream" /\ InTime /\ (steering => deferred)
    /\ bad' = TRUE
    /\ Stops("corrupted", "none")

\* A write_file too large for one response is cut while it is being written.
PreemptWrite ==
    /\ pc = "stream" /\ native = "partial"
    /\ Stops("write_preempted", "none") /\ UNCHANGED bad

(* The stream ends after the reply, or before: at the limit of the output, *)
(* or for no reason given.                                                 *)
StreamEnds ==
    /\ pc = "stream" /\ InTime /\ (steering => deferred)
    /\ \E reason \in IF at > Len(reply) THEN {"stop"} ELSE {"length", "none"} : Stops(reason, "none")
    /\ UNCHANGED bad

StreamBreaks ==
    /\ pc = "stream" /\ (steering => deferred)
    /\ \E e \in {"transient", "lasting"} : Stops("none", Reported(e))
    /\ UNCHANGED bad

TimesOut_Mutant ==      \* a provider that goes on reasoning has no limit
    /\ pc = "stream" /\ idle = IdleLimit
    /\ Stops("none", Reported("lasting")) /\ UNCHANGED bad

TimesOut ==
    /\ pc = "stream" /\ ~InTime
    /\ Stops("none", Reported("lasting")) /\ UNCHANGED bad

Tick ==
    /\ pc = "stream" /\ InTime
    /\ idle' = idle + 1 /\ total' = total + 1
    /\ UNCHANGED <<reply, emit, pc, emergency, steering, from, at, content, pending, native, textual,
                   wrapper, bad, finish, error, deferred, chain, output>>

(* The user types while the answer is coming.  The stream is cut, unless   *)
(* it has begun to write its reply and no tool call.                       *)
UserSteers ==
    /\ pc \in {"ask", "stream", "raised"} /\ ~steering
    /\ steering' = TRUE
    /\ UNCHANGED <<reply, emit, pc, emergency, request, chain, output>>

Writing == content \o pending # <<>> /\ native = "none"

SteeringDeferred ==
    /\ pc = "stream" /\ steering /\ ~deferred /\ Writing
    /\ deferred' = TRUE
    /\ UNCHANGED <<reply, emit, pc, emergency, steering, from, at, content, pending, native, textual,
                   wrapper, bad, finish, error, idle, total, chain, output>>

SteeringCuts ==
    /\ pc = "stream" /\ steering /\ ~deferred /\ ~Writing
    /\ Stops("live_steering", "none") /\ UNCHANGED bad

-----------------------------------------------------------------------------
(* The end of a stream                                                     *)

(* Calls written as JSON are taken out of the text that has left the       *)
(* quarantine; a broken completion keeps its tail to itself.               *)
WithoutJson(text) == Only(text, Text \ {"json"})
Broken == bad \/ wrapper
Kept   == IF Broken THEN WithoutJson(content) ELSE WithoutJson(content) \o pending
Times(n, item) == [i \in 1 .. n |-> item]
Calls  ==
    IF Broken THEN <<>>
    ELSE (IF native = "none" THEN <<>> ELSE <<native>>) \o Times(textual, "markup")
           \o Times(Cardinality({k \in DOMAIN content : content[k] = "json"}), "json")

(* _novel_continuation: the longest end of what is there that the          *)
(* continuation begins with is dropped from it, be it a repetition or not. *)
Novel_Mutant(existing, more) == more
Novel(existing, more) ==
    LET n == Max({k \in 0 .. Len(more) : k <= Len(existing) /\ k <= Window
                    /\ IsSuffix(SubSeq(more, 1, k), existing)})
    IN  SubSeq(more, n + 1, Len(more))

\* The tail of a broken stream is kept before its error is raised.
CloseWithError ==
    /\ pc = "close" /\ error # "none" /\ ~Broken
    /\ pc' = "raised"
    /\ Forward(pending)
    /\ UNCHANGED <<reply, emit, emergency, steering, from, at, pending, native, textual, wrapper, bad,
                   finish, error, deferred, idle, total, chain, result>>

CloseWithAnswer ==
    /\ pc = "close" /\ (error = "none" \/ Broken)
    /\ pc' = "done"
    /\ LET news == IF Retrying THEN Novel(durable, Kept)
                   ELSE IF Broken THEN <<>> ELSE pending
       IN  /\ saved' = saved \o news
           /\ shown' = IF emit THEN shown \o news ELSE shown
           /\ result' = [content |-> IF Retrying THEN durable \o news ELSE Kept,
                         calls   |-> Calls,
                         finish  |-> IF Broken THEN "corrupted" ELSE finish]
    /\ UNCHANGED <<reply, emit, emergency, steering, request, chain>>

-----------------------------------------------------------------------------
(* After a broken stream                                                   *)

\* Text that was shown is durable; that of a hidden attempt is forgotten.
Partial == IF Retrying THEN durable ELSE content

Reconnects == error = "transient" /\ attempt < MaxReconnects
FallsBack  == ~Reconnects /\ error # "fatal" /\ route < MaxRoutes

Resume ==
    /\ durable' = Partial
    /\ pc' = "ask" /\ emergency' = FALSE
    /\ UNCHANGED <<reply, emit, steering, request, shown, result>>

Reconnect ==
    /\ pc = "raised" /\ Reconnects
    /\ attempt' = attempt + 1
    /\ Resume
    /\ UNCHANGED <<route, saved>>

\* The next candidate starts from the partial answer, and so does the checkpoint.
FallBack ==
    /\ pc = "raised" /\ FallsBack
    /\ route' = route + 1 /\ attempt' = 0
    /\ Resume
    /\ saved' = Partial

GiveUp ==
    /\ pc = "raised" /\ ~Reconnects /\ ~FallsBack
    /\ pc' = "failed"
    /\ durable' = Partial
    /\ saved' = IF Partial # <<>> THEN Partial ELSE saved
    /\ UNCHANGED <<reply, emit, emergency, steering, request, route, attempt, shown, result>>

-----------------------------------------------------------------------------
Provider == ReadText \/ ReadMarkup \/ ReadWrapper \/ ReadCall \/ Reasons \/ GoesBad
              \/ PreemptWrite \/ StreamEnds \/ StreamBreaks \/ ContextRejected
Runner   == Ask \/ RequestFails \/ TimesOut \/ SteeringDeferred \/ SteeringCuts
              \/ CloseWithError \/ CloseWithAnswer \/ Reconnect \/ FallBack \/ GiveUp

StreamNext == Provider \/ Runner \/ UserSteers \/ Tick

(* The clocks run and the runner goes on; the wait for the first byte is   *)
(* bounded.  Nothing is asked of the provider or of the user.              *)
StreamSpec == StreamInit /\ [][StreamNext]_streamVars
FairStream == StreamSpec /\ WF_streamVars(Runner) /\ WF_streamVars(Tick)

-----------------------------------------------------------------------------
Prose(text) == Only(text, Letters)

(* What is shown and saved of an answer given in one stream: a beginning   *)
(* of the reply, all of it if the stream came to its end.                  *)
InOneStream ==
    /\ IsPrefix(Prose(saved), Prose(reply))
    /\ result.finish = "stop" => Prose(saved) = Prose(reply)

\* All that the attempt said again stands at the head of what is kept of it.
Repeated   == Says(from, Onward)
Recognized == IsPrefix(Repeated, Kept) /\ Len(Repeated) <= Window

(* What is shown and saved of an answer that was continued: the text that  *)
(* was there, and what the reply goes on with but for its first n letters, *)
(* which the attempt said after what it repeated and which with it spell   *)
(* an end of the text that was there.                                      *)
Continued ==
    LET rest == Prose(Says(Onward, Len(reply) + 1)) IN
    \E n \in 0 .. Len(rest) :
       LET all == Prose(durable) \o SubSeq(rest, n + 1, Len(rest)) IN
       /\ IsSuffix(Prose(Repeated) \o SubSeq(rest, 1, n), Prose(durable))
       /\ IsPrefix(Prose(saved), all)
       /\ result.finish = "stop" => Prose(saved) = all

(* "Reconnect without losing or duplicating text": however often the       *)
(* stream breaks, within a route or across routes, what is shown and saved *)
(* are the letters of one reply in order, each once, the answer handed on  *)
(* is what was shown, a finished one is the whole reply, and one that      *)
(* could not be finished is in the checkpoint as far as it was shown.  A   *)
(* continuation that got past what it repeats loses what happens to look   *)
(* like a repetition too, and no more.                                     *)
NothingLostOrRepeated ==
    /\ pc # "done" => IsPrefix(Prose(saved), Prose(reply))
    /\ emit => shown = saved
    /\ pc = "done" => Prose(result.content) = Prose(saved)
    /\ pc = "done" /\ ~Retrying => InOneStream
    /\ pc = "done" /\ Retrying /\ Recognized => Continued
    /\ pc = "failed" => durable = saved

(* What the model calls is run once and only as it was meant: no calls of  *)
(* a completion that broke or was found corrupt, none of an earlier        *)
(* attempt, and half a call only where the caller knows it was cut.        *)
CallsAreOfThisReply ==
    pc = "done" =>
      /\ error # "none" \/ result.finish = "corrupted" => result.calls = <<>>
      /\ result.finish = "stop" => "partial" \notin Range(result.calls)
      /\ IsInjective(result.calls)

(* A steering update does not cut a reply that is being written, as long   *)
(* as its stream did not break before.                                     *)
WrittenReplyIsNotCut ==
    (pc = "done" /\ result.finish = "live_steering" /\ native = "none" /\ ~Retrying)
      => result.content = <<>>

\* The user is shown one whole reply.
ReplyIsWhole == NothingLostOrRepeated /\ WrittenReplyIsNotCut

(* The request ends whatever the provider does: silence, keepalives,       *)
(* endless reasoning, streams that break again and again.                  *)
RequestEnds == <>(pc \in {"done", "failed"})

-----------------------------------------------------------------------------
(* What the code's comments say and the code does not do; the README       *)
(* quotes them.                                                            *)

(* A reply that was partly shown is never cut by a steering update: the    *)
(* deferral is forgotten by a reconnection.                                *)
ReplyIsNotCut ==
    (pc = "done" /\ result.finish = "live_steering" /\ native = "none") => result.content = <<>>

(* "Without losing": a continuation that begins with letters the text      *)
(* happens to end with loses them.                                         *)
NothingLost == pc = "done" /\ result.finish = "stop" => Prose(saved) = Prose(reply)

(* "Or duplicating text": a continuation that stops inside what it repeats *)
(* shows that part twice.                                                  *)
NothingRepeated == pc = "done" /\ Retrying => Continued

(* A call written as JSON is never handed on as an answer: one in the      *)
(* quarantined tail is not looked for.                                     *)
JsonIsNoAnswer == pc = "done" => "json" \notin Range(result.content)
=============================================================================
