---------------------------- MODULE ChatRequest ----------------------------
(***************************************************************************)
(* One chat request, from GenericRequestHandler to the release of its      *)
(* pooled context: the stages before the provider, the transport's retry   *)
(* loop, the answer of a unary call, and a stream with its producer        *)
(* goroutine, the bounded channel, the consumer that writes to the client, *)
(* and the idle timer on the upstream's body.                              *)
(*                                                                         *)
(* The upstream, the client and the clock are the environment: they may    *)
(* answer, break, disconnect or let a timer fire at any time their         *)
(* counterparts can.  A frame of the stream is a chunk, with the output    *)
(* tokens of its usage (0: it has none), a frame that does not parse, or   *)
(* the terminator [DONE]; lines the scanner skips are left out.            *)
(***************************************************************************)
EXTENDS Integers, Sequences, FiniteSets, SequencesExt, FiniteSetsExt

CONSTANTS
    MaxAttempts,  \* 1 + MaxRetries of the provider's network config
    ChanCap,      \* capacity of responseChan, 256 in the code
    MaxFrames,    \* bound on the frames of one response
    MaxTokens     \* bound on the output tokens a usage reports

ASSUME ChatAssumption ==
    /\ MaxAttempts \in Nat \ {0} /\ ChanCap \in Nat \ {0}
    /\ MaxFrames \in Nat /\ MaxTokens \in Nat

VARIABLES
    streaming,  \* req.IsStreaming()
    allow,      \* RetryAmbiguousStatus of the provider
    pc,         \* where the handler is
    attempt,    \* rctx.UpstreamAttempts
    reply,      \* the class of rctx.UpstreamStatus
    body,       \* the response body: "none", "open", "stalled", "closed"
    upstream,   \* what the upstream does: "silent", "open", "ended", "broken"
    wire,       \* frames it sent that the scanner has not returned
    producer,   \* where the stream's goroutine is
    held,       \* what it is about to send
    ch,         \* responseChan
    chClosed,
    cancelled,  \* rctx.Context() is done
    expired,    \* the context of a unary ServeHTTP is done
    gone,       \* the client closed its connection
    cur,        \* the chunk the consumer is writing
    usage,      \* rctx.Usage, as its output tokens; 0 is nil
    flags,      \* RequestCompleted, StreamAborted, Error
    charged,    \* what RecordHook charged
    events,     \* how often EventHook ran
    released,   \* the context is back in the pool
    sent,       \* history: the frames of this response
    client,     \* history: what was written to the client
    runs,       \* history: how often the upstream ran the model
    broken      \* history: a Do failed after the upstream had run the model

transport == <<attempt, reply, expired, runs, broken>>
stream == <<wire, producer, held, ch, chClosed>>
result == <<usage, flags, charged, events, released, client>>
env == <<upstream, sent, cancelled, gone>>
vars == <<streaming, allow, pc, transport, body, stream, cur, result, env>>

Frame(kind, tokens) == [kind |-> kind, tokens |-> tokens]
Chunks == [kind : {"chunk"}, tokens : 0..MaxTokens]
Bad == Frame("bad", 0)
Done == Frame("done", 0)
Err == Frame("error", 0)
Frames == Chunks \union {Bad, Done}
Messages == Chunks \union {Err}

-----------------------------------------------------------------------------
(* The handler up to the provider: each stage passes, or answers with an   *)
(* error and returns.                                                      *)

Stages == <<"auth", "body", "parse", "admission", "resolve", "price", "registry", "hooks">>
StageSet == {Stages[i] : i \in DOMAIN Stages}

Pass ==
    /\ pc \in StageSet
    /\ \E i \in DOMAIN Stages :
          /\ Stages[i] = pc
          /\ pc' = IF i = Len(Stages) THEN "chat" ELSE Stages[i + 1]
    /\ UNCHANGED <<streaming, allow, transport, body, stream, cur, result, env>>

(* writeErr, and where the handler goes from there. *)
WriteErr(next) ==
    /\ flags' = flags \union {"error"}
    /\ client' = Append(client, Err)
    /\ pc' = next
    /\ UNCHANGED <<usage, charged, events, released>>

Reject ==
    /\ pc \in StageSet
    /\ WriteErr("postcall")
    /\ UNCHANGED <<streaming, allow, transport, body, stream, cur, env>>

(* chatCompletion, to the first attempt; or no flusher, no payload, no     *)
(* client for the provider.                                                *)
Prepare ==
    /\ pc = "chat"
    /\ \/ pc' = "do" /\ attempt' = 1 /\ UNCHANGED result
       \/ WriteErr("postprovider") /\ UNCHANGED attempt
    /\ UNCHANGED <<streaming, allow, reply, expired, runs, broken, body, stream, cur, env>>

-----------------------------------------------------------------------------
(* ServeHTTP. *)

CtxDone == cancelled \/ expired

(* The deadline of a unary call. *)
Deadline ==
    /\ pc \in {"do", "backoff"} /\ ~streaming /\ ~expired
    /\ expired' = TRUE
    /\ UNCHANGED <<streaming, allow, pc, attempt, reply, runs, broken, body, stream, cur, result, env>>

(* Do returns an error: no connection, a reset or a header timeout after   *)
(* the request was sent, or the context.  It is retried unless the context *)
(* is done.                                                                *)
DoFails ==
    /\ pc = "do"
    /\ runs' \in {runs, runs + 1}
    /\ broken' = (broken \/ runs' > runs)
    /\ IF ~CtxDone /\ attempt < MaxAttempts
       THEN pc' = "backoff" /\ UNCHANGED result
       ELSE WriteErr("postprovider")
    /\ UNCHANGED <<streaming, allow, attempt, reply, expired, body, stream, cur, env>>

(* The classes of status: 200; 408 and 429; 502, 503 and 504; the others.  *)
Statuses == {"ok", "safe", "ambiguous", "other"}

RetryableAlways(status) == status \in {"safe", "ambiguous"}   \* mutant: the flag is ignored
Retryable(status) == status = "safe" \/ (status = "ambiguous" /\ allow)

(* Do returns a response.  Only a rejection is certain not to have run the *)
(* model.  A response that is not retried is handed to the provider, and   *)
(* "defer cancel()" then ends the context of a unary call.                 *)
DoAnswers(status) ==
    /\ pc = "do"
    /\ runs' \in IF status = "ok" THEN {runs + 1}
                 ELSE IF status = "safe" THEN {runs} ELSE {runs, runs + 1}
    /\ reply' = status
    /\ IF Retryable(status) /\ attempt < MaxAttempts
       THEN pc' = "backoff" /\ body' = "closed" /\ UNCHANGED <<upstream, expired>>
       ELSE /\ pc' = "reply" /\ body' = "open" /\ upstream' = "open"
            /\ expired' = (expired \/ ~streaming)
    /\ UNCHANGED <<streaming, allow, attempt, broken, stream, cur, result, sent, cancelled, gone>>

(* sleepBackoff: the timer, or the context. *)
Backoff ==
    /\ pc = "backoff"
    /\ \/ pc' = "do" /\ attempt' = attempt + 1 /\ UNCHANGED result
       \/ CtxDone /\ WriteErr("postprovider") /\ UNCHANGED attempt
    /\ UNCHANGED <<streaming, allow, reply, expired, runs, broken, body, stream, cur, env>>

-----------------------------------------------------------------------------
(* The provider's answer. *)

(* Not 200: the body is read and closed, and the error rendered. *)
ErrorReply ==
    /\ pc = "reply" /\ reply # "ok"
    /\ body' = "closed"
    /\ WriteErr("postprovider")
    /\ UNCHANGED <<streaming, allow, transport, stream, cur, env>>

(* HandleChatCompletion reads the body to its end, whatever its context    *)
(* has come to, and closes it; the response is sent as JSON.  That may     *)
(* fail, in Marshal or as the client is gone: rctx.JSON tells nobody, and  *)
(* the request is reported complete all the same.                          *)
UnaryReply(tokens) ==
    /\ pc = "reply" /\ reply = "ok" /\ ~streaming
    /\ upstream # "broken"
    /\ body' = "closed" /\ upstream' = "ended"
    /\ usage' = tokens
    /\ sent' = <<Frame("chunk", tokens), Done>>
    /\ client' \in {client, Append(client, Frame("chunk", tokens))}
    /\ flags' = flags \union {"completed"}
    /\ pc' = "postprovider"
    /\ UNCHANGED <<streaming, allow, transport, stream, cur, charged, events, released, cancelled, gone>>

(* ... or fails to: the connection broke, the body is too long or does not *)
(* parse, or the context is done and the rest of the body is not read.     *)
UnaryFails ==
    /\ pc = "reply" /\ reply = "ok" /\ ~streaming
    /\ upstream = "broken" \/ CtxDone
    /\ body' = "closed"
    /\ WriteErr("postprovider")
    /\ UNCHANGED <<streaming, allow, transport, stream, cur, env>>

(* HandleChatCompletionStream starts its goroutine, and chatCompletion     *)
(* sends the header.                                                       *)
StreamStarts ==
    /\ pc = "reply" /\ reply = "ok" /\ streaming
    /\ producer' = "scan"
    /\ pc' = "loop"
    /\ UNCHANGED <<streaming, allow, transport, body, wire, held, ch, chClosed, cur, result, env>>

-----------------------------------------------------------------------------
(* The producer. *)

Goroutine(next) ==
    /\ producer' = next
    /\ UNCHANGED <<streaming, allow, pc, transport, cur, result, env>>

(* Scan returns the next frame, also from what it had buffered when the    *)
(* body was closed.                                                        *)
ScanFrame ==
    /\ producer = "scan" /\ wire # <<>>
    /\ wire' = Tail(wire)
    /\ LET f == Head(wire) IN
       CASE f = Done -> Goroutine("close") /\ UNCHANGED held
         [] f = Bad  -> Goroutine("send") /\ held' = Err
         [] OTHER    -> Goroutine("send") /\ held' = f
    /\ UNCHANGED <<body, ch, chClosed>>

Unreadable == upstream = "broken" \/ body = "stalled" \/ cancelled

(* Scan returns false without [DONE]: the end of the body, or a read that  *)
(* fails.  The error is passed on unless the client has gone.              *)
ScanEnds ==
    /\ producer = "scan"
    /\ Unreadable \/ (wire = <<>> /\ upstream = "ended")
    /\ IF cancelled
       THEN Goroutine("close") /\ UNCHANGED held
       ELSE Goroutine("send") /\ held' = Err
    /\ UNCHANGED <<body, wire, ch, chClosed>>

(* The select of the send and of emitError, after which it returns. *)
Send ==
    /\ producer = "send"
    /\ \/ /\ Len(ch) < ChanCap
          /\ ch' = Append(ch, held)
          /\ Goroutine(IF held = Err THEN "close" ELSE "scan")
       \/ cancelled /\ Goroutine("close") /\ UNCHANGED ch
    /\ UNCHANGED <<body, wire, held, chClosed>>

(* The deferred calls: the body, and then the channel. *)
CloseStream ==
    /\ producer = "close"
    /\ Goroutine("exited")
    /\ body' = "closed" /\ chClosed' = TRUE
    /\ UNCHANGED <<wire, held, ch>>

Producer == ScanFrame \/ ScanEnds \/ Send \/ CloseStream

(* Mutant: the timer is armed by the first read only. *)
IdleFiresLate ==
    /\ body = "open" /\ sent # <<>>
    /\ \/ producer = "scan" /\ wire = <<>>
       \/ producer = "send" /\ Len(ch) = ChanCap
    /\ body' = "stalled"
    /\ UNCHANGED <<streaming, allow, pc, transport, stream, cur, result, env>>

(* The timer of streamTimeoutBody, which a Read that returns data sets     *)
(* again: no Read has done so for its time, as the upstream is silent, or  *)
(* as the producer waits for room in the channel and does not read.        *)
IdleFires ==
    /\ body = "open"
    /\ \/ producer = "scan" /\ wire = <<>>
       \/ producer = "send" /\ Len(ch) = ChanCap
    /\ body' = "stalled"
    /\ UNCHANGED <<streaming, allow, pc, transport, stream, cur, result, env>>

-----------------------------------------------------------------------------
(* The consumer: chatCompletion's loop over the channel. *)

Consumer == UNCHANGED <<streaming, allow, transport, body, wire, producer, held, chClosed, env>>

(* Mutant: the last usage that was reported counts. *)
SeenUsageLast(tokens) == IF tokens > 0 THEN tokens ELSE usage

(* The usage with the most output tokens counts. *)
SeenUsage(tokens) == IF tokens > 0 /\ tokens >= usage THEN tokens ELSE usage

(* Where the loop goes to abandon the stream: awaitStreamEnd. *)
Abandon(flag) == flags' = flags \union {flag} /\ pc' = "drain"

Receive ==
    /\ pc = "loop" /\ ch # <<>>
    /\ ch' = Tail(ch)
    /\ LET c == Head(ch) IN
       IF cancelled
       THEN Abandon("aborted") /\ UNCHANGED <<cur, usage>>
       ELSE /\ cur' = c
            /\ usage' = SeenUsage(c.tokens)
            /\ pc' = "write"
            /\ UNCHANGED flags
    /\ UNCHANGED <<charged, events, released, client>>
    /\ Consumer

(* Mutant: the loop goes on after an error. *)
WriteErrorContinues ==
    /\ pc = "write"
    /\ client' = Append(client, cur)
    /\ pc' = "loop"
    /\ flags' = flags \union (IF cur = Err THEN {"error"} ELSE {})
    /\ UNCHANGED <<ch, cur, usage, charged, events, released>>
    /\ Consumer

(* writeSSE: an error ends the loop whether or not it is written; a chunk  *)
(* whose write fails does too.                                             *)
WriteChunk ==
    /\ pc = "write"
    /\ \/ client' = Append(client, cur)
          /\ IF cur = Err THEN Abandon("error") ELSE pc' = "loop" /\ UNCHANGED flags
       \/ gone /\ Abandon(IF cur = Err THEN "error" ELSE "aborted") /\ UNCHANGED client
    /\ UNCHANGED <<ch, cur, usage, charged, events, released>>
    /\ Consumer

(* Mutant: the stream is abandoned without waiting for its goroutine. *)
DrainNothing ==
    /\ pc = "drain"
    /\ pc' = "postprovider"
    /\ UNCHANGED <<ch, cur, result>>
    /\ Consumer

(* awaitStreamEnd: what is left in the channel is thrown away, with its    *)
(* usage, until the channel is closed.                                     *)
Drain ==
    /\ pc = "drain"
    /\ \/ ch # <<>> /\ ch' = Tail(ch) /\ UNCHANGED pc
       \/ ch = <<>> /\ chClosed /\ pc' = "postprovider" /\ UNCHANGED ch
    /\ UNCHANGED <<cur, result>>
    /\ Consumer

(* Mutant: the context is not looked at after the loop. *)
LoopEndsUnchecked ==
    /\ pc = "loop" /\ ch = <<>> /\ chClosed
    /\ pc' = "terminate"
    /\ UNCHANGED <<ch, cur, result>>
    /\ Consumer

(* The channel is closed and empty: the client has gone, or the stream is  *)
(* complete.                                                               *)
LoopEnds ==
    /\ pc = "loop" /\ ch = <<>> /\ chClosed
    /\ IF cancelled
       THEN flags' = flags \union {"aborted"} /\ pc' = "postprovider"
       ELSE pc' = "terminate" /\ UNCHANGED flags
    /\ UNCHANGED <<ch, cur, usage, charged, events, released, client>>
    /\ Consumer

(* StreamDone *)
Terminate ==
    /\ pc = "terminate"
    /\ \/ client' = Append(client, Done) /\ flags' = flags \union {"completed"}
       \/ gone /\ flags' = flags \union {"aborted"} /\ UNCHANGED client
    /\ pc' = "postprovider"
    /\ UNCHANGED <<ch, cur, usage, charged, events, released>>
    /\ Consumer

-----------------------------------------------------------------------------
(* The deferred calls of GenericRequestHandler, last one first. *)

(* RecordHook, with the cost that price made of the usage. *)
PostProvider ==
    /\ pc = "postprovider"
    /\ charged' = charged + usage
    /\ pc' = "postcall"
    /\ UNCHANGED <<streaming, allow, transport, body, stream, cur, usage, flags, events, released, client, env>>

(* EventHook, the log line, and Release, which clears the context.         *)
PostCall ==
    /\ pc = "postcall"
    /\ events' = events + 1
    /\ released' = TRUE
    /\ pc' = "done"
    /\ UNCHANGED <<streaming, allow, transport, body, stream, cur, usage, flags, charged, client, env>>

Handler ==
    \/ Pass \/ Reject \/ Prepare \/ DoFails \/ (\E s \in Statuses : DoAnswers(s)) \/ Backoff
    \/ ErrorReply \/ (\E k \in 0..MaxTokens : UnaryReply(k)) \/ UnaryFails \/ StreamStarts
    \/ Receive \/ WriteChunk \/ Drain \/ LoopEnds \/ Terminate
    \/ PostProvider \/ PostCall

-----------------------------------------------------------------------------
(* The environment. *)

World == UNCHANGED <<streaming, allow, pc, transport, body, producer, held, ch, chClosed, cur, result>>

(* The upstream sends a frame of the stream; [DONE] is its last one. *)
UpstreamSends(f) ==
    /\ streaming /\ upstream = "open" /\ reply = "ok" /\ Len(sent) < MaxFrames
    /\ ~Contains(sent, Done)
    /\ sent' = Append(sent, f) /\ wire' = Append(wire, f)
    /\ UNCHANGED <<upstream, cancelled, gone>>
    /\ World

(* It ends its body, or the connection breaks. *)
UpstreamEnds ==
    /\ upstream = "open"
    /\ upstream' \in {"ended", "broken"}
    /\ UNCHANGED <<wire, sent, cancelled, gone>>
    /\ World

(* The client closes its connection; the server, or Shutdown's cancelBase, *)
(* cancels the context.                                                    *)
ClientLeaves ==
    /\ ~gone /\ pc # "done"
    /\ gone' = TRUE
    /\ UNCHANGED <<wire, upstream, sent, cancelled>>
    /\ World

Cancel ==
    /\ ~cancelled /\ pc # "done"
    /\ cancelled' = TRUE
    /\ UNCHANGED <<wire, upstream, sent, gone>>
    /\ World

Init ==
    /\ streaming \in BOOLEAN /\ allow \in BOOLEAN
    /\ pc = Stages[1]
    /\ attempt = 0 /\ reply = "none" /\ body = "none"
    /\ upstream = "silent" /\ wire = <<>>
    /\ producer = "none" /\ held = Err /\ ch = <<>> /\ chClosed = FALSE
    /\ cancelled = FALSE /\ expired = FALSE /\ gone = FALSE
    /\ cur = Err /\ usage = 0 /\ flags = {} /\ charged = 0 /\ events = 0
    /\ released = FALSE /\ sent = <<>> /\ client = <<>> /\ runs = 0 /\ broken = FALSE

Next ==
    \/ Handler \/ Producer
    \/ Deadline \/ IdleFires
    \/ \E f \in Frames : UpstreamSends(f)
    \/ UpstreamEnds \/ ClientLeaves \/ Cancel

Spec == Init /\ [][Next]_vars

(* Both goroutines run on.  Timers fire: the deadline of a unary call, the *)
(* response header timeout that ends a Do, and the idle timer of a stream. *)
(* A client reads what is written to it, or leaves, which fails the write: *)
(* the server sets no write timeout, so this is asked of the client.       *)
FairSpec == Spec /\ WF_vars(Handler) /\ WF_vars(Producer) /\ WF_vars(IdleFires)

-----------------------------------------------------------------------------
(* Properties. *)

(* Every variable has the type its Go counterpart gives it, and the        *)
(* channel stays within its capacity.                                      *)
TypeOK ==
    /\ {streaming, allow, chClosed, cancelled, expired, gone, released, broken} \subseteq BOOLEAN
    /\ pc \in StageSet \union {"chat", "do", "backoff", "reply", "loop", "write", "drain",
                               "terminate", "postprovider", "postcall", "done"}
    /\ attempt \in 0..MaxAttempts /\ runs \in 0..MaxAttempts
    /\ reply \in Statuses \union {"none"}
    /\ body \in {"none", "open", "stalled", "closed"}
    /\ upstream \in {"silent", "open", "ended", "broken"}
    /\ wire \in Seq(Frames) /\ sent \in Seq(Frames)
    /\ producer \in {"none", "scan", "send", "close", "exited"}
    /\ held \in Messages /\ cur \in Messages
    /\ ch \in Seq(Messages) /\ Len(ch) <= ChanCap
    /\ client \in Seq(Messages \union {Done})
    /\ usage \in 0..MaxTokens /\ charged \in 0..MaxTokens /\ events \in 0..1
    /\ flags \subseteq {"completed", "aborted", "error"}

(* The pooled context is not cleared and handed to another request while   *)
(* the stream's goroutine, which reads its context, still runs.            *)
ContextHeld == released => producer \in {"none", "close", "exited"}

(* Every response body is closed by the time the request is over: no       *)
(* connection to an upstream leaks, whichever way the request ended.       *)
BodiesClosed == pc = "done" => body # "open"

(* The client's frames are the upstream's, one for one and in their order, *)
(* none twice and none left out, and nothing follows an error or a         *)
(* terminator.                                                             *)
ClientSeesPrefix ==
    \A i \in DOMAIN client :
        IF client[i].kind = "chunk" THEN i \in DOMAIN sent /\ client[i] = sent[i]
        ELSE i = Len(client)

(* The model runs twice for one request only where the operator asked for  *)
(* ambiguous statuses to be retried, or a connection broke after it ran.   *)
RunsOnce == runs > 1 => allow \/ broken

(* The request's state is sound: types, the context outlives its reader,   *)
(* no body is left open, the client sees a prefix of what the upstream     *)
(* sent, and nothing is run twice unasked.                                 *)
ChatInv == TypeOK /\ ContextHeld /\ BodiesClosed /\ ClientSeesPrefix /\ RunsOnce

(* A request is reported complete only when the upstream sent its whole    *)
(* answer with the terminator, and a stream only when all of that was      *)
(* written to the client, frame for frame: one that was cut short, by any  *)
(* of five parties, is never taken for a whole one.  Whether the answer of *)
(* a unary call was written is not known to the code that reports it.      *)
CompleteIsWhole ==
    "completed" \in flags
        => /\ sent # <<>> /\ Last(sent) = Done
           /\ streaming => client = sent

Tokens(s) == {s[i].tokens : i \in DOMAIN s} \union {0}

(* What is charged is a usage that the upstream reported, or nothing when  *)
(* it reported none, and never less than a chunk the client was sent says: *)
(* neither a usage that shrinks nor a cut stream makes a request cheaper.  *)
ChargedAsReported ==
    pc = "done" => /\ charged \in Tokens(sent)
                   /\ \A t \in Tokens(client) : t <= charged

(* Every request comes to its end, and so does its goroutine, although the *)
(* upstream may fall silent and the client may leave at any time.          *)
RequestEnds == <>(pc = "done" /\ producer \in {"none", "exited"})
=============================================================================
