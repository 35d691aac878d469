------------------------- MODULE ChatRequestProofs -------------------------
(***************************************************************************)
(* Proofs about ChatRequest, for any number of attempts, frames and tokens *)
(* and any capacity of the channel: the invariant of a request, and that   *)
(* what it reports and charges agrees with what the upstream sent.         *)
(***************************************************************************)
EXTENDS ChatRequest, TLAPS

Opening == StageSet \union {"chat", "do", "backoff", "reply"}
Writing == {"loop", "write", "terminate"}
Closing == {"postprovider", "postcall", "done"}

(* The retry loop: what has run so far was rejected, or may run again.     *)
AttemptsInv ==
    /\ runs <= attempt
    /\ pc \in StageSet \union {"chat"} => attempt = 0
    /\ pc = "do" => runs < attempt
    /\ pc = "backoff" => attempt < MaxAttempts
    /\ (pc \in {"do", "backoff"} /\ runs > 0) => (allow \/ broken)
    /\ RunsOnce

(* Where the handler is, where the stream's goroutine is.                  *)
ControlInv ==
    /\ (pc \in Opening \/ ~streaming) => producer = "none"
    /\ pc \in {"loop", "write", "drain", "terminate"} => streaming /\ producer # "none"
    /\ pc \in Closing \union {"terminate"} => producer \in {"none", "exited"}
    /\ producer = "none" => ch = <<>> /\ ~chClosed
    /\ chClosed => producer = "exited"
    /\ (reply = "ok" /\ pc \in Opening) => pc = "reply"
    /\ released => pc = "done"
    /\ events = IF pc = "done" THEN 1 ELSE 0

(* A body is open at the reply, and until its goroutine has ended.         *)
BodyInv ==
    /\ producer = "exited" => body = "closed"
    /\ (producer = "none" /\ pc # "reply") => body \in {"none", "closed"}

(* The wire holds the end of what was sent; [DONE] is the last frame.      *)
Scanned == Len(sent) - Len(wire)
WireInv ==
    /\ Len(wire) <= Len(sent)
    /\ \A i \in DOMAIN wire : wire[i] = sent[Scanned + i]
    /\ \A i \in DOMAIN sent : sent[i] = Done => i = Len(sent)
    /\ ~streaming => wire = <<>>
    /\ (streaming /\ producer = "none") => Len(wire) = Len(sent)
    /\ (pc \in Opening /\ ~streaming) => sent = <<>>

(* What has left the channel, and the place in sent of what follows it.    *)
Taken == Len(client) + (IF pc = "write" THEN 1 ELSE 0)
Ahead == Taken + Len(ch)
Failed == (pc = "write" /\ cur = Err) \/ \E i \in DOMAIN ch : ch[i] = Err

(* While the loop runs, the client, the consumer, the channel and the      *)
(* producer hold the frames of sent one after the other; an error ends     *)
(* them; and a producer that stopped without one and without being         *)
(* cancelled has seen [DONE].                                              *)
PipelineInv ==
    pc \in {"loop", "write"} =>
        /\ \A i \in DOMAIN ch :
              IF ch[i] = Err THEN i = Len(ch)
              ELSE Taken + i \in DOMAIN sent /\ ch[i] = sent[Taken + i]
        /\ (pc = "write" /\ cur # Err) => Taken \in DOMAIN sent /\ cur = sent[Taken]
        /\ (pc = "write" /\ cur = Err) => ch = <<>>
        /\ Failed => producer \in {"close", "exited"}
        /\ producer = "scan" => Scanned = Ahead
        /\ (producer = "send" /\ held # Err) =>
              Scanned = Ahead + 1 /\ Ahead + 1 \in DOMAIN sent /\ held = sent[Ahead + 1]
        /\ producer \in {"close", "exited"} =>
              \/ cancelled \/ Failed
              \/ Ahead + 1 \in DOMAIN sent /\ sent[Ahead + 1] = Done

(* What the client was sent, before and after the loop.                    *)
ClientInv ==
    /\ ClientSeesPrefix
    /\ pc \in Opening => client = <<>> /\ flags = {}
    /\ pc \in Writing => \A i \in DOMAIN client : client[i].kind = "chunk"
    /\ pc = "terminate" => Len(sent) = Len(client) + 1 /\ Last(sent) = Done
    /\ "completed" \in flags => pc \in Closing
    /\ CompleteIsWhole

(* The usage is one the upstream reported, and the largest so far.         *)
UsageInv ==
    /\ usage \in Tokens(sent)
    /\ \A i \in DOMAIN client : client[i].tokens <= usage
    /\ pc = "write" => cur.tokens <= usage
    /\ pc \in Opening => usage = 0
    /\ charged = IF pc \in {"postcall", "done"} THEN usage ELSE 0

IInv ==
    /\ TypeOK /\ AttemptsInv /\ ControlInv /\ BodyInv
    /\ WireInv /\ PipelineInv /\ ClientInv /\ UsageInv

-----------------------------------------------------------------------------
(* Facts about the constants. *)

(* Of the frames, the proofs need only that their kinds are apart and what *)
(* tokens they carry.                                                      *)
LEMMA FrameFacts ==
    /\ Err \in Messages /\ Err \notin Chunks /\ Err.kind # "chunk" /\ Err.tokens = 0
    /\ Done \in Frames /\ Done \notin Chunks /\ Done.kind # "chunk" /\ Done.tokens = 0
    /\ Bad \in Frames /\ Err # Done
    /\ Frames = Chunks \union {Bad, Done} /\ Messages = Chunks \union {Err}
    /\ \A c \in Chunks : c.kind = "chunk" /\ c.tokens \in 0..MaxTokens
    /\ \A f \in Frames : f.tokens \in 0..MaxTokens /\ (f.kind = "chunk" <=> f \in Chunks)
    /\ \A k \in 0..MaxTokens : Frame("chunk", k) \in Chunks /\ Frame("chunk", k).tokens = k
  BY ChatAssumption DEF Chunks, Frames, Messages, Err, Done, Bad, Frame

(* The stages by name, and that Pass goes to one of them or to the chat.   *)
LEMMA StageFacts ==
    /\ StageSet = {"auth", "body", "parse", "admission", "resolve", "price", "registry", "hooks"}
    /\ Pass => pc' \in StageSet \union {"chat"}
  BY DEF StageSet, Stages, Pass

-----------------------------------------------------------------------------
(* TypeOK in three parts, which different provers' theories decide.        *)

TypeControl ==
    /\ {streaming, allow, chClosed, cancelled, expired, gone, released, broken} \subseteq BOOLEAN
    /\ pc \in StageSet \union {"chat", "do", "backoff", "reply", "loop", "write", "drain",
                               "terminate", "postprovider", "postcall", "done"}
    /\ reply \in Statuses \union {"none"}
    /\ body \in {"none", "open", "stalled", "closed"}
    /\ upstream \in {"silent", "open", "ended", "broken"}
    /\ producer \in {"none", "scan", "send", "close", "exited"}
    /\ flags \subseteq {"completed", "aborted", "error"}
TypeNumbers ==
    /\ attempt \in 0..MaxAttempts /\ runs \in 0..MaxAttempts
    /\ usage \in 0..MaxTokens /\ charged \in 0..MaxTokens /\ events \in 0..1
TypeData ==
    /\ wire \in Seq(Frames) /\ sent \in Seq(Frames)
    /\ held \in Messages /\ cur \in Messages
    /\ ch \in Seq(Messages) /\ Len(ch) <= ChanCap
    /\ client \in Seq(Messages \union {Done})

LEMMA TypeParts == TypeOK <=> TypeControl /\ TypeNumbers /\ TypeData
  BY DEF TypeOK, TypeControl, TypeNumbers, TypeData

LEMMA ControlTyped == ASSUME TypeControl, Next PROVE TypeControl'
  <1> USE StageFacts DEF TypeControl, transport, stream, result, env, WriteErr, Abandon, Consumer, World, Goroutine
  <1>1. CASE Pass \/ Reject \/ Prepare \/ DoFails \/ Backoff
    <2>1. CASE Pass \/ Reject \/ Prepare
      BY <2>1 DEF Pass, Reject, Prepare
    <2>2. CASE DoFails
      BY <2>2 DEF DoFails
    <2>3. CASE Backoff
      BY <2>3 DEF Backoff
    <2> QED
      BY <1>1, <2>1, <2>2, <2>3
  <1>2. ASSUME NEW st \in Statuses, DoAnswers(st) PROVE TypeControl'
    BY <1>2 DEF DoAnswers, Statuses
  <1>3. CASE ErrorReply \/ UnaryFails \/ StreamStarts
    BY <1>3 DEF ErrorReply, UnaryFails, StreamStarts
  <1>4. ASSUME NEW k \in 0..MaxTokens, UnaryReply(k) PROVE TypeControl'
    BY <1>4 DEF UnaryReply
  <1>5. CASE Receive \/ WriteChunk
    BY <1>5 DEF Receive, WriteChunk
  <1>6. CASE Drain \/ LoopEnds \/ Terminate \/ PostProvider \/ PostCall
    BY <1>6 DEF Drain, LoopEnds, Terminate, PostProvider, PostCall
  <1>7. CASE Producer
    BY <1>7 DEF Producer, ScanFrame, ScanEnds, Send, CloseStream
  <1>8. CASE Deadline \/ IdleFires \/ UpstreamEnds \/ ClientLeaves \/ Cancel
    BY <1>8 DEF Deadline, IdleFires, UpstreamEnds, ClientLeaves, Cancel
  <1>9. ASSUME NEW f \in Frames, UpstreamSends(f) PROVE TypeControl'
    BY <1>9 DEF UpstreamSends
  <1> QED
    BY <1>1, <1>2, <1>3, <1>4, <1>5, <1>6, <1>7, <1>8, <1>9 DEF Next, Handler

LEMMA NumbersTyped == ASSUME IInv, Next PROVE TypeNumbers'
  <1>t. TypeNumbers /\ AttemptsInv /\ ControlInv /\ UsageInv /\ TypeData
    BY TypeParts DEF IInv
  <1> USE <1>t, ChatAssumption DEF TypeNumbers, transport, stream, result, env, WriteErr, Consumer, World, Goroutine
  <1>1. CASE Pass \/ Reject \/ Prepare \/ DoFails \/ Backoff
    BY <1>1 DEF Pass, Reject, Prepare, DoFails, Backoff, AttemptsInv
  <1>2. ASSUME NEW st \in Statuses, DoAnswers(st) PROVE TypeNumbers'
    BY <1>2 DEF DoAnswers, AttemptsInv
  <1>3. CASE ErrorReply \/ UnaryFails \/ StreamStarts
    BY <1>3 DEF ErrorReply, UnaryFails, StreamStarts
  <1>4. ASSUME NEW k \in 0..MaxTokens, UnaryReply(k) PROVE TypeNumbers'
    BY <1>4 DEF UnaryReply
  <1>5. CASE Receive
    <2>1. usage' = usage \/ usage' = Head(ch).tokens
      BY <1>5 DEF Receive, SeenUsage
    <2>2. ch # <<>> /\ UNCHANGED <<charged, events, attempt, runs>>
      BY <1>5 DEF Receive
    <2>3. Head(ch) \in Messages
      BY <2>2 DEF TypeData
    <2>4. Head(ch).tokens \in 0..MaxTokens
      BY <2>3, FrameFacts
    <2> QED
      BY <2>1, <2>2, <2>4
  <1>6. CASE WriteChunk \/ Drain \/ LoopEnds \/ Terminate \/ PostProvider \/ PostCall
    BY <1>6 DEF WriteChunk, Drain, LoopEnds, Terminate, PostProvider, PostCall, UsageInv, ControlInv
  <1>7. CASE Producer
    BY <1>7 DEF Producer, ScanFrame, ScanEnds, Send, CloseStream
  <1>8. CASE Deadline \/ IdleFires \/ UpstreamEnds \/ ClientLeaves \/ Cancel
    BY <1>8 DEF Deadline, IdleFires, UpstreamEnds, ClientLeaves, Cancel
  <1>9. ASSUME NEW f \in Frames, UpstreamSends(f) PROVE TypeNumbers'
    BY <1>9 DEF UpstreamSends
  <1> QED
    BY <1>1, <1>2, <1>3, <1>4, <1>5, <1>6, <1>7, <1>8, <1>9 DEF Next, Handler

LEMMA DataTyped == ASSUME TypeData, Next PROVE TypeData'
  <1>c. ASSUME NEW m \in Messages \union {Done}
        PROVE  Append(client, m) \in Seq(Messages \union {Done})
    BY DEF TypeData
  <1>m. {Err, cur, Done} \subseteq Messages \union {Done}
    BY FrameFacts DEF TypeData
  <1>w. ASSUME UNCHANGED <<wire, sent, held, cur, ch>>,
               client' = client \/ \E m \in {Err, cur, Done} : client' = Append(client, m)
        PROVE  TypeData'
    BY <1>c, <1>m, <1>w DEF TypeData
  <1> USE DEF transport, stream, result, env, WriteErr, Consumer, World, Goroutine
  <1>1. CASE Pass \/ Reject \/ Prepare \/ DoFails \/ Backoff
    BY <1>1, <1>w DEF Pass, Reject, Prepare, DoFails, Backoff
  <1>2. ASSUME NEW st \in Statuses, DoAnswers(st) PROVE TypeData'
    BY <1>2, <1>w DEF DoAnswers
  <1>3. CASE ErrorReply \/ UnaryFails \/ StreamStarts
    BY <1>3, <1>w DEF ErrorReply, UnaryFails, StreamStarts
  <1>4. ASSUME NEW k \in 0..MaxTokens, UnaryReply(k) PROVE TypeData'
    <2>1. /\ client' = client \/ client' = Append(client, Frame("chunk", k))
          /\ sent' = <<Frame("chunk", k), Done>> /\ UNCHANGED <<wire, held, ch, cur>>
      BY <1>4 DEF UnaryReply
    <2>2. /\ wire \in Seq(Frames) /\ held \in Messages /\ cur \in Messages /\ ch \in Seq(Messages)
          /\ Len(ch) <= ChanCap /\ client \in Seq(Messages \union {Done})
      BY DEF TypeData
    <2>3. Frame("chunk", k) \in Messages \union {Done} /\ Frame("chunk", k) \in Frames /\ Done \in Frames
      BY FrameFacts DEF Frames, Messages, Chunks, Frame
    <2>4. client' \in Seq(Messages \union {Done})
      BY <1>c, <2>1, <2>2, <2>3
    <2>5. sent' \in Seq(Frames)
      BY <2>1, <2>3
    <2> QED
      BY <2>1, <2>2, <2>4, <2>5 DEF TypeData
  <1>5. CASE Receive
    <2>1. /\ ch # <<>> /\ ch' = Tail(ch) /\ (cur' = cur \/ cur' = Head(ch))
          /\ UNCHANGED <<wire, sent, held, client>>
      BY <1>5 DEF Receive
    <2> QED
      BY <2>1, ChatAssumption DEF TypeData
  <1>6. CASE WriteChunk \/ LoopEnds \/ Terminate \/ PostProvider \/ PostCall
    BY <1>6, <1>w DEF WriteChunk, LoopEnds, Terminate, PostProvider, PostCall
  <1>7. CASE Drain
    <2>1. (ch' = ch \/ (ch # <<>> /\ ch' = Tail(ch))) /\ UNCHANGED <<wire, sent, held, cur, client>>
      BY <1>7 DEF Drain
    <2>2. CASE ch' = ch
      BY <2>1, <2>2 DEF TypeData
    <2>3. CASE ch # <<>> /\ ch' = Tail(ch)
      BY <2>1, <2>3, ChatAssumption DEF TypeData
    <2> QED
      BY <2>1, <2>2, <2>3
  <1>8. CASE ScanFrame \/ ScanEnds \/ CloseStream
    <2>1. CASE ScanFrame
      <3>1. wire # <<>> /\ wire' = Tail(wire) /\ UNCHANGED <<sent, cur, ch, client>>
        BY <2>1 DEF ScanFrame
      <3>2. held' = held \/ held' = Err
                \/ (Head(wire) # Bad /\ Head(wire) # Done /\ held' = Head(wire))
        BY <2>1 DEF ScanFrame
      <3>3. wire' \in Seq(Frames) /\ Head(wire) \in Frames
        BY <3>1 DEF TypeData
      <3> QED
        BY <3>1, <3>2, <3>3, FrameFacts DEF TypeData
    <2>2. CASE ScanEnds \/ CloseStream
      BY <2>2, FrameFacts DEF ScanEnds, CloseStream, TypeData
    <2> QED
      BY <1>8, <2>1, <2>2
  <1>9. CASE Send
    <2>1. /\ ch' = ch \/ (Len(ch) < ChanCap /\ ch' = Append(ch, held))
          /\ UNCHANGED <<wire, sent, held, cur, client>>
      BY <1>9 DEF Send
    <2>2. CASE ch' = ch
      BY <2>1, <2>2 DEF TypeData
    <2>3. CASE Len(ch) < ChanCap /\ ch' = Append(ch, held)
      BY <2>1, <2>3, ChatAssumption DEF TypeData
    <2> QED
      BY <2>1, <2>2, <2>3
  <1>10. CASE Deadline \/ IdleFires \/ UpstreamEnds \/ ClientLeaves \/ Cancel
    BY <1>10, <1>w DEF Deadline, IdleFires, UpstreamEnds, ClientLeaves, Cancel
  <1>11. ASSUME NEW f \in Frames, UpstreamSends(f) PROVE TypeData'
    BY <1>11 DEF UpstreamSends, TypeData
  <1> QED
    BY <1>1, <1>2, <1>3, <1>4, <1>5, <1>6, <1>7, <1>8, <1>9, <1>10, <1>11 DEF Next, Handler, Producer

-----------------------------------------------------------------------------
(* The retry loop. *)

LEMMA AttemptsInductive == ASSUME IInv, Next PROVE AttemptsInv'
  <1>t. TypeNumbers /\ AttemptsInv /\ allow \in BOOLEAN /\ broken \in BOOLEAN
    BY TypeParts DEF IInv, TypeControl
  <1>u. ASSUME UNCHANGED <<attempt, runs, allow, broken>>, pc' \notin {"do", "backoff"},
               pc' \in StageSet \union {"chat"} => attempt = 0
        PROVE  AttemptsInv'
    BY <1>t, <1>u DEF AttemptsInv, RunsOnce
  <1>v. ASSUME UNCHANGED <<attempt, runs, allow, broken, pc>> PROVE AttemptsInv'
    BY <1>t, <1>v DEF AttemptsInv, RunsOnce
  <1> USE <1>t, ChatAssumption DEF transport, stream, result, env, WriteErr, Consumer, World, Goroutine, Abandon
  <1>1. CASE Pass \/ Reject
    BY <1>1, <1>u, StageFacts DEF Pass, Reject, AttemptsInv
  <1>2. CASE Prepare
    BY <1>2, StageFacts DEF Prepare, AttemptsInv, TypeNumbers, RunsOnce
  <1>3. CASE DoFails
    <2>1. /\ pc = "do" /\ UNCHANGED <<attempt, allow>>
          /\ (pc' = "backoff" /\ attempt < MaxAttempts) \/ pc' = "postprovider"
      BY <1>3 DEF DoFails
    <2>2. runs' = runs \/ (runs' = runs + 1 /\ runs' > runs)
      BY <1>3 DEF DoFails, TypeNumbers
    <2>3. broken \/ runs' > runs => broken'
      BY <1>3, Zenon DEF DoFails
    <2> QED
      BY <2>1, <2>2, <2>3, StageFacts DEF AttemptsInv, TypeNumbers, RunsOnce
  <1>4. CASE Backoff
    BY <1>4, StageFacts DEF Backoff, AttemptsInv, TypeNumbers, RunsOnce
  <1>5. ASSUME NEW st \in Statuses, DoAnswers(st) PROVE AttemptsInv'
    BY <1>5, StageFacts DEF DoAnswers, Statuses, Retryable, AttemptsInv, TypeNumbers, RunsOnce
  <1>6. CASE ErrorReply \/ UnaryFails \/ StreamStarts
    BY <1>6, <1>u, StageFacts DEF ErrorReply, UnaryFails, StreamStarts
  <1>7. ASSUME NEW k \in 0..MaxTokens, UnaryReply(k) PROVE AttemptsInv'
    BY <1>7, <1>u, StageFacts DEF UnaryReply
  <1>8. CASE Receive \/ WriteChunk \/ Drain
    BY <1>8, <1>u, StageFacts DEF Receive, WriteChunk, Drain
  <1>9. CASE LoopEnds \/ Terminate \/ PostProvider \/ PostCall
    BY <1>9, <1>u, StageFacts DEF LoopEnds, Terminate, PostProvider, PostCall
  <1>10. CASE Producer \/ Deadline \/ IdleFires \/ UpstreamEnds \/ ClientLeaves \/ Cancel
    BY <1>10, <1>v DEF Producer, ScanFrame, ScanEnds, Send, CloseStream, Deadline, IdleFires,
                       UpstreamEnds, ClientLeaves, Cancel
  <1>11. ASSUME NEW f \in Frames, UpstreamSends(f) PROVE AttemptsInv'
    BY <1>11, <1>v DEF UpstreamSends
  <1> QED
    BY <1>1, <1>2, <1>3, <1>4, <1>5, <1>6, <1>7, <1>8, <1>9, <1>10, <1>11 DEF Next, Handler

-----------------------------------------------------------------------------
(* The handler, the stream's goroutine and the body. *)

LEMMA ControlInductive == ASSUME IInv, Next PROVE ControlInv'
  <1>t. TypeControl /\ ControlInv
    BY TypeParts DEF IInv
  <1> USE <1>t, StageFacts DEF transport, stream, result, env, WriteErr, Consumer, World, Goroutine, Abandon,
            ControlInv, Opening, Closing
  <1>1. CASE Pass \/ Reject \/ Prepare
    BY <1>1 DEF Pass, Reject, Prepare
  <1>2. CASE DoFails
    BY <1>2 DEF DoFails
  <1>3. CASE Backoff
    BY <1>3 DEF Backoff
  <1>4. ASSUME NEW st \in Statuses, DoAnswers(st) PROVE ControlInv'
    BY <1>4 DEF DoAnswers, Retryable
  <1>5. CASE ErrorReply \/ UnaryFails \/ StreamStarts
    BY <1>5 DEF ErrorReply, UnaryFails, StreamStarts
  <1>6. ASSUME NEW k \in 0..MaxTokens, UnaryReply(k) PROVE ControlInv'
    BY <1>6 DEF UnaryReply
  <1>7. CASE Receive \/ WriteChunk \/ Drain
    BY <1>7 DEF Receive, WriteChunk, Drain
  <1>8. CASE LoopEnds \/ Terminate \/ PostProvider \/ PostCall
    BY <1>8 DEF LoopEnds, Terminate, PostProvider, PostCall
  <1>9. CASE Producer
    BY <1>9 DEF Producer, ScanFrame, ScanEnds, Send, CloseStream
  <1>10. CASE Deadline \/ IdleFires \/ UpstreamEnds \/ ClientLeaves \/ Cancel
    BY <1>10 DEF Deadline, IdleFires, UpstreamEnds, ClientLeaves, Cancel
  <1>11. ASSUME NEW f \in Frames, UpstreamSends(f) PROVE ControlInv'
    BY <1>11 DEF UpstreamSends
  <1> QED
    BY <1>1, <1>2, <1>3, <1>4, <1>5, <1>6, <1>7, <1>8, <1>9, <1>10, <1>11 DEF Next, Handler

LEMMA BodyInductive == ASSUME IInv, Next PROVE BodyInv'
  <1>t. TypeControl /\ ControlInv /\ BodyInv
    BY TypeParts DEF IInv
  <1> USE <1>t, StageFacts DEF transport, stream, result, env, WriteErr, Consumer, World, Goroutine, Abandon, BodyInv
  <1>1. CASE Pass \/ Reject \/ Prepare \/ DoFails \/ Backoff
    BY <1>1 DEF Pass, Reject, Prepare, DoFails, Backoff
  <1>2. ASSUME NEW st \in Statuses, DoAnswers(st) PROVE BodyInv'
    BY <1>2 DEF DoAnswers, ControlInv, Opening
  <1>3. CASE ErrorReply \/ UnaryFails \/ StreamStarts
    BY <1>3 DEF ErrorReply, UnaryFails, StreamStarts
  <1>4. ASSUME NEW k \in 0..MaxTokens, UnaryReply(k) PROVE BodyInv'
    BY <1>4 DEF UnaryReply
  <1>5. CASE Receive \/ WriteChunk \/ Drain
    BY <1>5 DEF Receive, WriteChunk, Drain
  <1>6. CASE LoopEnds \/ Terminate \/ PostProvider \/ PostCall
    BY <1>6 DEF LoopEnds, Terminate, PostProvider, PostCall
  <1>7. CASE Producer
    BY <1>7 DEF Producer, ScanFrame, ScanEnds, Send, CloseStream
  <1>8. CASE Deadline \/ IdleFires \/ UpstreamEnds \/ ClientLeaves \/ Cancel
    BY <1>8 DEF Deadline, IdleFires, UpstreamEnds, ClientLeaves, Cancel
  <1>9. ASSUME NEW f \in Frames, UpstreamSends(f) PROVE BodyInv'
    BY <1>9 DEF UpstreamSends
  <1> QED
    BY <1>1, <1>2, <1>3, <1>4, <1>5, <1>6, <1>7, <1>8, <1>9 DEF Next, Handler

-----------------------------------------------------------------------------
(* The frames on their way from the upstream to the client. *)

LEMMA WireInductive == ASSUME IInv, Next PROVE WireInv'
  <1>t. TypeData /\ ControlInv /\ WireInv
    BY TypeParts DEF IInv
  <1>l. Len(wire) \in Nat /\ Len(sent) \in Nat /\ DOMAIN wire = 1..Len(wire) /\ DOMAIN sent = 1..Len(sent)
    BY <1>t DEF TypeData
  <1>w. Len(wire) <= Len(sent) /\ \A i \in DOMAIN wire : wire[i] = sent[Scanned + i]
    BY <1>t DEF WireInv
  <1>u. ASSUME UNCHANGED <<wire, sent, streaming>>, producer' = "none" => producer = "none",
               pc' \in Opening => pc \in Opening
        PROVE  WireInv'
    BY <1>t, <1>u DEF WireInv, Scanned
  <1> USE DEF transport, stream, result, env, WriteErr, Consumer, World, Goroutine, Abandon
  <1>1. CASE Pass \/ Reject \/ Prepare \/ DoFails \/ Backoff
    BY <1>1, <1>u, StageFacts DEF Pass, Reject, Prepare, DoFails, Backoff, Opening
  <1>2. ASSUME NEW st \in Statuses, DoAnswers(st) PROVE WireInv'
    BY <1>2, <1>u DEF DoAnswers, Opening
  <1>3. CASE ErrorReply \/ UnaryFails \/ StreamStarts
    BY <1>3, <1>u DEF ErrorReply, UnaryFails, StreamStarts, Opening
  <1>4. ASSUME NEW k \in 0..MaxTokens, UnaryReply(k) PROVE WireInv'
    <2>1. /\ ~streaming /\ ~streaming' /\ wire' = wire /\ pc' = "postprovider"
          /\ sent' = <<Frame("chunk", k), Done>>
      BY <1>4 DEF UnaryReply
    <2>2. wire = <<>> /\ Frame("chunk", k) # Done
      BY <1>t, <2>1, FrameFacts DEF WireInv
    <2>3. Len(sent') = 2 /\ Len(wire') = 0 /\ DOMAIN wire' = {} /\ DOMAIN sent' = {1, 2}
          /\ sent'[1] = Frame("chunk", k) /\ pc' \notin Opening
      BY <2>1, <2>2, StageFacts DEF Opening
    <2> QED
      BY <2>1, <2>2, <2>3 DEF WireInv, Scanned
  <1>5. CASE Receive \/ WriteChunk \/ Drain
    BY <1>5, <1>u, StageFacts DEF Receive, WriteChunk, Drain, Opening
  <1>6. CASE LoopEnds \/ Terminate \/ PostProvider \/ PostCall
    BY <1>6, <1>u, StageFacts DEF LoopEnds, Terminate, PostProvider, PostCall, Opening
  <1>7. CASE ScanFrame
    <2>1. /\ wire # <<>> /\ wire' = Tail(wire) /\ producer = "scan" /\ producer' # "none"
          /\ UNCHANGED <<sent, streaming, pc>>
      BY <1>7 DEF ScanFrame
    <2>2. streaming /\ pc \notin Opening
      BY <1>t, <2>1 DEF ControlInv
    <2>3. /\ Len(wire') = Len(wire) - 1 /\ Len(wire) >= 1 /\ DOMAIN wire' = 1..Len(wire')
          /\ \A i \in DOMAIN wire' : wire'[i] = wire[i + 1]
      BY <1>t, <2>1 DEF TypeData
    <2>4. \A i \in DOMAIN wire' : wire'[i] = sent'[Scanned' + i]
      BY <1>t, <1>l, <2>1, <2>3 DEF WireInv, Scanned
    <2>5. Len(wire') <= Len(sent') /\ \A i \in DOMAIN sent' : sent'[i] = Done => i = Len(sent')
      BY <1>t, <1>l, <2>1, <2>3 DEF WireInv
    <2> QED
      BY <2>1, <2>2, <2>4, <2>5 DEF WireInv
  <1>8. CASE ScanEnds \/ Send \/ CloseStream
    BY <1>8, <1>u DEF ScanEnds, Send, CloseStream
  <1>9. CASE Deadline \/ IdleFires \/ UpstreamEnds \/ ClientLeaves \/ Cancel
    BY <1>9, <1>u DEF Deadline, IdleFires, UpstreamEnds, ClientLeaves, Cancel
  <1>10. ASSUME NEW f \in Frames, UpstreamSends(f) PROVE WireInv'
    <2>1. /\ streaming /\ sent' = Append(sent, f) /\ wire' = Append(wire, f)
          /\ UNCHANGED <<streaming, producer, pc>>
      BY <1>10 DEF UpstreamSends
    <2>2. \A i \in DOMAIN sent : sent[i] # Done
      BY <1>10, <1>l DEF UpstreamSends, Contains
    <2>3. /\ Len(sent') = Len(sent) + 1 /\ Len(wire') = Len(wire) + 1
          /\ DOMAIN sent' = 1..Len(sent') /\ DOMAIN wire' = 1..Len(wire')
          /\ \A i \in DOMAIN sent : sent'[i] = sent[i]
          /\ \A i \in DOMAIN wire : wire'[i] = wire[i]
          /\ sent'[Len(sent')] = f /\ wire'[Len(wire')] = f
      BY <1>t, <2>1 DEF TypeData
    <2>4. \A i \in DOMAIN wire' : wire'[i] = sent'[Scanned' + i]
      <3>1. Scanned' = Scanned /\ Scanned \in Nat /\ Scanned + Len(wire') = Len(sent')
        BY <1>l, <1>w, <2>3 DEF Scanned
      <3>2. \A i \in DOMAIN wire : Scanned + i \in DOMAIN sent
        BY <1>l, <1>w DEF Scanned
      <3>3. \A i \in DOMAIN wire : wire'[i] = sent'[Scanned + i]
        BY <1>w, <2>3, <3>2
      <3> QED
        BY <1>l, <2>3, <3>1, <3>3
    <2>5. \A i \in DOMAIN sent' : sent'[i] = Done => i = Len(sent')
      BY <1>l, <2>2, <2>3
    <2>6. Len(wire') <= Len(sent') /\ (producer = "none" => Len(wire') = Len(sent'))
      <3>1. producer = "none" => Len(wire) = Len(sent)
        BY <1>t, <2>1 DEF WireInv
      <3>2. Len(wire') <= Len(sent') /\ (Len(wire) = Len(sent) => Len(wire') = Len(sent'))
        <4>1. Len(sent) \in Nat /\ Len(wire) \in Nat /\ Len(wire) <= Len(sent)
          BY <1>l, <1>w
        <4>2. Len(sent') = Len(sent) + 1 /\ Len(wire') = Len(wire) + 1
          BY <2>3
        <4> QED
          BY <4>1, <4>2
      <3> QED
        BY <3>1, <3>2
    <2> QED
      BY <2>1, <2>4, <2>5, <2>6 DEF WireInv
  <1> QED
    BY <1>1, <1>2, <1>3, <1>4, <1>5, <1>6, <1>7, <1>8, <1>9, <1>10 DEF Next, Handler, Producer

LEMMA PipelineInductive == ASSUME IInv, Next PROVE PipelineInv'
  <1>t. TypeData /\ TypeControl /\ ControlInv /\ WireInv /\ PipelineInv /\ ClientInv
    BY TypeParts DEF IInv
  <1>l. /\ Len(wire) \in Nat /\ Len(sent) \in Nat /\ DOMAIN wire = 1..Len(wire) /\ DOMAIN sent = 1..Len(sent)
        /\ Len(ch) \in Nat /\ DOMAIN ch = 1..Len(ch) /\ Len(client) \in Nat /\ DOMAIN client = 1..Len(client)
    BY <1>t DEF TypeData
  <1>n. ASSUME pc' \notin {"loop", "write"} PROVE PipelineInv'
    BY <1>n DEF PipelineInv
  <1>u. ASSUME UNCHANGED <<pc, ch, client, cur, sent, wire, producer, held>>, cancelled => cancelled'
        PROVE  PipelineInv'
    BY <1>t, <1>u DEF PipelineInv, Scanned, Ahead, Taken, Failed
  <1> USE DEF transport, stream, result, env, WriteErr, Consumer, World, Goroutine, Abandon
  <1>1. CASE Pass \/ Reject \/ Prepare \/ DoFails \/ Backoff
    BY <1>1, <1>n, StageFacts DEF Pass, Reject, Prepare, DoFails, Backoff
  <1>2. ASSUME NEW st \in Statuses, DoAnswers(st) PROVE PipelineInv'
    BY <1>2, <1>n DEF DoAnswers
  <1>3. CASE ErrorReply \/ UnaryFails
    BY <1>3, <1>n DEF ErrorReply, UnaryFails
  <1>4. ASSUME NEW k \in 0..MaxTokens, UnaryReply(k) PROVE PipelineInv'
    BY <1>4, <1>n DEF UnaryReply
  <1>5. CASE StreamStarts
    <2>1. /\ pc = "reply" /\ pc' = "loop" /\ streaming /\ producer' = "scan"
          /\ UNCHANGED <<ch, client, cur, sent, wire, held>>
      BY <1>5 DEF StreamStarts
    <2>2. ch = <<>> /\ client = <<>> /\ Len(wire) = Len(sent)
      BY <1>t, <2>1 DEF ControlInv, ClientInv, WireInv, Opening
    <2> QED
      BY <1>l, <2>1, <2>2 DEF PipelineInv, Scanned, Ahead, Taken, Failed
  <1>6. CASE Receive
    <2>1. CASE cancelled
      BY <1>6, <1>n, <2>1 DEF Receive
    <2>2. CASE ~ cancelled
      <3>1. /\ pc = "loop" /\ pc' = "write" /\ ch # <<>> /\ ch' = Tail(ch) /\ cur' = Head(ch)
            /\ UNCHANGED <<client, sent, wire, held, producer, cancelled>>
        BY <1>6, <2>2 DEF Receive
      <3>2. /\ Len(ch') = Len(ch) - 1 /\ Len(ch) >= 1 /\ DOMAIN ch' = 1..Len(ch') /\ cur' = ch[1]
            /\ \A i \in DOMAIN ch' : ch'[i] = ch[i + 1]
        BY <1>t, <3>1 DEF TypeData
      <3>3. Taken' = Taken + 1 /\ Ahead' = Ahead /\ Taken \in Nat
        BY <1>l, <3>1, <3>2 DEF Taken, Ahead
      <3>4. /\ \A i \in DOMAIN ch' : IF ch'[i] = Err THEN i = Len(ch')
                                     ELSE Taken' + i \in DOMAIN sent /\ ch'[i] = sent[Taken' + i]
            /\ cur' # Err => Taken' \in DOMAIN sent /\ cur' = sent[Taken']
            /\ cur' = Err => Len(ch') = 0
        BY <1>t, <1>l, <3>1, <3>2, <3>3 DEF PipelineInv
      <3>5. Failed' <=> Failed
        <4>1. (\E i \in DOMAIN ch : ch[i] = Err) <=> (cur' = Err \/ \E i \in DOMAIN ch' : ch'[i] = Err)
          <5>1. ASSUME NEW i \in DOMAIN ch, ch[i] = Err
                PROVE  i = 1 \/ (i - 1 \in DOMAIN ch' /\ ch'[i - 1] = Err)
            BY <1>l, <3>2, <5>1
          <5>2. ASSUME NEW i \in DOMAIN ch' PROVE i + 1 \in DOMAIN ch /\ ch[i + 1] = ch'[i]
            BY <1>l, <3>2
          <5>3. 1 \in DOMAIN ch
            BY <1>l, <3>2
          <5> QED
            BY <3>2, <5>1, <5>2, <5>3
        <4> QED
          BY <3>1, <4>1 DEF Failed
      <3>6. cur' = Err => ch' = <<>>
        BY <1>t, <3>1, <3>4 DEF TypeData
      <3> QED
        BY <1>t, <3>1, <3>3, <3>4, <3>5, <3>6 DEF PipelineInv, Scanned
    <2> QED
      BY <1>t, <2>1, <2>2 DEF TypeControl
  <1>7. CASE WriteChunk
    <2>1. CASE pc' # "loop"
      BY <1>7, <1>n, <2>1 DEF WriteChunk
    <2>2. CASE pc' = "loop"
      <3>1. /\ pc = "write" /\ cur # Err /\ client' = Append(client, cur)
            /\ UNCHANGED <<ch, cur, sent, wire, held, producer, cancelled>>
        BY <1>7, <2>2 DEF WriteChunk
      <3>2. Taken' = Taken /\ Ahead' = Ahead
        BY <1>t, <1>l, <2>2, <3>1 DEF Taken, Ahead, TypeData
      <3>3. Failed' <=> Failed
        BY <2>2, <3>1 DEF Failed
      <3> QED
        BY <1>t, <2>2, <3>1, <3>2, <3>3 DEF PipelineInv, Scanned
    <2> QED
      BY <2>1, <2>2
  <1>8. CASE Drain \/ LoopEnds \/ Terminate \/ PostProvider \/ PostCall
    BY <1>8, <1>n DEF Drain, LoopEnds, Terminate, PostProvider, PostCall
  <1>9. CASE Deadline \/ IdleFires \/ UpstreamEnds \/ ClientLeaves \/ Cancel
    BY <1>9, <1>u DEF Deadline, IdleFires, UpstreamEnds, ClientLeaves, Cancel
  <1>10. ASSUME NEW f \in Frames, UpstreamSends(f) PROVE PipelineInv'
    <2>1. /\ sent' = Append(sent, f) /\ wire' = Append(wire, f)
          /\ UNCHANGED <<pc, ch, client, cur, producer, held, cancelled>>
      BY <1>10 DEF UpstreamSends
    <2>2. /\ Scanned' = Scanned /\ DOMAIN sent \subseteq DOMAIN sent'
          /\ \A i \in DOMAIN sent : sent'[i] = sent[i]
      BY <1>t, <1>l, <2>1 DEF TypeData, Scanned
    <2>3. Taken' = Taken /\ Ahead' = Ahead /\ (Failed' <=> Failed)
      BY <2>1 DEF Taken, Ahead, Failed
    <2> QED
      BY <1>t, <2>1, <2>2, <2>3 DEF PipelineInv
  <1>11. CASE Producer
    <2>1. CASE pc \notin {"loop", "write"}
      BY <1>11, <1>n, <2>1 DEF Producer, ScanFrame, ScanEnds, Send, CloseStream
    <2>2. ASSUME pc \in {"loop", "write"} PROVE PipelineInv'
      <3>p. /\ \A i \in DOMAIN ch :
                IF ch[i] = Err THEN i = Len(ch)
                ELSE Taken + i \in DOMAIN sent /\ ch[i] = sent[Taken + i]
            /\ (pc = "write" /\ cur # Err) => Taken \in DOMAIN sent /\ cur = sent[Taken]
            /\ (pc = "write" /\ cur = Err) => ch = <<>>
        BY <1>t, <2>2 DEF PipelineInv
      <3>n. Taken \in Nat /\ Ahead = Taken + Len(ch) /\ Ahead \in Nat
        BY <1>l DEF Taken, Ahead
      <3>1. CASE ScanFrame
        <4>1. /\ producer = "scan" /\ wire # <<>> /\ wire' = Tail(wire)
              /\ UNCHANGED <<pc, ch, client, cur, sent, cancelled>>
          BY <3>1 DEF ScanFrame
        <4>2. \/ Head(wire) = Done /\ producer' = "close"
              \/ held' = Err /\ producer' = "send"
              \/ held' = Head(wire) /\ producer' = "send"
          BY <3>1 DEF ScanFrame
        <4>3. Scanned = Ahead /\ ~ Failed
          BY <1>t, <2>2, <4>1 DEF PipelineInv
        <4>4. /\ Scanned' = Ahead + 1 /\ Ahead + 1 \in DOMAIN sent
              /\ Head(wire) = sent[Ahead + 1]
          <5>1. Len(wire) <= Len(sent) /\ \A i \in DOMAIN wire : wire[i] = sent[Scanned + i]
            BY <1>t DEF WireInv
          <5>2. Len(wire') = Len(wire) - 1 /\ 1 \in DOMAIN wire /\ Head(wire) = wire[1] /\ sent' = sent
            BY <1>t, <4>1 DEF TypeData
          <5> QED
            BY <1>l, <3>n, <4>3, <5>1, <5>2 DEF Scanned
        <4>5. Taken' = Taken /\ Ahead' = Ahead /\ (Failed' <=> Failed)
          BY <4>1 DEF Taken, Ahead, Failed
        <4> QED
          BY <3>p, <4>1, <4>2, <4>3, <4>4, <4>5 DEF PipelineInv
      <3>2. CASE ScanEnds
        <4>1. /\ producer = "scan" /\ UNCHANGED <<pc, ch, client, cur, sent, wire, cancelled>>
              /\ (cancelled /\ producer' = "close") \/ (held' = Err /\ producer' = "send")
          BY <3>2 DEF ScanEnds
        <4>2. Taken' = Taken /\ Ahead' = Ahead /\ (Failed' <=> Failed) /\ ~ Failed
          BY <1>t, <2>2, <4>1 DEF Taken, Ahead, Failed, PipelineInv
        <4> QED
          BY <3>p, <4>1, <4>2 DEF PipelineInv
      <3>3. CASE CloseStream
        <4>1. /\ producer = "close" /\ producer' = "exited"
              /\ UNCHANGED <<pc, ch, client, cur, sent, wire, held, cancelled>>
          BY <3>3 DEF CloseStream
        <4>2. Taken' = Taken /\ Ahead' = Ahead /\ (Failed' <=> Failed)
          BY <4>1 DEF Taken, Ahead, Failed
        <4> QED
          BY <1>t, <2>2, <3>p, <4>1, <4>2 DEF PipelineInv
      <3>4. CASE Send
        <4>1. producer = "send" /\ UNCHANGED <<pc, client, cur, sent, wire, held, cancelled>>
          BY <3>4 DEF Send
        <4>2. ~ Failed /\ (held # Err => /\ Scanned = Ahead + 1 /\ Ahead + 1 \in DOMAIN sent
                                        /\ held = sent[Ahead + 1])
          BY <1>t, <2>2, <4>1 DEF PipelineInv
        <4>3. CASE cancelled /\ producer' = "close" /\ ch' = ch
          <5>1. Taken' = Taken /\ Ahead' = Ahead /\ (Failed' <=> Failed)
            BY <4>1, <4>3 DEF Taken, Ahead, Failed
          <5> QED
            BY <3>p, <4>1, <4>2, <4>3, <5>1 DEF PipelineInv
        <4>4. CASE ch' = Append(ch, held) /\ producer' = IF held = Err THEN "close" ELSE "scan"
          <5>1. /\ Len(ch') = Len(ch) + 1 /\ DOMAIN ch' = 1..Len(ch') /\ ch'[Len(ch')] = held
                /\ \A i \in DOMAIN ch : ch'[i] = ch[i]
            BY <1>t, <4>4 DEF TypeData
          <5>2. Taken' = Taken /\ Ahead' = Ahead + 1 /\ Scanned' = Scanned
            <6>1. Taken' = Taken /\ Scanned' = Scanned
              BY <4>1 DEF Taken, Scanned
            <6> QED
              BY <1>l, <3>n, <5>1, <6>1 DEF Ahead
          <5>3. Failed' <=> held = Err
            BY <1>l, <4>1, <4>2, <5>1 DEF Failed
          <5>4. \A i \in DOMAIN ch' :
                    IF ch'[i] = Err THEN i = Len(ch')
                    ELSE Taken' + i \in DOMAIN sent /\ ch'[i] = sent[Taken' + i]
            <6>1. \A i \in DOMAIN ch : ch[i] # Err
              BY <4>2 DEF Failed
            <6>2. \A i \in DOMAIN ch : Taken + i \in DOMAIN sent /\ ch'[i] = sent[Taken + i]
              BY <3>p, <5>1, <6>1
            <6>3. Taken + Len(ch') = Ahead + 1
              BY <1>l, <3>n, <5>1
            <6>4. \A i \in DOMAIN ch' : i \in DOMAIN ch \/ i = Len(ch')
              BY <1>l, <5>1
            <6> QED
              BY <4>2, <5>1, <5>2, <6>1, <6>2, <6>3, <6>4
          <5>5. ~ (pc = "write" /\ cur = Err)
            BY <4>2 DEF Failed
          <5> QED
            BY <3>p, <4>1, <4>2, <4>4, <5>2, <5>3, <5>4, <5>5 DEF PipelineInv
        <4> QED
          BY <3>4, <4>3, <4>4 DEF Send
      <3> QED
        BY <1>11, <3>1, <3>2, <3>3, <3>4 DEF Producer
    <2> QED
      BY <2>1, <2>2
  <1> QED
    BY <1>1, <1>2, <1>3, <1>4, <1>5, <1>6, <1>7, <1>8, <1>9, <1>10, <1>11 DEF Next, Handler

-----------------------------------------------------------------------------
(* What the client was sent, and what is reported of it. *)

LEMMA ClientInductive == ASSUME IInv, Next PROVE ClientInv'
  <1>t. TypeData /\ TypeControl /\ ControlInv /\ WireInv /\ PipelineInv /\ ClientInv
    BY TypeParts DEF IInv
  <1>l. /\ Len(sent) \in Nat /\ DOMAIN sent = 1..Len(sent)
        /\ Len(client) \in Nat /\ DOMAIN client = 1..Len(client)
    BY <1>t DEF TypeData
  <1>s. streaming' = streaming
    BY DEF Next, Handler, Pass, Reject, Prepare, DoFails, DoAnswers, Backoff, ErrorReply, UnaryReply, UnaryFails,
           StreamStarts, Receive, WriteChunk, Drain, LoopEnds, Terminate, PostProvider, PostCall, Consumer,
           Producer, ScanFrame, ScanEnds, Send, CloseStream, Goroutine, Deadline, IdleFires, UpstreamSends,
           UpstreamEnds, ClientLeaves, Cancel, World
  <1>u. ASSUME UNCHANGED <<client, sent>>,
               "completed" \in flags' => "completed" \in flags /\ pc' \in Closing,
               pc' \in Opening => pc \in Opening /\ flags' = flags,
               pc' \in Writing => pc \in Writing, pc' = "terminate" => pc = "terminate"
        PROVE  ClientInv'
    BY <1>t, <1>s, <1>u DEF ClientInv, ClientSeesPrefix, CompleteIsWhole, Last
  <1>a. ASSUME NEW m, client' = Append(client, m)
        PROVE  /\ Len(client') = Len(client) + 1 /\ DOMAIN client' = 1..Len(client')
               /\ client'[Len(client')] = m
               /\ \A i \in DOMAIN client : i \in DOMAIN client' /\ client'[i] = client[i]
               /\ \A i \in DOMAIN client' : i \in DOMAIN client \/ i = Len(client')
    <2>1. client \in Seq(Messages \union {Done} \union {m})
      BY <1>t DEF TypeData
    <2>2. m \in Messages \union {Done} \union {m}
      OBVIOUS
    <2> QED
      BY <1>a, <1>l, <2>1, <2>2
  <1>e. ASSUME pc \in Opening, client' = Append(client, Err), flags' = flags \union {"error"},
               sent' = sent, pc' \in Closing
        PROVE  ClientInv'
    <2>1. client = <<>> /\ flags = {}
      BY <1>t, <1>e DEF ClientInv
    <2>2. Len(client') = 1 /\ DOMAIN client' = {1} /\ client'[1] = Err
      BY <1>e, <2>1
    <2>3. "completed" \notin flags' /\ pc' \notin Opening /\ pc' \notin Writing /\ pc' # "terminate"
      BY <1>e, <2>1, StageFacts DEF Closing, Opening, Writing
    <2> QED
      BY <2>2, <2>3, FrameFacts DEF ClientInv, ClientSeesPrefix, CompleteIsWhole
  <1> USE DEF transport, stream, result, env, WriteErr, Consumer, World, Goroutine, Abandon
  <1>1. CASE Pass \/ Reject
    BY <1>1, <1>t, <1>u, <1>e, StageFacts DEF Pass, Reject, Opening, Closing, Writing, ClientInv
  <1>2. CASE Prepare \/ DoFails \/ Backoff
    BY <1>2, <1>t, <1>u, <1>e, StageFacts DEF Prepare, DoFails, Backoff, Opening, Closing, Writing, ClientInv
  <1>3. ASSUME NEW st \in Statuses, DoAnswers(st) PROVE ClientInv'
    BY <1>3, <1>t, <1>u, StageFacts DEF DoAnswers, Opening, Closing, Writing, ClientInv
  <1>4. CASE ErrorReply \/ UnaryFails
    BY <1>4, <1>e, StageFacts DEF ErrorReply, UnaryFails, Opening, Closing
  <1>5. CASE StreamStarts
    <2>1. pc = "reply" /\ pc' = "loop" /\ UNCHANGED <<client, sent, flags>>
      BY <1>5 DEF StreamStarts
    <2>2. client = <<>> /\ flags = {}
      BY <1>t, <2>1 DEF ClientInv, Opening
    <2> QED
      BY <2>1, <2>2, StageFacts DEF ClientInv, ClientSeesPrefix, CompleteIsWhole, Opening, Writing
  <1>6. ASSUME NEW k \in 0..MaxTokens, UnaryReply(k) PROVE ClientInv'
    <2>1. /\ pc = "reply" /\ pc' = "postprovider" /\ sent' = <<Frame("chunk", k), Done>> /\ ~ streaming
          /\ client' = client \/ client' = Append(client, Frame("chunk", k))
      BY <1>6 DEF UnaryReply
    <2>2. client = <<>>
      BY <1>t, <2>1 DEF ClientInv, Opening
    <2>3. DOMAIN client' \subseteq {1} /\ \A i \in DOMAIN client' : client'[i] = Frame("chunk", k)
      BY <2>1, <2>2
    <2>4. /\ Len(sent') = 2 /\ DOMAIN sent' = {1, 2} /\ sent'[1] = Frame("chunk", k)
          /\ sent'[2] = Done /\ sent' # <<>>
      BY <2>1
    <2>5. pc' \in Closing /\ pc' \notin Opening /\ pc' \notin Writing /\ pc' # "terminate"
      BY <2>1, StageFacts DEF Closing, Opening, Writing
    <2>6. ClientSeesPrefix'
      BY <2>3, <2>4 DEF ClientSeesPrefix, Frame
    <2>7. CompleteIsWhole'
      BY <1>s, <2>1, <2>4 DEF CompleteIsWhole, Last
    <2> QED
      BY <2>5, <2>6, <2>7 DEF ClientInv
  <1>7. CASE Receive \/ Drain
    BY <1>7, <1>t, <1>u, StageFacts DEF Receive, Drain, Opening, Closing, Writing, ClientInv
  <1>8. CASE WriteChunk
    <2>1. pc = "write" /\ UNCHANGED <<sent, cur>>
      BY <1>8 DEF WriteChunk
    <2>2. /\ "completed" \notin flags /\ \A i \in DOMAIN client : client[i].kind = "chunk"
          /\ ClientSeesPrefix /\ (cur # Err => Taken \in DOMAIN sent /\ cur = sent[Taken])
      BY <1>t, <2>1 DEF ClientInv, Writing, Closing, PipelineInv
    <2>3. Taken = Len(client) + 1
      BY <2>1 DEF Taken
    <2>4. CASE client' = client
      BY <1>8, <1>u, <2>1, <2>2, <2>4, <1>a, StageFacts DEF WriteChunk, Opening, Writing
    <2>5. CASE client' = Append(client, cur) /\ cur = Err /\ pc' = "drain" /\ flags' = flags \union {"error"}
      <3>1. \A i \in DOMAIN client' : client'[i].kind = "chunk" => i \in DOMAIN client
        BY <1>a, <2>5, FrameFacts
      <3>2. ClientSeesPrefix'
        BY <1>a, <2>1, <2>2, <2>5, <3>1 DEF ClientSeesPrefix
      <3> QED
        BY <2>2, <2>5, <3>2, StageFacts DEF ClientInv, CompleteIsWhole, Opening, Writing
    <2>6. CASE client' = Append(client, cur) /\ cur # Err /\ pc' = "loop" /\ flags' = flags
      <3>1. cur.kind = "chunk"
        BY <1>t, <2>6, FrameFacts DEF TypeData
      <3>2. \A i \in DOMAIN client' : client'[i].kind = "chunk" /\ i \in DOMAIN sent /\ client'[i] = sent[i]
        BY <1>a, <2>2, <2>3, <2>6, <3>1 DEF ClientSeesPrefix
      <3> QED
        BY <2>1, <2>2, <2>6, <3>2, StageFacts DEF ClientInv, ClientSeesPrefix, CompleteIsWhole, Opening
    <2> QED
      BY <1>8, <2>4, <2>5, <2>6 DEF WriteChunk
  <1>9. CASE LoopEnds
    <2>1. CASE pc' # "terminate"
      BY <1>9, <1>t, <1>u, <2>1, StageFacts DEF LoopEnds, Opening, Closing, Writing, ClientInv
    <2>2. CASE pc' = "terminate"
      <3>1. /\ pc = "loop" /\ ch = <<>> /\ chClosed /\ ~ cancelled
            /\ UNCHANGED <<client, sent, flags>>
        BY <1>9, <2>2 DEF LoopEnds
      <3>2. Ahead = Len(client) /\ ~ Failed
        BY <1>l, <3>1 DEF Ahead, Taken, Failed
      <3>3. producer = "exited"
        BY <1>t, <3>1 DEF ControlInv
      <3>4. Len(client) + 1 \in DOMAIN sent /\ sent[Len(client) + 1] = Done
        BY <1>t, <3>1, <3>2, <3>3 DEF PipelineInv
      <3>5. Len(sent) = Len(client) + 1 /\ Last(sent) = Done
        BY <1>t, <3>4 DEF WireInv, Last
      <3> QED
        BY <1>t, <2>2, <3>1, <3>5, StageFacts DEF ClientInv, ClientSeesPrefix, CompleteIsWhole, Last,
                Opening, Writing, Closing
    <2> QED
      BY <2>1, <2>2
  <1>10. CASE Terminate
    <2>1. pc = "terminate" /\ pc' = "postprovider" /\ sent' = sent
      BY <1>10 DEF Terminate
    <2>2. /\ "completed" \notin flags /\ \A i \in DOMAIN client : client[i].kind = "chunk"
          /\ ClientSeesPrefix /\ Len(sent) = Len(client) + 1 /\ Last(sent) = Done
      BY <1>t, <2>1 DEF ClientInv, Writing, Closing
    <2>3. CASE client' = client /\ flags' = flags \union {"aborted"}
      BY <1>u, <2>1, <2>2, <2>3, StageFacts DEF Opening, Writing
    <2>4. CASE client' = Append(client, Done)
      <3>1. \A i \in DOMAIN client' : client'[i].kind = "chunk" => i \in DOMAIN client
        BY <1>a, <2>4, FrameFacts
      <3>2. ClientSeesPrefix'
        BY <1>a, <2>1, <2>2, <2>4, <3>1 DEF ClientSeesPrefix
      <3>3. client' = sent
        <4>1. client' \in Seq(Messages \union {Done}) /\ sent \in Seq(Frames)
          BY <1>t, <2>4 DEF TypeData
        <4>2. Len(client') = Len(sent) /\ \A i \in 1..Len(sent) : client'[i] = sent[i]
          BY <1>a, <1>l, <2>2, <2>4 DEF ClientSeesPrefix, Last
        <4> QED
          BY <4>1, <4>2
      <3>4. CompleteIsWhole'
        <4>1. sent' # <<>> /\ Last(sent') = Done
          BY <1>l, <2>1, <2>2 DEF Last
        <4> QED
          BY <2>1, <3>3, <4>1 DEF CompleteIsWhole
      <3> QED
        BY <2>1, <3>2, <3>4, StageFacts DEF ClientInv, Opening, Writing, Closing
    <2> QED
      BY <1>10, <2>3, <2>4 DEF Terminate
  <1>11. CASE PostProvider \/ PostCall
    BY <1>11, <1>t, <1>u, StageFacts DEF PostProvider, PostCall, Opening, Closing, Writing, ClientInv
  <1>12. CASE Producer \/ Deadline \/ IdleFires \/ UpstreamEnds \/ ClientLeaves \/ Cancel
    <2>1. UNCHANGED <<client, sent, flags, pc>>
      BY <1>12 DEF Producer, ScanFrame, ScanEnds, Send, CloseStream, Deadline, IdleFires, UpstreamEnds,
                   ClientLeaves, Cancel
    <2> QED
      BY <1>t, <1>u, <2>1 DEF ClientInv
  <1>13. ASSUME NEW f \in Frames, UpstreamSends(f) PROVE ClientInv'
    <2>1. sent' = Append(sent, f) /\ UNCHANGED <<client, flags, pc>>
      BY <1>13 DEF UpstreamSends
    <2>2. \A i \in DOMAIN sent : sent[i] # Done
      BY <1>13, <1>l DEF UpstreamSends, Contains
    <2>3. DOMAIN sent \subseteq DOMAIN sent' /\ \A i \in DOMAIN sent : sent'[i] = sent[i]
      BY <1>t, <2>1 DEF TypeData
    <2>4. pc # "terminate" /\ "completed" \notin flags
      <3>1. (pc = "terminate" \/ "completed" \in flags) => Len(sent) # 0 /\ sent[Len(sent)] = Done
        <4>1. (pc = "terminate" => Len(sent) = Len(client) + 1) /\ ("completed" \in flags => sent # <<>>)
              /\ (pc = "terminate" \/ "completed" \in flags => sent[Len(sent)] = Done)
          BY <1>t DEF ClientInv, CompleteIsWhole, Last
        <4>2. sent # <<>> => Len(sent) # 0
          BY <1>t DEF TypeData
        <4>3. Len(client) + 1 # 0
          BY <1>l
        <4> QED
          BY <4>1, <4>2, <4>3
      <3> QED
        BY <1>l, <2>2, <3>1
    <2> QED
      BY <1>t, <2>1, <2>3, <2>4 DEF ClientInv, ClientSeesPrefix, CompleteIsWhole
  <1> QED
    BY <1>1, <1>2, <1>3, <1>4, <1>5, <1>6, <1>7, <1>8, <1>9, <1>10, <1>11, <1>12, <1>13 DEF Next, Handler

-----------------------------------------------------------------------------
(* What the request is charged. *)

LEMMA UsageInductive == ASSUME IInv, Next PROVE UsageInv'
  <1>t. TypeData /\ TypeNumbers /\ PipelineInv /\ ClientInv /\ UsageInv
    BY TypeParts DEF IInv
  <1>u. ASSUME UNCHANGED <<usage, client, sent, charged>>,
               pc' = "write" => pc = "write" /\ cur' = cur, pc' \in Opening => pc \in Opening,
               pc' \in {"postcall", "done"} <=> pc \in {"postcall", "done"}
        PROVE  UsageInv'
    BY <1>t, <1>u DEF UsageInv
  <1>e. ASSUME pc \in Opening, UNCHANGED <<usage, sent, charged>>,
               client' = client \/ client' = Append(client, Err), pc' # "write"
        PROVE  UsageInv'
    <2>1. usage = 0 /\ client = <<>> /\ charged = 0
      BY <1>t, <1>e, StageFacts DEF UsageInv, ClientInv, Opening
    <2>2. \A i \in DOMAIN client' : client'[i] = Err
      BY <1>e, <2>1
    <2>3. usage \in Tokens(sent)
      BY <1>t DEF UsageInv
    <2> QED
      BY <1>e, <2>1, <2>2, <2>3, FrameFacts DEF UsageInv
  <1> USE DEF transport, stream, result, env, WriteErr, Consumer, World, Goroutine, Abandon
  <1>1. CASE Pass \/ Reject \/ Prepare
    BY <1>1, <1>e, StageFacts DEF Pass, Reject, Prepare, Opening
  <1>2. CASE DoFails \/ Backoff
    BY <1>2, <1>e, StageFacts DEF DoFails, Backoff, Opening
  <1>3. ASSUME NEW st \in Statuses, DoAnswers(st) PROVE UsageInv'
    BY <1>3, <1>e DEF DoAnswers, Opening
  <1>4. CASE ErrorReply \/ UnaryFails \/ StreamStarts
    BY <1>4, <1>e DEF ErrorReply, UnaryFails, StreamStarts, Opening
  <1>5. ASSUME NEW k \in 0..MaxTokens, UnaryReply(k) PROVE UsageInv'
    <2>1. /\ pc = "reply" /\ pc' = "postprovider" /\ sent' = <<Frame("chunk", k), Done>>
          /\ client' = client \/ client' = Append(client, Frame("chunk", k))
          /\ usage' = k /\ charged' = charged
      BY <1>5 DEF UnaryReply
    <2>2. client = <<>> /\ charged = 0
      BY <1>t, <2>1 DEF ClientInv, UsageInv, Opening
    <2>3. \A i \in DOMAIN client' : client'[i] = Frame("chunk", k)
      BY <2>1, <2>2
    <2>4. DOMAIN sent' = {1, 2} /\ sent'[1] = Frame("chunk", k)
      BY <2>1
    <2>5. Frame("chunk", k).tokens = k /\ k \in Nat
      BY FrameFacts, ChatAssumption
    <2>6. usage' \in Tokens(sent')
      BY <2>1, <2>4, <2>5 DEF Tokens
    <2>7. \A i \in DOMAIN client' : client'[i].tokens <= usage'
      BY <2>1, <2>3, <2>5
    <2> QED
      BY <2>1, <2>2, <2>6, <2>7, StageFacts DEF UsageInv, Opening
  <1>6. CASE Receive
    <2>1. /\ pc = "loop" /\ ch # <<>> /\ UNCHANGED <<client, sent, charged>>
          /\ pc' \in {"write", "drain"}
          /\ (usage' = usage /\ pc' = "drain") \/ (usage' = SeenUsage(Head(ch).tokens) /\ cur' = Head(ch))
      BY <1>6 DEF Receive
    <2>2. Head(ch) \in Messages /\ Head(ch) = ch[1] /\ 1 \in DOMAIN ch
      BY <1>t, <2>1 DEF TypeData
    <2>3. Head(ch).tokens \in Nat /\ usage \in Nat
      BY <1>t, <2>2, FrameFacts, ChatAssumption DEF TypeNumbers
    <2>4. Head(ch) = Err \/ \E i \in DOMAIN sent : Head(ch) = sent[i]
      BY <1>t, <2>1, <2>2 DEF PipelineInv
    <2>5. Head(ch).tokens \in Tokens(sent)
      BY <2>4, FrameFacts DEF Tokens
    <2>6. usage \in Tokens(sent) /\ (\A i \in DOMAIN client : client[i].tokens <= usage) /\ charged = 0
      BY <1>t, <2>1 DEF UsageInv
    <2>7. \A i \in DOMAIN client : client[i].tokens \in Nat
      BY <1>t, FrameFacts DEF TypeData
    <2>8. usage' \in Tokens(sent) /\ usage <= usage' /\ (pc' = "write" => cur'.tokens <= usage') /\ usage' \in Nat
      BY <2>1, <2>3, <2>5, <2>6 DEF SeenUsage
    <2>9. \A i \in DOMAIN client : client[i].tokens <= usage'
      BY <2>3, <2>6, <2>7, <2>8
    <2> QED
      BY <2>1, <2>6, <2>8, <2>9, StageFacts DEF UsageInv, Opening
  <1>7. CASE WriteChunk
    <2>1. /\ pc = "write" /\ pc' \in {"loop", "drain"} /\ UNCHANGED <<usage, sent, charged>>
          /\ client' = client \/ client' = Append(client, cur)
      BY <1>7 DEF WriteChunk
    <2>2. cur.tokens <= usage /\ \A i \in DOMAIN client : client[i].tokens <= usage
      BY <1>t, <2>1 DEF UsageInv
    <2>3. client \in Seq(Messages \union {Done}) /\ cur \in Messages \union {Done}
      BY <1>t DEF TypeData
    <2>4. \A i \in DOMAIN client' : client'[i] = cur \/ (i \in DOMAIN client /\ client'[i] = client[i])
      BY <2>1, <2>3
    <2> QED
      BY <1>t, <2>1, <2>2, <2>4, StageFacts DEF UsageInv, Opening
  <1>8. CASE Terminate
    <2>1. /\ pc = "terminate" /\ pc' = "postprovider" /\ UNCHANGED <<usage, sent, charged>>
          /\ client' = client \/ client' = Append(client, Done)
      BY <1>8 DEF Terminate
    <2>2. \A i \in DOMAIN client : client[i].tokens <= usage
      BY <1>t DEF UsageInv
    <2>3. client \in Seq(Messages \union {Done}) /\ Done \in Messages \union {Done}
      BY <1>t DEF TypeData
    <2>4. \A i \in DOMAIN client' : client'[i] = Done \/ (i \in DOMAIN client /\ client'[i] = client[i])
      BY <2>1, <2>3
    <2>5. Done.tokens <= usage
      BY <1>t, FrameFacts DEF TypeNumbers
    <2> QED
      BY <1>t, <2>1, <2>2, <2>4, <2>5, StageFacts DEF UsageInv, Opening
  <1>9. CASE Drain \/ LoopEnds \/ PostCall
    BY <1>9, <1>u, StageFacts DEF Drain, LoopEnds, PostCall, Opening
  <1>10. CASE PostProvider
    <2>1. /\ pc = "postprovider" /\ pc' = "postcall" /\ UNCHANGED <<usage, client, sent>>
          /\ charged' = charged + usage
      BY <1>10 DEF PostProvider
    <2>2. charged = 0 /\ usage \in Nat
      BY <1>t, <2>1, ChatAssumption DEF UsageInv, TypeNumbers
    <2>3. charged' = usage
      BY <2>1, <2>2
    <2> QED
      BY <1>t, <2>1, <2>3, StageFacts DEF UsageInv, Opening
  <1>11. CASE Producer \/ Deadline \/ IdleFires \/ UpstreamEnds \/ ClientLeaves \/ Cancel
    BY <1>11, <1>u DEF Producer, ScanFrame, ScanEnds, Send, CloseStream, Deadline, IdleFires, UpstreamEnds,
                   ClientLeaves, Cancel
  <1>12. ASSUME NEW f \in Frames, UpstreamSends(f) PROVE UsageInv'
    <2>1. sent' = Append(sent, f) /\ UNCHANGED <<usage, client, charged, pc, cur>>
      BY <1>12 DEF UpstreamSends
    <2>2. DOMAIN sent \subseteq DOMAIN sent' /\ \A i \in DOMAIN sent : sent'[i] = sent[i]
      BY <1>t, <2>1 DEF TypeData
    <2>3. Tokens(sent) \subseteq Tokens(sent')
      BY <2>2 DEF Tokens
    <2> QED
      BY <1>t, <2>1, <2>3 DEF UsageInv
  <1> QED
    BY <1>1, <1>2, <1>3, <1>4, <1>5, <1>6, <1>7, <1>8, <1>9, <1>10, <1>11, <1>12 DEF Next, Handler

-----------------------------------------------------------------------------
(* The theorems. *)

LEMMA IInvInitial == ASSUME Init PROVE IInv
  <1> USE ChatAssumption, FrameFacts, StageFacts DEF Init
  <1>1. pc = "auth" /\ pc \in StageSet
    BY DEF Stages
  <1>2. TypeOK
    <2>1. TypeControl
      BY <1>1 DEF TypeControl
    <2>2. TypeNumbers
      BY DEF TypeNumbers
    <2>3. TypeData
      BY DEF TypeData
    <2> QED
      BY <2>1, <2>2, <2>3, TypeParts
  <1>3. AttemptsInv /\ ControlInv /\ BodyInv
    BY <1>1 DEF AttemptsInv, RunsOnce, ControlInv, BodyInv, Opening, Closing
  <1>4. WireInv /\ PipelineInv
    BY <1>1 DEF WireInv, PipelineInv, Scanned
  <1>5. ClientInv
    BY <1>1 DEF ClientInv, ClientSeesPrefix, CompleteIsWhole, Writing
  <1>6. UsageInv
    BY <1>1 DEF UsageInv, Tokens
  <1> QED
    BY <1>2, <1>3, <1>4, <1>5, <1>6 DEF IInv

LEMMA IInvInductive == ASSUME IInv, [Next]_vars PROVE IInv'
  <1>1. CASE Next
    <2>1. TypeOK'
      BY <1>1, ControlTyped, NumbersTyped, DataTyped, TypeParts DEF IInv, TypeOK, TypeControl, TypeNumbers, TypeData
    <2> QED
      BY <1>1, <2>1, AttemptsInductive, ControlInductive, BodyInductive, WireInductive, PipelineInductive,
         ClientInductive, UsageInductive DEF IInv
  <1>2. CASE UNCHANGED vars
    <2> USE <1>2 DEF vars, transport, stream, result, env
    <2>1. TypeOK' /\ AttemptsInv' /\ ControlInv' /\ BodyInv'
      BY DEF IInv, TypeOK, AttemptsInv, RunsOnce, ControlInv, BodyInv
    <2>2. WireInv' /\ PipelineInv'
      BY DEF IInv, WireInv, PipelineInv, Scanned, Ahead, Taken, Failed
    <2>3. ClientInv' /\ UsageInv'
      BY DEF IInv, ClientInv, ClientSeesPrefix, CompleteIsWhole, UsageInv
    <2> QED
      BY <2>1, <2>2, <2>3 DEF IInv
  <1> QED
    BY <1>1, <1>2

(* What the invariant says of a request that is over. *)
LEMMA IInvImplies == ASSUME IInv PROVE ChatInv /\ CompleteIsWhole /\ ChargedAsReported
  <1>1. ContextHeld /\ BodiesClosed
    BY DEF IInv, ControlInv, BodyInv, ContextHeld, BodiesClosed, Closing
  <1>2. ASSUME pc = "done" PROVE charged \in Tokens(sent) /\ \A t \in Tokens(client) : t <= charged
    <2>1. charged = usage /\ usage \in Tokens(sent) /\ \A i \in DOMAIN client : client[i].tokens <= usage
      BY <1>2 DEF IInv, UsageInv
    <2>2. 0 <= usage
      BY ChatAssumption DEF IInv, TypeOK
    <2> QED
      BY <2>1, <2>2 DEF Tokens
  <1> QED
    BY <1>1, <1>2 DEF IInv, ChatInv, AttemptsInv, ClientInv, ChargedAsReported

(* A request keeps its invariant: the pooled context is not released under *)
(* the stream's goroutine, no body leaks, the client sees a prefix of what *)
(* the upstream sent, and the model is not run twice unasked, however the  *)
(* handler, the goroutine, the timers, the upstream and the client         *)
(* interleave.                                                             *)
THEOREM ChatIsSound == Spec => []ChatInv
  BY IInvInitial, IInvInductive, IInvImplies, PTL DEF Spec

(* RequestCompleted is set only when the upstream's whole answer was read, *)
(* with its terminator, and for a stream only when each of its frames was  *)
(* written to the client.  The write of a unary answer is not looked at.   *)
THEOREM CompletedIsWhole == Spec => []CompleteIsWhole
  BY IInvInitial, IInvInductive, IInvImplies, PTL DEF Spec

(* RecordHook charges a usage the upstream reported, and never less than a *)
(* chunk that reached the client had reported.                             *)
THEOREM ChargeIsReported == Spec => []ChargedAsReported
  BY IInvInitial, IInvInductive, IInvImplies, PTL DEF Spec
=============================================================================
