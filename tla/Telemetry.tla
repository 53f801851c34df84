----------------------------- MODULE Telemetry -----------------------------
(***************************************************************************)
(* What a request leaves in the traces and in the event log: request_span  *)
(* (otel/request_span.py) publishes the user's telemetry mode on the       *)
(* active context of its thread, the stamping processor and the scrubbing  *)
(* exporter (otel/scrubbing.py) act on it, and the hooks of the guarded    *)
(* calls made inside it open, stamp and end spans (otel/hooks.py) and emit *)
(* a line for each answered call (events.py).                              *)
(*                                                                         *)
(* The threads are those of a pool: one serves request after request.      *)
(* The sampler, the span of the instrumented provider client, and the      *)
(* batching of ended spans are the OpenTelemetry pipeline's.               *)
(***************************************************************************)
EXTENDS Integers, Sequences, FiniteSets

CONSTANTS
    Thread,
    Chains,         \* the orders in which the hooks may be registered
    MaxDepth,       \* bound on the nesting of request_span
    MaxRequests,    \* bound on the number of request_spans opened
    MaxCalls        \* bound on the number of calls

HookKind ==
    {"span",        \* OTelSpanHook
     "identity",    \* LangSmithMetadataHook
     "log",         \* EventLogHook
     "other"}       \* any other hook: its pre may raise

Mode == {"off", "metadata", "full"}
NoMode == "none"    \* no request_span is open
NoSpan == 0         \* a span that is not recorded

ASSUME TelemetryAssumption ==
    /\ IsFiniteSet(Thread)
    /\ Chains \subseteq Seq(HookKind)
    /\ MaxDepth \in Nat /\ MaxRequests \in Nat /\ MaxCalls \in Nat

\* Each of the library's own hooks is registered at most once, as in the chain that
\* integration.md:222 gives: a second span hook would overwrite the first one's span in
\* ctx.state, and a second event hook write a second line.
ASSUME ChainAssumption ==
    \A hooks \in Chains : \A i, j \in DOMAIN hooks :
        hooks[i] = hooks[j] /\ hooks[i] # "other" => i = j

VARIABLES
    chain,      \* hooks=[...]
    enabled,    \* the `enabled` flag of EventLogHook
    context,    \* the active context of each thread: baggage and current span
    requests,   \* the open request_spans of each thread, the innermost last
    call,       \* the call each thread is making
    spans,      \* the recorded spans, in the order in which they were started
    lines,      \* event lines written
    answered,   \* history: calls that were answered and their usage read
    lost,       \* history: events whose identity could not be had or written
    begun       \* number of requests and calls begun, for the bound

app == <<chain, enabled>>
vars == <<app, context, requests, call, spans, lines, answered, lost, begun>>

RootContext == [mode |-> NoMode, current |-> NoSpan]
NoCall == [phase |-> "none", at |-> 1, span |-> NoSpan]

-----------------------------------------------------------------------------
(* Spans *)

\* The consent sampler, up-pipeline, reads the baggage of the parent context.
Sampled(mode) == mode # "off"

\* The mode asked for by the request that thread th is working for.
RequestMode(th) ==
    IF requests[th] = <<>> THEN NoMode ELSE requests[th][Len(requests[th])].mode

\* A span started in context ctx, for a request that asked for the given mode: the
\* stamping processor's on_start copies the mode from the baggage of its parent context.
NewSpan(ctx, kind, asked) ==
    [kind |-> kind, mode |-> ctx.mode, asked |-> asked, parent |-> ctx.current,
     content |-> kind = "provider", identity |-> FALSE, usage |-> FALSE,
     aborted |-> FALSE, state |-> IF kind = "provider" THEN "ended" ELSE "open"]

\* start_span: the spans with the new one, and its place among them.
Started(ctx, kind, asked) ==
    IF Sampled(ctx.mode) THEN Append(spans, NewSpan(ctx, kind, asked)) ELSE spans
StartedAt(ctx) == IF Sampled(ctx.mode) THEN Len(spans) + 1 ELSE NoSpan

\* Span s ends; one that is not recorded does nothing.
Ended(s) == IF s = NoSpan THEN spans ELSE [spans EXCEPT ![s].state = "ended"]

-----------------------------------------------------------------------------
Init ==
    /\ chain \in Chains
    /\ enabled \in BOOLEAN
    /\ context = [th \in Thread |-> RootContext]
    /\ requests = [th \in Thread |-> <<>>]
    /\ call = [th \in Thread |-> NoCall]
    /\ spans = <<>>
    /\ lines = 0
    /\ answered = 0
    /\ lost = 0
    /\ begun = [requests |-> 0, calls |-> 0]

(* request_span *)

\* The context with the baggage is attached, and the request's span becomes its
\* current one; what was active before is the token.
EnterRequest(th, mode) ==
    LET ctx == [context[th] EXCEPT !.mode = mode]
    IN  /\ call[th].phase = "none"
        /\ Len(requests[th]) < MaxDepth
        /\ begun.requests < MaxRequests
        /\ begun' = [begun EXCEPT !.requests = @ + 1]
        /\ spans' = Started(ctx, "request", mode)
        /\ context' = [context EXCEPT ![th] = [ctx EXCEPT !.current = StartedAt(ctx)]]
        /\ requests' = [requests EXCEPT ![th] = Append(@,
                          [mode |-> mode, token |-> context[th], span |-> StartedAt(ctx)])]
        /\ UNCHANGED <<app, call, lines, answered, lost>>

\* Fault: the token is not detached (request_span.py:100); leaving the inner with block
\* still makes the outer span the current one.
ExitRequestAttached(th) ==
    /\ call[th].phase = "none"
    /\ requests[th] # <<>>
    /\ LET request == requests[th][Len(requests[th])]
       IN  /\ spans' = Ended(request.span)
           /\ context' = [context EXCEPT ![th] = [request.token EXCEPT !.mode = request.mode]]
    /\ requests' = [requests EXCEPT ![th] = SubSeq(@, 1, Len(@) - 1)]
    /\ UNCHANGED <<app, call, lines, answered, lost, begun>>

\* The body returns or raises: the span ends, and the token is detached.
ExitRequest(th) ==
    /\ call[th].phase = "none"
    /\ requests[th] # <<>>
    /\ LET request == requests[th][Len(requests[th])]
       IN  /\ spans' = Ended(request.span)
           /\ context' = [context EXCEPT ![th] = request.token]
    /\ requests' = [requests EXCEPT ![th] = SubSeq(@, 1, Len(@) - 1)]
    /\ UNCHANGED <<app, call, lines, answered, lost, begun>>

-----------------------------------------------------------------------------
(* The hooks of a guarded call *)

Current(th) == chain[call[th].at]
EndOfChain(th) == call[th].at > Len(chain)

BeginCall(th) ==
    /\ call[th].phase = "none"
    /\ begun.calls < MaxCalls
    /\ begun' = [begun EXCEPT !.calls = @ + 1]
    /\ call' = [call EXCEPT ![th].phase = "pre"]
    /\ UNCHANGED <<app, context, requests, spans, lines, answered, lost>>

\* Fault: the span is made the current one, and nobody leaves it.
OpenSpanAsCurrent(th) ==
    /\ call[th].phase = "pre" /\ ~ EndOfChain(th)
    /\ Current(th) = "span"
    /\ spans' = Started(context[th], "call", RequestMode(th))
    /\ call' = [call EXCEPT ![th].at = @ + 1, ![th].span = StartedAt(context[th])]
    /\ context' = [context EXCEPT ![th].current = StartedAt(context[th])]
    /\ UNCHANGED <<app, requests, lines, answered, lost, begun>>

\* OTelSpanHook.pre opens a span, under the current one but not as the current one,
\* and leaves it in ctx.state.
OpenSpan(th) ==
    /\ call[th].phase = "pre" /\ ~ EndOfChain(th)
    /\ Current(th) = "span"
    /\ spans' = Started(context[th], "call", RequestMode(th))
    /\ call' = [call EXCEPT ![th].at = @ + 1, ![th].span = StartedAt(context[th])]
    /\ UNCHANGED <<app, context, requests, lines, answered, lost, begun>>

\* Fault: the identity is left for the post-hook, which finds the span ended.
StampNothing(th) ==
    /\ call[th].phase = "pre" /\ ~ EndOfChain(th)
    /\ Current(th) = "identity"
    /\ call' = [call EXCEPT ![th].at = @ + 1]
    /\ UNCHANGED <<app, context, requests, spans, lines, answered, lost, begun>>

\* LangSmithMetadataHook.pre stamps the span that it finds in ctx.state.
StampIdentity(th) ==
    /\ call[th].phase = "pre" /\ ~ EndOfChain(th)
    /\ Current(th) = "identity"
    /\ spans' = IF call[th].span = NoSpan THEN spans
                ELSE [spans EXCEPT ![call[th].span].identity = TRUE]
    /\ call' = [call EXCEPT ![th].at = @ + 1]
    /\ UNCHANGED <<app, context, requests, lines, answered, lost, begun>>

\* EventLogHook.pre does nothing, nor does any other hook of concern here.
PassPre(th) ==
    /\ call[th].phase = "pre" /\ ~ EndOfChain(th)
    /\ Current(th) \in {"log", "other"}
    /\ call' = [call EXCEPT ![th].at = @ + 1]
    /\ UNCHANGED <<app, context, requests, spans, lines, answered, lost, begun>>

\* The call is over without an answer: no post-hook runs, and the span stays open.
Abandon(th, seen) ==
    /\ spans' = IF call[th].span = NoSpan THEN seen
                ELSE [seen EXCEPT ![call[th].span].aborted = TRUE]
    /\ call' = [call EXCEPT ![th] = NoCall]
    /\ UNCHANGED <<app, context, requests, lines, answered, lost, begun>>

\* A pre-hook raises: another hook, or identity_provider, which the identity hook
\* calls once it has found a span.
PreRaises(th) ==
    /\ call[th].phase = "pre" /\ ~ EndOfChain(th)
    /\ \/ Current(th) = "other"
       \/ Current(th) = "identity" /\ \E i \in 1..call[th].at : chain[i] = "span"
    /\ Abandon(th, spans)

\* The instrumented provider client records the prompt and the response on a span;
\* a response that a pre-hook has injected leaves none.  Its usage is read and priced.
CallProvider(th) ==
    /\ call[th].phase = "pre" /\ EndOfChain(th)
    /\ spans' \in {spans, Started(context[th], "provider", RequestMode(th))}
    /\ call' = [call EXCEPT ![th].phase = "post", ![th].at = 1]
    /\ answered' = answered + 1
    /\ UNCHANGED <<app, context, requests, lines, lost, begun>>

\* The provider raises, or it answers with what extract_usage cannot read (as a stream
\* has no usage) or usd_for_usage cannot price; the call may have left content on a span.
CallFails(th) ==
    /\ call[th].phase = "pre" /\ EndOfChain(th)
    /\ \E seen \in {spans, Started(context[th], "provider", RequestMode(th))} :
          Abandon(th, seen)

\* Fault: the span is not ended.
CloseNothing(th) ==
    /\ call[th].phase = "post" /\ ~ EndOfChain(th)
    /\ Current(th) = "span"
    /\ spans' = IF call[th].span = NoSpan THEN spans
                ELSE [spans EXCEPT ![call[th].span].usage = TRUE]
    /\ call' = [call EXCEPT ![th].at = @ + 1]
    /\ UNCHANGED <<app, context, requests, lines, answered, lost, begun>>

\* OTelSpanHook.post stamps the usage and ends the span it finds.
CloseSpan(th) ==
    /\ call[th].phase = "post" /\ ~ EndOfChain(th)
    /\ Current(th) = "span"
    /\ spans' = IF call[th].span = NoSpan THEN spans
                ELSE [spans EXCEPT ![call[th].span].usage = TRUE,
                                   ![call[th].span].state = "ended"]
    /\ call' = [call EXCEPT ![th].at = @ + 1]
    /\ UNCHANGED <<app, context, requests, lines, answered, lost, begun>>

\* EventLogHook.post, if enabled: one line, unless an identity provider or the output
\* fails, which is logged and swallowed.
Emit(th) ==
    /\ call[th].phase = "post" /\ ~ EndOfChain(th)
    /\ Current(th) = "log"
    /\ \/ enabled /\ lines' = lines + 1 /\ UNCHANGED lost
       \/ enabled /\ lost' = lost + 1 /\ UNCHANGED lines
       \/ ~ enabled /\ UNCHANGED <<lines, lost>>
    /\ call' = [call EXCEPT ![th].at = @ + 1]
    /\ UNCHANGED <<app, context, requests, spans, answered, begun>>

\* Fault: a post-hook that raises ends the chain.
PassPostOrStop(th) ==
    /\ call[th].phase = "post" /\ ~ EndOfChain(th)
    /\ Current(th) \in {"identity", "other"}
    /\ \/ call' = [call EXCEPT ![th].at = @ + 1]
       \/ Current(th) = "other" /\ call' = [call EXCEPT ![th].at = Len(chain) + 1]
    /\ UNCHANGED <<app, context, requests, spans, lines, answered, lost, begun>>

\* LangSmithMetadataHook.post does nothing; another hook may raise, which is swallowed.
PassPost(th) ==
    /\ call[th].phase = "post" /\ ~ EndOfChain(th)
    /\ Current(th) \in {"identity", "other"}
    /\ call' = [call EXCEPT ![th].at = @ + 1]
    /\ UNCHANGED <<app, context, requests, spans, lines, answered, lost, begun>>

ReturnCall(th) ==
    /\ call[th].phase = "post" /\ EndOfChain(th)
    /\ call' = [call EXCEPT ![th] = NoCall]
    /\ UNCHANGED <<app, context, requests, spans, lines, answered, lost, begun>>

-----------------------------------------------------------------------------
(* Export *)

\* Fault: only the spans of the request itself are scrubbed.
ScrubRequests(span) ==
    IF span.mode = "metadata" /\ span.kind # "provider"
    THEN [span EXCEPT !.content = FALSE] ELSE span

\* scrub_span_content: "metadata" spans lose their content, all others pass whole.
Scrub(span) ==
    IF span.mode = "metadata" THEN [span EXCEPT !.content = FALSE] ELSE span

\* ContentScrubbingExporter.export, of the spans that have ended since the last batch.
Export ==
    LET batch == {s \in DOMAIN spans : spans[s].state = "ended"}
    IN  /\ batch # {}
        /\ spans' = [s \in DOMAIN spans |->
                       IF s \in batch THEN [Scrub(spans[s]) EXCEPT !.state = "exported"]
                                      ELSE spans[s]]
        /\ UNCHANGED <<app, context, requests, call, lines, answered, lost, begun>>

Step(th) ==
    \/ \E mode \in Mode : EnterRequest(th, mode)
    \/ ExitRequest(th)
    \/ BeginCall(th)
    \/ OpenSpan(th) \/ StampIdentity(th) \/ PassPre(th) \/ PreRaises(th)
    \/ CallProvider(th) \/ CallFails(th)
    \/ CloseSpan(th) \/ Emit(th) \/ PassPost(th) \/ ReturnCall(th)

Next ==
    \/ \E th \in Thread : Step(th)
    \/ Export

Spec == Init /\ [][Next]_vars
-----------------------------------------------------------------------------
(* Properties *)

AnyMode == Mode \cup {NoMode}

SpanType ==
    [kind : {"request", "call", "provider"}, mode : AnyMode, asked : AnyMode,
     parent : Nat, content : BOOLEAN, identity : BOOLEAN, usage : BOOLEAN,
     aborted : BOOLEAN, state : {"open", "ended", "exported"}]
ContextType == [mode : AnyMode, current : Nat]
RequestType == [mode : Mode, token : ContextType, span : Nat]
CallType == [phase : {"none", "pre", "post"}, at : 1..Len(chain) + 1, span : Nat]

\* Every variable has its type.
TypeOK ==
    /\ chain \in Chains
    /\ enabled \in BOOLEAN
    /\ spans \in Seq(SpanType)
    /\ context \in [Thread -> ContextType]
    /\ requests \in [Thread -> Seq(RequestType)]
    /\ \A th \in Thread : Len(requests[th]) <= MaxDepth
    /\ call \in [Thread -> CallType]
    /\ lines \in Nat /\ answered \in Nat /\ lost \in Nat
    /\ begun \in [requests : 0..MaxRequests, calls : 0..MaxCalls]

\* A span that is spoken of has been started, and a parent before its children.
SpansExist ==
    /\ \A s \in DOMAIN spans : spans[s].parent < s
    /\ \A th \in Thread :
          /\ context[th].current <= Len(spans)
          /\ \A i \in DOMAIN requests[th] :
                requests[th][i].token.current <= Len(spans)

\* Each recorded span carries the mode of the request that its thread was working
\* for, though threads are reused, requests nest and their bodies raise; nothing is
\* recorded of a request that opted out.
ModeIsOfRequest ==
    \A s \in DOMAIN spans : spans[s].mode = spans[s].asked /\ spans[s].asked # "off"

\* What the baggage of a thread says is the mode of its innermost open request, and
\* closing that request brings back the one around it.
ContextOfRequest ==
    \A th \in Thread :
        /\ context[th].mode = RequestMode(th)
        /\ \A i \in DOMAIN requests[th] :
              requests[th][i].token.mode =
                  IF i = 1 THEN NoMode ELSE requests[th][i - 1].mode

\* What has been exported with its content is not of "metadata" mode.
ExportedIsScrubbed ==
    \A s \in DOMAIN spans :
        spans[s].state = "exported" /\ spans[s].content => spans[s].mode # "metadata"

\* The inductive invariant behind ModeIsOfRequest and ContentNeedsConsent.
TelemetryInv ==
    /\ TypeOK
    /\ SpansExist
    /\ ContextOfRequest
    /\ ModeIsOfRequest
    /\ ExportedIsScrubbed

\* The prompts and responses that leave the process are those of requests in "full"
\* mode and of calls made in a thread outside of any request_span, which carry no
\* mode and pass whole (scrubbing.py:131).
ContentNeedsConsent ==
    \A s \in DOMAIN spans :
        spans[s].state = "exported" /\ spans[s].content
            => spans[s].asked \in {"full", NoMode}

\* A request's span outlives those of the calls made in it, but for the calls that
\* were aborted, and is their parent.
RequestOutlivesCalls ==
    \A s \in DOMAIN spans :
        spans[s].parent # NoSpan =>
            /\ spans[spans[s].parent].kind = "request"
            /\ spans[spans[s].parent].state # "open"
                  => spans[s].state # "open" \/ spans[s].aborted

Registered(kind) == \E i \in DOMAIN chain : chain[i] = kind

\* The hooks of the given kind that have run in this phase of the thread's call.
Passed(th, kind) == \E i \in 1..call[th].at - 1 : chain[i] = kind

\* The identity hook finds the span that the span hook has opened.
IdentityAfterSpan ==
    \E i, j \in DOMAIN chain : i < j /\ chain[i] = "span" /\ chain[j] = "identity"

\* The span of a call stays open for ever, and is never exported, exactly if a later
\* pre-hook or the provider raised (hooks.py:53), or the usage of the provider's answer
\* could not be read (wrapper.py:239); that of any other answered call is exported
\* with its usage and, when the identity hook comes after the span hook, with the
\* caller's identity, whenever the batch is flushed.
CallSpansComplete ==
    \A s \in DOMAIN spans : spans[s].kind = "call" =>
        /\ spans[s].aborted => spans[s].state = "open"
        /\ spans[s].state = "open"
              => spans[s].aborted \/ \E th \in Thread : call[th].span = s
        /\ spans[s].state # "open" =>
              /\ spans[s].usage
              /\ IdentityAfterSpan => spans[s].identity

\* Every answered call whose usage is read is reported by one event line or by one
\* logged failure, also when another post-hook raises; with the log disabled by none.
EveryAnswerReported ==
    lines + lost =
        IF enabled /\ Registered("log")
        THEN answered - Cardinality({th \in Thread : /\ call[th].phase = "post"
                                                     /\ ~ Passed(th, "log")})
        ELSE 0

\* The current span of a thread is that of its innermost open request, and closing
\* that request brings back the one around it.
SpanOfRequest ==
    \A th \in Thread :
        /\ context[th].current =
              IF requests[th] = <<>> THEN NoSpan ELSE requests[th][Len(requests[th])].span
        /\ \A i \in DOMAIN requests[th] :
              requests[th][i].token.current =
                  IF i = 1 THEN NoSpan ELSE requests[th][i - 1].span

\* The open spans of requests are those of the open requests, each of one alone.
RequestSpansOpen ==
    /\ \A th \in Thread : \A i \in DOMAIN requests[th] :
          requests[th][i].span # NoSpan =>
              /\ requests[th][i].span \in DOMAIN spans
              /\ spans[requests[th][i].span].kind = "request"
              /\ spans[requests[th][i].span].state = "open"
              /\ spans[requests[th][i].span].parent = requests[th][i].token.current
              /\ \A u \in Thread : \A j \in DOMAIN requests[u] :
                    requests[u][j].span = requests[th][i].span => u = th /\ j = i
    /\ \A s \in DOMAIN spans : spans[s].kind = "request" /\ spans[s].state = "open" =>
          \E th \in Thread : \E i \in DOMAIN requests[th] : requests[th][i].span = s

\* The span of the call that thread th is making is open until the span hook has closed
\* it, and carries the identity as soon as the identity hook has run.
OwnSpan(th) ==
    /\ call[th].phase # "none"
    /\ call[th].span \in DOMAIN spans
    /\ Registered("span")
    /\ call[th].phase = "pre" => Passed(th, "span")
    /\ LET span == spans[call[th].span]
       IN  /\ span.kind = "call" /\ ~ span.aborted
           /\ span.parent = context[th].current
           /\ span.state = "open" <=> (call[th].phase = "pre" \/ ~ Passed(th, "span"))
           /\ IdentityAfterSpan /\ (call[th].phase = "pre" => Passed(th, "identity"))
                 => span.identity

\* A call's span, if it is recorded, belongs to it alone.
CallOwnsSpan ==
    \A th \in Thread : call[th].span # NoSpan =>
        /\ OwnSpan(th)
        /\ \A u \in Thread : call[u].span = call[th].span => u = th

\* The inductive invariant behind RequestOutlivesCalls and CallSpansComplete.
TraceInv ==
    /\ TelemetryInv
    /\ SpanOfRequest
    /\ RequestSpansOpen
    /\ CallOwnsSpan
    /\ \A s \in DOMAIN spans : spans[s].kind = "provider" => spans[s].state # "open"
    /\ RequestOutlivesCalls
    /\ CallSpansComplete
=============================================================================
