-------------------------- MODULE TelemetryProofs --------------------------
(***************************************************************************)
(* The telemetry mode, the lifetime and the contents of every span, and    *)
(* the event lines, for any threads, any nesting of requests, any hooks in *)
(* any order and any number of calls.                                      *)
(***************************************************************************)
EXTENDS Telemetry, SequenceTheorems, FiniteSetTheorems, TLAPS

\* What TelemetryInv says of the spans, of a sequence S of spans.
GoodSpan(S, s) ==
    /\ S[s].parent < s
    /\ S[s].mode = S[s].asked /\ S[s].asked # "off"
    /\ S[s].state = "exported" /\ S[s].content => S[s].mode # "metadata"

GoodSpans(S) ==
    /\ S \in Seq(SpanType)
    /\ \A s \in 1..Len(S) : GoodSpan(S, s)

LEMMA SpansAreGood ==
    ASSUME TelemetryInv
    PROVE  GoodSpans(spans) /\ Len(spans) \in Nat
<1>1. spans \in Seq(SpanType) /\ Len(spans) \in Nat /\ DOMAIN spans = 1..Len(spans)
  BY LenProperties DEF TelemetryInv, TypeOK
<1> QED BY <1>1 DEF GoodSpans, GoodSpan, TelemetryInv, SpansExist, ModeIsOfRequest,
                    ExportedIsScrubbed

\* A span started in a context whose mode is the one asked for is a good one.
LEMMA StartGood ==
    ASSUME GoodSpans(spans), NEW ctx \in ContextType, ctx.current <= Len(spans),
           NEW kind \in {"request", "call", "provider"}, NEW asked, asked = ctx.mode
    PROVE  LET S == Started(ctx, kind, asked)
           IN  /\ GoodSpans(S)
               /\ Len(S) \in Nat /\ Len(spans) <= Len(S)
               /\ StartedAt(ctx) \in Nat /\ StartedAt(ctx) <= Len(S)
<1> DEFINE new == NewSpan(ctx, kind, asked)
           S   == Append(spans, new)
<1>1. spans \in Seq(SpanType) /\ Len(spans) \in Nat
  BY LenProperties DEF GoodSpans
<1>2. CASE ~ Sampled(ctx.mode)
  BY <1>1, <1>2 DEF Started, StartedAt, NoSpan
<1>3. CASE Sampled(ctx.mode)
  <2>1. new \in SpanType
    BY DEF NewSpan, SpanType, ContextType
  <2>2. /\ S \in Seq(SpanType) /\ Len(S) = Len(spans) + 1 /\ S[Len(S)] = new
        /\ \A s \in 1..Len(spans) : S[s] = spans[s]
    BY <1>1, <2>1
  <2>3. GoodSpan(S, Len(S))
    BY <1>1, <1>3, <2>2 DEF GoodSpan, NewSpan, Sampled, ContextType
  <2>4. \A s \in 1..Len(S) : s = Len(S) \/ s \in 1..Len(spans)
    BY <1>1, <2>2
  <2>5. GoodSpans(S)
    BY <2>2, <2>3, <2>4 DEF GoodSpans, GoodSpan
  <2> QED BY <1>1, <1>3, <2>2, <2>5 DEF Started, StartedAt
<1> QED BY <1>2, <1>3

\* So is one that is replaced by another of the same parent and mode.
LEMMA EditGood ==
    ASSUME NEW S, GoodSpans(S), NEW n \in Nat, NEW span,
           n \in 1..Len(S) =>
              /\ span \in SpanType
              /\ span.parent = S[n].parent
              /\ span.mode = S[n].mode /\ span.asked = S[n].asked
              /\ span.state = "exported" /\ span.content => span.mode # "metadata"
    PROVE  GoodSpans([S EXCEPT ![n] = span]) /\ Len([S EXCEPT ![n] = span]) = Len(S)
<1>1. S \in Seq(SpanType) /\ Len(S) \in Nat /\ S \in [1..Len(S) -> SpanType]
  BY LenProperties DEF GoodSpans
<1>2. CASE n \in 1..Len(S)
  <2> DEFINE E == [S EXCEPT ![n] = span]
  <2>1. /\ E \in Seq(SpanType) /\ Len(E) = Len(S)
        /\ \A s \in 1..Len(S) : E[s] = IF s = n THEN span ELSE S[s]
    BY <1>1, <1>2, ExceptSeq
  <2> QED BY <1>2, <2>1 DEF GoodSpans, GoodSpan
<1>3. CASE n \notin 1..Len(S)
  <2>1. [S EXCEPT ![n] = span] = S
    BY <1>1, <1>3
  <2> QED BY <2>1
<1> QED BY <1>2, <1>3

LEMMA EndGood ==
    ASSUME GoodSpans(spans), NEW n \in Nat
    PROVE  GoodSpans(Ended(n)) /\ Len(Ended(n)) = Len(spans)
<1> DEFINE span == [spans[n] EXCEPT !.state = "ended"]
<1>1. n \in 1..Len(spans) => spans[n] \in SpanType
  BY ElementOfSeq DEF GoodSpans
<1>2. n \in 1..Len(spans) =>
         /\ span \in SpanType
         /\ span.parent = spans[n].parent
         /\ span.mode = spans[n].mode /\ span.asked = spans[n].asked
         /\ span.state # "exported"
  BY <1>1 DEF SpanType
<1> HIDE DEF span
<1>3. GoodSpans([spans EXCEPT ![n] = span]) /\ Len([spans EXCEPT ![n] = span]) = Len(spans)
  BY <1>2, EditGood
<1> QED BY <1>3 DEF Ended, span

\* A call's own fields of a span may be set while it is open or ended.
LEMMA MarkGood ==
    ASSUME NEW S, GoodSpans(S), NEW n \in Nat, NEW span,
           n \in 1..Len(S) =>
              \/ span = [S[n] EXCEPT !.identity = TRUE]
              \/ span = [S[n] EXCEPT !.aborted = TRUE]
              \/ span = [S[n] EXCEPT !.usage = TRUE, !.state = "ended"]
    PROVE  GoodSpans([S EXCEPT ![n] = span]) /\ Len([S EXCEPT ![n] = span]) = Len(S)
<1>1. n \in 1..Len(S) => S[n] \in SpanType /\ GoodSpan(S, n)
  BY ElementOfSeq DEF GoodSpans
<1>2. n \in 1..Len(S) =>
         /\ span \in SpanType
         /\ span.parent = S[n].parent
         /\ span.mode = S[n].mode /\ span.asked = S[n].asked
         /\ span.state = "exported" /\ span.content => span.mode # "metadata"
  BY <1>1 DEF SpanType, GoodSpan
<1> QED BY <1>2, EditGood

\* The inductive invariant, from the spans and the types, where contexts and requests
\* are left alone.
LEMMA CallKeeps ==
    ASSUME TelemetryInv,
           UNCHANGED <<chain, enabled, context, requests>>,
           GoodSpans(spans'), Len(spans') \in Nat, Len(spans) <= Len(spans'),
           call' \in [Thread -> CallType],
           begun' \in [requests : 0..MaxRequests, calls : 0..MaxCalls],
           lines' \in Nat, answered' \in Nat, lost' \in Nat
    PROVE  TelemetryInv'
<1>1. spans' \in Seq(SpanType) /\ DOMAIN spans' = 1..Len(spans')
  BY LenProperties DEF GoodSpans
<1>2. TypeOK'
  BY <1>1 DEF TelemetryInv, TypeOK, CallType
<1>3. ContextOfRequest'
  BY DEF TelemetryInv, ContextOfRequest, RequestMode
<1>4. SpansExist'
  <2>1. \A th \in Thread : context[th].current \in Nat
    BY DEF TelemetryInv, TypeOK, ContextType
  <2>2. \A th \in Thread : \A i \in DOMAIN requests[th] :
           requests[th][i].token.current \in Nat
    <3> SUFFICES ASSUME NEW th \in Thread, NEW i \in DOMAIN requests[th]
                 PROVE  requests[th][i].token.current \in Nat
      OBVIOUS
    <3>1. requests[th] \in Seq(RequestType)
      BY DEF TelemetryInv, TypeOK
    <3>2. requests[th][i] \in RequestType
      BY <3>1, LenProperties, ElementOfSeq
    <3> QED BY <3>2 DEF RequestType, ContextType
  <2>3. \A th \in Thread : context'[th].current <= Len(spans')
    BY <2>1, SpansAreGood DEF TelemetryInv, SpansExist
  <2>4. \A th \in Thread : \A i \in DOMAIN requests'[th] :
           requests'[th][i].token.current <= Len(spans')
    BY <2>2, SpansAreGood DEF TelemetryInv, SpansExist
  <2>5. \A s \in DOMAIN spans' : spans'[s].parent < s
    BY <1>1 DEF GoodSpans, GoodSpan
  <2> QED BY <2>3, <2>4, <2>5 DEF SpansExist
<1>5. ModeIsOfRequest' /\ ExportedIsScrubbed'
  BY <1>1 DEF GoodSpans, GoodSpan, ModeIsOfRequest, ExportedIsScrubbed
<1> QED BY <1>2, <1>3, <1>4, <1>5 DEF TelemetryInv

\* The steps of the call of one thread keep the type of `call`.
LEMMA CallTypes ==
    ASSUME TypeOK, NEW th \in Thread
    PROVE  /\ [call EXCEPT ![th] = NoCall] \in [Thread -> CallType]
           /\ [call EXCEPT ![th].phase = "pre"] \in [Thread -> CallType]
           /\ [call EXCEPT ![th].phase = "post", ![th].at = 1] \in [Thread -> CallType]
           /\ ~ EndOfChain(th) =>
                 /\ [call EXCEPT ![th].at = @ + 1] \in [Thread -> CallType]
                 /\ \A n \in Nat : [call EXCEPT ![th].at = @ + 1, ![th].span = n]
                                      \in [Thread -> CallType]
<1>1. chain \in Seq(HookKind) /\ Len(chain) \in Nat
  BY TelemetryAssumption, LenProperties DEF TypeOK
<1>2. call \in [Thread -> CallType] /\ call[th] \in CallType
  BY DEF TypeOK
<1>3. 1 \in 1..Len(chain) + 1
  BY <1>1
<1>4. ~ EndOfChain(th) => call[th].at + 1 \in 1..Len(chain) + 1
  BY <1>1, <1>2 DEF EndOfChain, CallType
<1>5. NoCall \in CallType
  BY <1>3 DEF NoCall, CallType, NoSpan
<1>6. [call EXCEPT ![th].phase = "pre"] \in [Thread -> CallType]
  BY <1>2 DEF CallType
<1>7. [call EXCEPT ![th].phase = "post", ![th].at = 1] \in [Thread -> CallType]
  BY <1>2, <1>3 DEF CallType
<1>8. ~ EndOfChain(th) =>
         /\ [call EXCEPT ![th].at = @ + 1] \in [Thread -> CallType]
         /\ \A n \in Nat : [call EXCEPT ![th].at = @ + 1, ![th].span = n]
                              \in [Thread -> CallType]
  BY <1>2, <1>4 DEF CallType
<1> QED BY <1>2, <1>5, <1>6, <1>7, <1>8

\* What a step of a call may rely on.
LEMMA CallFacts ==
    ASSUME TelemetryInv, NEW th \in Thread
    PROVE  /\ GoodSpans(spans) /\ Len(spans) \in Nat
           /\ call \in [Thread -> CallType] /\ call[th].span \in Nat
           /\ context[th] \in ContextType /\ context[th].current <= Len(spans)
           /\ RequestMode(th) = context[th].mode
           /\ begun \in [requests : 0..MaxRequests, calls : 0..MaxCalls]
           /\ lines \in Nat /\ answered \in Nat /\ lost \in Nat
BY SpansAreGood DEF TelemetryInv, TypeOK, SpansExist, ContextOfRequest, CallType

-----------------------------------------------------------------------------
(* The steps *)

LEMMA EnterKeeps ==
    ASSUME TelemetryInv, NEW th \in Thread, NEW mode \in Mode, EnterRequest(th, mode)
    PROVE  TelemetryInv'
<1> DEFINE ctx == [context[th] EXCEPT !.mode = mode]
           place == StartedAt(ctx)
           new == [mode |-> mode, token |-> context[th], span |-> place]
<1>1. /\ GoodSpans(spans) /\ Len(spans) \in Nat
      /\ context[th] \in ContextType /\ context[th].current <= Len(spans)
      /\ RequestMode(th) = context[th].mode
      /\ context \in [Thread -> ContextType]
      /\ requests \in [Thread -> Seq(RequestType)] /\ requests[th] \in Seq(RequestType)
      /\ Len(requests[th]) \in Nat
  BY CallFacts, LenProperties DEF TelemetryInv, TypeOK
<1>2. ctx \in ContextType /\ ctx.mode = mode /\ ctx.current <= Len(spans)
  BY <1>1 DEF ContextType, AnyMode
<1>3. /\ spans' = Started(ctx, "request", mode)
      /\ context' = [context EXCEPT ![th] = [ctx EXCEPT !.current = place]]
      /\ requests' = [requests EXCEPT ![th] = Append(@, new)]
      /\ Len(requests[th]) < MaxDepth
      /\ begun.requests < MaxRequests /\ begun' = [begun EXCEPT !.requests = @ + 1]
      /\ UNCHANGED <<chain, enabled, call, lines, answered, lost>>
  BY DEF EnterRequest, app
<1>4. /\ GoodSpans(spans') /\ Len(spans') \in Nat /\ Len(spans) <= Len(spans')
      /\ place \in Nat /\ place <= Len(spans')
  BY <1>1, <1>2, <1>3, StartGood
<1>5. /\ new \in RequestType
      /\ Append(requests[th], new) \in Seq(RequestType)
      /\ Len(Append(requests[th], new)) = Len(requests[th]) + 1
      /\ Append(requests[th], new)[Len(requests[th]) + 1] = new
      /\ \A i \in 1..Len(requests[th]) : Append(requests[th], new)[i] = requests[th][i]
  <2>1. new \in RequestType
    BY <1>1, <1>4 DEF RequestType
  <2> HIDE DEF new
  <2> QED BY <1>1, <2>1
<1>6. /\ requests'[th] = Append(requests[th], new)
      /\ context'[th] = [ctx EXCEPT !.current = place]
      /\ \A other \in Thread : other # th =>
            requests'[other] = requests[other] /\ context'[other] = context[other]
  BY <1>1, <1>3
<1>7. spans' \in Seq(SpanType) /\ DOMAIN spans' = 1..Len(spans')
  BY <1>4, LenProperties DEF GoodSpans
<1>8. context' \in [Thread -> ContextType] /\ context'[th].mode = mode
      /\ context'[th].current = place
  BY <1>1, <1>2, <1>3, <1>4, <1>6 DEF ContextType
<1>9. TypeOK'
  <2>1. requests' \in [Thread -> Seq(RequestType)]
    BY <1>1, <1>3, <1>5
  <2>2. \A other \in Thread : Len(requests'[other]) <= MaxDepth
    BY <1>1, <1>3, <1>5, <1>6, TelemetryAssumption DEF TelemetryInv, TypeOK
  <2>3. begun' \in [requests : 0..MaxRequests, calls : 0..MaxCalls]
    <3>1. begun.requests \in 0..MaxRequests /\ begun.calls \in 0..MaxCalls
      BY CallFacts
    <3>2. begun.requests + 1 \in 0..MaxRequests
      BY <1>3, <3>1, TelemetryAssumption
    <3> QED BY <1>3, <3>2, CallFacts
  <2> QED BY <1>3, <1>7, <1>8, <2>1, <2>2, <2>3 DEF TelemetryInv, TypeOK, CallType
<1>10. SpansExist'
  <2>1. \A s \in DOMAIN spans' : spans'[s].parent < s
    BY <1>4, <1>7 DEF GoodSpans, GoodSpan
  <2>2. ASSUME NEW other \in Thread
        PROVE  /\ context'[other].current <= Len(spans')
               /\ \A i \in DOMAIN requests'[other] :
                     requests'[other][i].token.current <= Len(spans')
    <3>1. /\ context[other].current \in Nat /\ context[other].current <= Len(spans)
          /\ requests[other] \in Seq(RequestType)
          /\ DOMAIN requests[other] = 1..Len(requests[other])
      BY <1>1, LenProperties DEF TelemetryInv, SpansExist, ContextType
    <3>2. \A i \in DOMAIN requests[other] :
             /\ requests[other][i].token.current <= Len(spans)
             /\ requests[other][i].token.current \in Nat
      <4>1. \A i \in DOMAIN requests[other] : requests[other][i] \in RequestType
        BY <3>1, ElementOfSeq
      <4> QED BY <4>1 DEF TelemetryInv, SpansExist, RequestType, ContextType
    <3>3. CASE other # th
      <4>1. requests'[other] = requests[other] /\ context'[other] = context[other]
        BY <1>6, <3>3
      <4>2. \A m \in Nat : m <= Len(spans) => m <= Len(spans')
        BY <1>1, <1>4
      <4> QED BY <3>1, <3>2, <4>1, <4>2
    <3>4. CASE other = th
      <4>1. DOMAIN requests'[th] = 1..(Len(requests[th]) + 1)
        BY <1>1, <1>5, <1>6, LenProperties
      <4>2. requests'[th][Len(requests[th]) + 1].token.current <= Len(spans')
        BY <1>1, <1>4, <1>5, <1>6, <3>1, <3>4
      <4>3. \A i \in 1..Len(requests[th]) :
               requests'[th][i].token.current <= Len(spans')
        BY <1>1, <1>4, <1>5, <1>6, <3>1, <3>2, <3>4
      <4>4. \A i \in DOMAIN requests'[th] :
               requests'[th][i].token.current <= Len(spans')
        BY <1>1, <4>1, <4>2, <4>3
      <4> QED BY <1>4, <1>8, <3>4, <4>4
    <3> QED BY <3>3, <3>4
  <2> QED BY <2>1, <2>2 DEF SpansExist
<1>11. ContextOfRequest'
  <2> SUFFICES ASSUME NEW other \in Thread
               PROVE  /\ context'[other].mode = RequestMode(other)'
                      /\ \A i \in DOMAIN requests'[other] :
                            requests'[other][i].token.mode =
                               IF i = 1 THEN NoMode ELSE requests'[other][i - 1].mode
    BY DEF ContextOfRequest
  <2>1. CASE other # th
    BY <1>6, <2>1 DEF TelemetryInv, ContextOfRequest, RequestMode
  <2>2. CASE other = th
    <3> DEFINE n == Len(requests[th])
    <3>1. /\ DOMAIN requests'[th] = 1..n + 1 /\ Len(requests'[th]) = n + 1
          /\ DOMAIN requests[th] = 1..n /\ n \in Nat
          /\ requests'[th] # <<>>
      <4>1. requests'[th] \in Seq(RequestType) /\ Len(requests'[th]) = n + 1
        BY <1>5, <1>6
      <4>2. DOMAIN requests'[th] = 1..n + 1
        BY <4>1, LenProperties
      <4>3. n + 1 # 0 /\ Len(<<>>) = 0
        BY <1>1
      <4> QED BY <1>1, <4>1, <4>2, <4>3, LenProperties
    <3>2. context'[th].mode = RequestMode(th)'
      <4>1. requests'[th][n + 1].mode = mode
        BY <1>5, <1>6
      <4> QED BY <1>8, <3>1, <4>1 DEF RequestMode
    <3>3. \A i \in 1..n : requests'[th][i].token.mode =
                             IF i = 1 THEN NoMode ELSE requests'[th][i - 1].mode
      <4>1. \A i \in 1..n : requests[th][i].token.mode =
                               IF i = 1 THEN NoMode ELSE requests[th][i - 1].mode
        BY <3>1 DEF TelemetryInv, ContextOfRequest
      <4>2. \A i \in 1..n : i # 1 => i - 1 \in 1..n
        BY <3>1
      <4>3. \A i \in 1..n : requests'[th][i] = requests[th][i]
        BY <1>5, <1>6
      <4> QED BY <4>1, <4>2, <4>3
    <3>4. requests'[th][n + 1].token.mode =
             IF n + 1 = 1 THEN NoMode ELSE requests'[th][(n + 1) - 1].mode
      <4>1. requests'[th][n + 1].token.mode = RequestMode(th)
        BY <1>1, <1>5, <1>6
      <4>2. CASE n = 0
        <5>1. requests[th] = <<>>
          BY <1>1, <4>2, EmptySeq
        <5> QED BY <4>1, <4>2, <5>1 DEF RequestMode
      <4>3. CASE n # 0
        <5>1. requests[th] # <<>>
          BY <4>3
        <5>2. RequestMode(th) = requests[th][n].mode
          BY <5>1 DEF RequestMode
        <5>3. (n + 1) - 1 = n /\ n \in 1..n /\ n + 1 # 1
          BY <3>1, <4>3
        <5>4. requests'[th][n] = requests[th][n]
          BY <1>5, <1>6, <5>3
        <5> QED BY <4>1, <5>2, <5>3, <5>4
      <4> QED BY <4>2, <4>3
    <3>5. \A i \in 1..n + 1 : i \in 1..n \/ i = n + 1
      BY <3>1
    <3>6. \A i \in DOMAIN requests'[th] : requests'[th][i].token.mode =
             IF i = 1 THEN NoMode ELSE requests'[th][i - 1].mode
      <4> HIDE DEF n
      <4> QED BY <3>1, <3>3, <3>4, <3>5
    <3> QED BY <2>2, <3>2, <3>6
  <2> QED BY <2>1, <2>2
<1>12. ModeIsOfRequest' /\ ExportedIsScrubbed'
  BY <1>4, <1>7 DEF GoodSpans, GoodSpan, ModeIsOfRequest, ExportedIsScrubbed
<1> QED BY <1>9, <1>10, <1>11, <1>12 DEF TelemetryInv

\* What is left of the requests of a thread when the innermost one is closed.
LEMMA Popped ==
    ASSUME TelemetryInv, NEW th \in Thread, ExitRequest(th), NEW n, n = Len(requests[th])
    PROVE  /\ n \in Nat /\ n >= 1 /\ DOMAIN requests[th] = 1..n
           /\ requests'[th] \in Seq(RequestType) /\ Len(requests'[th]) = n - 1
           /\ DOMAIN requests'[th] = 1..n - 1
           /\ \A i \in 1..n - 1 : requests'[th][i] = requests[th][i] /\ i \in 1..n
           /\ \A other \in Thread : other # th => requests'[other] = requests[other]
<1>1. /\ requests \in [Thread -> Seq(RequestType)] /\ requests[th] \in Seq(RequestType)
      /\ n \in Nat /\ DOMAIN requests[th] = 1..n
  BY LenProperties DEF TelemetryInv, TypeOK
<1>2. n >= 1
  <2>1. n # 0
    BY <1>1, EmptySeq DEF ExitRequest
  <2> QED BY <1>1, <2>1
<1>3. requests' = [requests EXCEPT ![th] = SubSeq(@, 1, n - 1)]
  BY DEF ExitRequest
<1>4. \A i \in 1..n - 1 : i \in 1..n
  BY <1>1
<1>5. /\ SubSeq(requests[th], 1, n - 1) \in Seq(RequestType)
      /\ Len(SubSeq(requests[th], 1, n - 1)) = n - 1
      /\ \A i \in 1..n - 1 : SubSeq(requests[th], 1, n - 1)[i] = requests[th][i]
  <2>1. \A i \in 1..n - 1 : requests[th][i] \in RequestType
    BY <1>1, <1>4, ElementOfSeq
  <2>2. /\ SubSeq(requests[th], 1, n - 1) \in Seq(RequestType)
        /\ Len(SubSeq(requests[th], 1, n - 1)) = IF 1 <= n - 1 THEN (n - 1) - 1 + 1 ELSE 0
        /\ \A i \in 1..((n - 1) - 1 + 1) :
              SubSeq(requests[th], 1, n - 1)[i] = requests[th][1 + i - 1]
    BY <1>1, <2>1, SubSeqProperties
  <2>3. (n - 1) - 1 + 1 = n - 1 /\ \A i \in 1..n - 1 : 1 + i - 1 = i
    BY <1>1
  <2>4. (IF 1 <= n - 1 THEN (n - 1) - 1 + 1 ELSE 0) = n - 1
    BY <1>1, <1>2
  <2> QED BY <2>2, <2>3, <2>4
<1>6. /\ requests'[th] = SubSeq(requests[th], 1, n - 1)
      /\ \A other \in Thread : other # th => requests'[other] = requests[other]
  BY <1>1, <1>3
<1> QED BY <1>1, <1>2, <1>4, <1>5, <1>6, LenProperties

\* Closing a request brings back the context around it.
LEMMA ExitKeeps ==
    ASSUME TelemetryInv, NEW th \in Thread, ExitRequest(th)
    PROVE  TelemetryInv'
<1> DEFINE n == Len(requests[th])
           last == requests[th][n]
<1>1. /\ requests \in [Thread -> Seq(RequestType)] /\ requests[th] \in Seq(RequestType)
      /\ context \in [Thread -> ContextType]
      /\ n \in Nat /\ DOMAIN requests[th] = 1..n
      /\ GoodSpans(spans) /\ Len(spans) \in Nat
  BY CallFacts, LenProperties DEF TelemetryInv, TypeOK
<1>2. n \in 1..n /\ n >= 1
  BY Popped
<1>3. last \in RequestType /\ last.token \in ContextType /\ last.span \in Nat
  <2>1. last \in RequestType
    BY <1>1, <1>2, ElementOfSeq
  <2> QED BY <2>1 DEF RequestType
<1>4. /\ spans' = Ended(last.span)
      /\ context' = [context EXCEPT ![th] = last.token]
      /\ requests' = [requests EXCEPT ![th] = SubSeq(@, 1, n - 1)]
      /\ UNCHANGED <<chain, enabled, call, lines, answered, lost, begun>>
  BY DEF ExitRequest, app
<1>5. GoodSpans(spans') /\ Len(spans') = Len(spans)
  BY <1>1, <1>3, <1>4, EndGood
<1>6. /\ requests'[th] \in Seq(RequestType) /\ Len(requests'[th]) = n - 1
      /\ DOMAIN requests'[th] = 1..n - 1
      /\ \A i \in 1..n - 1 : requests'[th][i] = requests[th][i] /\ i \in 1..n
      /\ \A other \in Thread : other # th => requests'[other] = requests[other]
  BY Popped
<1>7. /\ context'[th] = last.token
      /\ \A other \in Thread : other # th =>
            requests'[other] = requests[other] /\ context'[other] = context[other]
  BY <1>1, <1>4, <1>6
<1>8. requests' \in [Thread -> Seq(RequestType)]
  BY <1>1, <1>4, <1>6
<1>9. TypeOK'
  <2>1. spans' \in Seq(SpanType)
    BY <1>5 DEF GoodSpans
  <2>2. requests' \in [Thread -> Seq(RequestType)]
    BY <1>8
  <2>3. context' \in [Thread -> ContextType]
    BY <1>1, <1>3, <1>4
  <2>4. \A other \in Thread : Len(requests'[other]) <= MaxDepth
    <3>1. n <= MaxDepth
      BY DEF TelemetryInv, TypeOK
    <3>2. n - 1 <= MaxDepth
      BY <1>1, <3>1, TelemetryAssumption
    <3> QED BY <1>6, <3>2 DEF TelemetryInv, TypeOK
  <2> QED BY <1>4, <2>1, <2>2, <2>3, <2>4 DEF TelemetryInv, TypeOK, CallType
<1>10. SpansExist'
  <2>1. \A s \in DOMAIN spans' : spans'[s].parent < s
    BY <1>5, LenProperties DEF GoodSpans, GoodSpan
  <2>2. last.token.current <= Len(spans)
    BY <1>1, <1>2 DEF TelemetryInv, SpansExist
  <2>3. \A i \in DOMAIN requests'[th] : requests'[th][i].token.current <= Len(spans)
    <3>1. \A i \in 1..n : requests[th][i].token.current <= Len(spans)
      BY <1>1 DEF TelemetryInv, SpansExist
    <3> QED BY <1>6, <3>1
  <2>4. \A other \in Thread : other # th =>
           /\ context'[other].current <= Len(spans)
           /\ \A i \in DOMAIN requests'[other] :
                 requests'[other][i].token.current <= Len(spans)
    BY <1>7 DEF TelemetryInv, SpansExist
  <2> QED BY <1>5, <1>7, <2>1, <2>2, <2>3, <2>4 DEF SpansExist
<1>11. ContextOfRequest'
  <2>1. ASSUME NEW other \in Thread, other # th
        PROVE  /\ context'[other].mode = RequestMode(other)'
               /\ \A i \in DOMAIN requests'[other] :
                     requests'[other][i].token.mode =
                        IF i = 1 THEN NoMode ELSE requests'[other][i - 1].mode
    BY <1>7, <2>1 DEF TelemetryInv, ContextOfRequest, RequestMode
  <2>2. \A i \in 1..n : requests[th][i].token.mode =
                           IF i = 1 THEN NoMode ELSE requests[th][i - 1].mode
    BY <1>1 DEF TelemetryInv, ContextOfRequest
  <2>3. \A i \in DOMAIN requests'[th] : requests'[th][i].token.mode =
           IF i = 1 THEN NoMode ELSE requests'[th][i - 1].mode
    <3>1. \A i \in 1..n - 1 : i # 1 => i - 1 \in 1..n - 1
      BY <1>1
    <3> QED BY <1>6, <2>2, <3>1
  <2>4. context'[th].mode = RequestMode(th)'
    <3>1. last.token.mode = IF n = 1 THEN NoMode ELSE requests[th][n - 1].mode
      BY <1>2, <2>2
    <3>2. CASE n = 1
      <4>1. requests'[th] = <<>>
        BY <1>6, <3>2, EmptySeq
      <4> QED BY <1>7, <3>1, <3>2, <4>1 DEF RequestMode
    <3>3. CASE n # 1
      <4>1. n - 1 \in 1..n - 1 /\ n - 1 # 0
        BY <1>1, <1>2, <3>3
      <4>2. requests'[th] # <<>>
        <5>1. Len(<<>>) = 0
          OBVIOUS
        <5> QED BY <1>6, <4>1, <5>1
      <4>3. requests'[th][n - 1] = requests[th][n - 1]
        BY <1>6, <4>1
      <4>4. RequestMode(th)' = requests'[th][n - 1].mode
        BY <1>6, <4>2 DEF RequestMode
      <4> QED BY <1>7, <3>1, <3>3, <4>3, <4>4
    <3> QED BY <3>2, <3>3
  <2> QED BY <2>1, <2>3, <2>4 DEF ContextOfRequest
<1>12. ModeIsOfRequest' /\ ExportedIsScrubbed'
  BY <1>5, LenProperties DEF GoodSpans, GoodSpan, ModeIsOfRequest, ExportedIsScrubbed
<1> QED BY <1>9, <1>10, <1>11, <1>12 DEF TelemetryInv

\* The steps that record nothing on a span.
LEMMA QuietKeeps ==
    ASSUME TelemetryInv, NEW th \in Thread,
           BeginCall(th) \/ PassPre(th) \/ Emit(th) \/ PassPost(th) \/ ReturnCall(th)
    PROVE  TelemetryInv'
<1>1. UNCHANGED <<chain, enabled, context, requests, spans>>
  BY DEF BeginCall, PassPre, Emit, PassPost, ReturnCall, app
<1>2. call' \in [Thread -> CallType]
  <2>1. \/ call' = [call EXCEPT ![th] = NoCall]
        \/ call' = [call EXCEPT ![th].phase = "pre"]
        \/ ~ EndOfChain(th) /\ call' = [call EXCEPT ![th].at = @ + 1]
    BY DEF BeginCall, PassPre, Emit, PassPost, ReturnCall
  <2> QED BY <2>1, CallTypes DEF TelemetryInv
<1>3. begun' \in [requests : 0..MaxRequests, calls : 0..MaxCalls]
  <2>1. CASE BeginCall(th)
    <3>1. begun.calls \in 0..MaxCalls /\ begun.calls < MaxCalls
      BY <2>1, CallFacts DEF BeginCall
    <3>2. begun.calls + 1 \in 0..MaxCalls
      BY <3>1, TelemetryAssumption
    <3> QED BY <2>1, <3>2, CallFacts DEF BeginCall
  <2>2. CASE ~ BeginCall(th)
    BY <2>2, CallFacts DEF PassPre, Emit, PassPost, ReturnCall
  <2> QED BY <2>1, <2>2
<1>4. lines' \in Nat /\ answered' \in Nat /\ lost' \in Nat
  BY CallFacts DEF BeginCall, PassPre, Emit, PassPost, ReturnCall
<1>5. GoodSpans(spans') /\ Len(spans') \in Nat /\ Len(spans) <= Len(spans')
  BY <1>1, SpansAreGood
<1> QED BY <1>1, <1>2, <1>3, <1>4, <1>5, CallKeeps

LEMMA OpenKeeps ==
    ASSUME TelemetryInv, NEW th \in Thread, OpenSpan(th)
    PROVE  TelemetryInv'
<1>1. /\ UNCHANGED <<chain, enabled, context, requests, lines, answered, lost, begun>>
      /\ ~ EndOfChain(th)
      /\ spans' = Started(context[th], "call", RequestMode(th))
      /\ call' = [call EXCEPT ![th].at = @ + 1, ![th].span = StartedAt(context[th])]
  BY DEF OpenSpan, app
<1>2. /\ GoodSpans(spans') /\ Len(spans') \in Nat /\ Len(spans) <= Len(spans')
      /\ StartedAt(context[th]) \in Nat
  BY <1>1, CallFacts, StartGood
<1>3. call' \in [Thread -> CallType]
  BY <1>1, <1>2, CallTypes DEF TelemetryInv
<1> QED BY <1>1, <1>2, <1>3, CallFacts, CallKeeps

\* The steps that set the fields of the call's own span.
LEMMA MarkKeeps ==
    ASSUME TelemetryInv, NEW th \in Thread, StampIdentity(th) \/ CloseSpan(th)
    PROVE  TelemetryInv'
<1> DEFINE n == call[th].span
<1>1. /\ UNCHANGED <<chain, enabled, context, requests, lines, answered, lost, begun>>
      /\ ~ EndOfChain(th)
      /\ call' = [call EXCEPT ![th].at = @ + 1]
  BY DEF StampIdentity, CloseSpan, app
<1>2. \/ spans' = spans
      \/ spans' = [spans EXCEPT ![n] = [spans[n] EXCEPT !.identity = TRUE]]
      \/ spans' = [spans EXCEPT ![n] = [spans[n] EXCEPT !.usage = TRUE, !.state = "ended"]]
  BY DEF StampIdentity, CloseSpan
<1>3. GoodSpans(spans') /\ Len(spans') = Len(spans)
  <2> DEFINE stamped == [spans[n] EXCEPT !.identity = TRUE]
             closed  == [spans[n] EXCEPT !.usage = TRUE, !.state = "ended"]
  <2>1. GoodSpans(spans) /\ n \in Nat
    BY CallFacts
  <2>2. /\ GoodSpans([spans EXCEPT ![n] = stamped])
        /\ Len([spans EXCEPT ![n] = stamped]) = Len(spans)
    BY <2>1, MarkGood
  <2>3. /\ GoodSpans([spans EXCEPT ![n] = closed])
        /\ Len([spans EXCEPT ![n] = closed]) = Len(spans)
    BY <2>1, MarkGood
  <2> QED BY <1>2, <2>1, <2>2, <2>3
<1>4. call' \in [Thread -> CallType]
  BY <1>1, CallTypes DEF TelemetryInv
<1>5. Len(spans') \in Nat /\ Len(spans) <= Len(spans')
  BY <1>3, CallFacts
<1> QED BY <1>1, <1>3, <1>4, <1>5, CallFacts, CallKeeps

\* The end of a call that was not answered.
LEMMA AbandonKeeps ==
    ASSUME TelemetryInv, NEW th \in Thread, NEW seen, Abandon(th, seen),
           GoodSpans(seen), Len(seen) \in Nat, Len(spans) <= Len(seen)
    PROVE  TelemetryInv'
<1> DEFINE n == call[th].span
<1>1. /\ UNCHANGED <<chain, enabled, context, requests, lines, answered, lost, begun>>
      /\ call' = [call EXCEPT ![th] = NoCall]
      /\ \/ spans' = seen
         \/ spans' = [seen EXCEPT ![n] = [seen[n] EXCEPT !.aborted = TRUE]]
  BY DEF Abandon, app
<1>2. GoodSpans(spans') /\ Len(spans') = Len(seen)
  <2> DEFINE aborted == [seen[n] EXCEPT !.aborted = TRUE]
  <2>1. n \in Nat
    BY CallFacts
  <2>2. /\ GoodSpans([seen EXCEPT ![n] = aborted])
        /\ Len([seen EXCEPT ![n] = aborted]) = Len(seen)
    BY <2>1, MarkGood
  <2> QED BY <1>1, <2>2
<1>3. call' \in [Thread -> CallType]
  BY <1>1, CallTypes DEF TelemetryInv
<1> QED BY <1>1, <1>2, <1>3, CallFacts, CallKeeps

LEMMA ProviderKeeps ==
    ASSUME TelemetryInv, NEW th \in Thread,
           CallProvider(th) \/ CallFails(th) \/ PreRaises(th)
    PROVE  TelemetryInv'
<1> DEFINE seen == Started(context[th], "provider", RequestMode(th))
<1>1. GoodSpans(seen) /\ Len(seen) \in Nat /\ Len(spans) <= Len(seen)
  BY CallFacts, StartGood
<1>2. CASE CallProvider(th)
  <2>1. /\ UNCHANGED <<chain, enabled, context, requests, lines, lost, begun>>
        /\ spans' \in {spans, seen}
        /\ call' = [call EXCEPT ![th].phase = "post", ![th].at = 1]
        /\ answered' = answered + 1
    BY <1>2 DEF CallProvider, app
  <2>2. GoodSpans(spans') /\ Len(spans') \in Nat /\ Len(spans) <= Len(spans')
    BY <1>1, <2>1, CallFacts
  <2>3. call' \in [Thread -> CallType]
    BY <2>1, CallTypes DEF TelemetryInv
  <2>4. answered' \in Nat
    BY <2>1, CallFacts
  <2> QED BY <2>1, <2>2, <2>3, <2>4, CallFacts, CallKeeps
<1>3. CASE CallFails(th)
  <2>1. PICK left \in {spans, seen} : Abandon(th, left)
    BY <1>3 DEF CallFails
  <2>2. GoodSpans(left) /\ Len(left) \in Nat /\ Len(spans) <= Len(left)
    BY <1>1, <2>1, CallFacts
  <2> QED BY <2>1, <2>2, AbandonKeeps
<1>4. CASE PreRaises(th)
  BY <1>4, CallFacts, AbandonKeeps DEF PreRaises
<1> QED BY <1>2, <1>3, <1>4

\* A batch is scrubbed on its way out.
LEMMA ExportKeeps ==
    ASSUME TelemetryInv, Export
    PROVE  TelemetryInv'
<1> DEFINE batch == {s \in DOMAIN spans : spans[s].state = "ended"}
           sent(s) == IF s \in batch THEN [Scrub(spans[s]) EXCEPT !.state = "exported"]
                                     ELSE spans[s]
<1>1. /\ GoodSpans(spans) /\ spans \in Seq(SpanType) /\ Len(spans) \in Nat
      /\ DOMAIN spans = 1..Len(spans)
  BY SpansAreGood, LenProperties DEF GoodSpans
<1>2. /\ UNCHANGED <<chain, enabled, context, requests, call, lines, answered, lost, begun>>
      /\ spans' = [s \in 1..Len(spans) |-> sent(s)]
  BY <1>1 DEF Export, app
<1>3. ASSUME NEW s \in 1..Len(spans)
      PROVE  /\ sent(s) \in SpanType
             /\ sent(s).parent < s
             /\ sent(s).mode = sent(s).asked /\ sent(s).asked # "off"
             /\ sent(s).state = "exported" /\ sent(s).content => sent(s).mode # "metadata"
  <2>1. spans[s] \in SpanType /\ GoodSpan(spans, s)
    BY <1>1, ElementOfSeq DEF GoodSpans
  <2>2. CASE s \in batch
    BY <2>1, <2>2 DEF SpanType, GoodSpan, Scrub
  <2>3. CASE s \notin batch
    BY <2>1, <2>3 DEF GoodSpan
  <2> QED BY <2>2, <2>3
<1> HIDE DEF sent
<1>4. spans' \in [1..Len(spans) -> SpanType]
  BY <1>2, <1>3
<1>5. spans' \in Seq(SpanType) /\ Len(spans') = Len(spans)
  <2>1. spans' \in Seq(SpanType)
    BY <1>1, <1>4, SeqDef
  <2>2. DOMAIN spans' = 1..Len(spans) /\ DOMAIN spans' = 1..Len(spans') /\ Len(spans') \in Nat
    BY <1>4, <2>1, LenProperties
  <2> QED BY <1>1, <2>1, <2>2
<1>6. \A s \in 1..Len(spans) : spans'[s] = sent(s)
  BY <1>2
<1>7. GoodSpans(spans')
  BY <1>3, <1>5, <1>6 DEF GoodSpans, GoodSpan
<1>8. call' \in [Thread -> CallType]
  BY <1>2 DEF TelemetryInv, TypeOK
<1>9. /\ begun' \in [requests : 0..MaxRequests, calls : 0..MaxCalls]
      /\ lines' \in Nat /\ answered' \in Nat /\ lost' \in Nat
  BY <1>2 DEF TelemetryInv, TypeOK
<1>10. Len(spans') \in Nat /\ Len(spans) <= Len(spans')
  BY <1>1, <1>5
<1> QED BY <1>2, <1>7, <1>8, <1>9, <1>10, CallKeeps

LEMMA InitKeeps == Init => TelemetryInv
<1> SUFFICES ASSUME Init PROVE TelemetryInv
  OBVIOUS
<1>1. /\ spans = <<>> /\ spans \in Seq(SpanType) /\ Len(spans) = 0 /\ DOMAIN spans = {}
      /\ chain \in Seq(HookKind) /\ Len(chain) \in Nat
  BY TelemetryAssumption, LenProperties DEF Init
<1>2. 1 \in 1..Len(chain) + 1
  BY <1>1
<1>3. NoCall \in CallType /\ RootContext \in ContextType
  BY <1>2 DEF NoCall, CallType, NoSpan, RootContext, ContextType, AnyMode
<1>4. \A th \in Thread :
         /\ requests[th] = <<>> /\ requests[th] \in Seq(RequestType)
         /\ Len(requests[th]) = 0 /\ DOMAIN requests[th] = {}
         /\ context[th] = RootContext
  BY DEF Init
<1>5. TypeOK
  BY <1>1, <1>3, <1>4, TelemetryAssumption DEF Init, TypeOK
<1>6. SpansExist /\ ContextOfRequest
  BY <1>1, <1>4 DEF SpansExist, ContextOfRequest, RequestMode, RootContext, NoSpan
<1>7. ModeIsOfRequest /\ ExportedIsScrubbed
  BY <1>1 DEF ModeIsOfRequest, ExportedIsScrubbed
<1> QED BY <1>5, <1>6, <1>7 DEF TelemetryInv

-----------------------------------------------------------------------------
\* The baggage of every thread is that of its innermost request, and every span is of
\* the mode that baggage gave it, whatever hooks run and whatever raises.
THEOREM TelemetryInvariant == Spec => []TelemetryInv
<1>1. TelemetryInv /\ [Next]_vars => TelemetryInv'
  <2> SUFFICES ASSUME TelemetryInv, [Next]_vars PROVE TelemetryInv'
    OBVIOUS
  <2>1. ASSUME NEW th \in Thread, NEW mode \in Mode, EnterRequest(th, mode)
        PROVE  TelemetryInv'
    BY <2>1, EnterKeeps
  <2>2. ASSUME NEW th \in Thread, ExitRequest(th) PROVE TelemetryInv'
    BY <2>2, ExitKeeps
  <2>3. ASSUME NEW th \in Thread,
               BeginCall(th) \/ PassPre(th) \/ Emit(th) \/ PassPost(th) \/ ReturnCall(th)
        PROVE  TelemetryInv'
    BY <2>3, QuietKeeps
  <2>4. ASSUME NEW th \in Thread, OpenSpan(th) PROVE TelemetryInv'
    BY <2>4, OpenKeeps
  <2>5. ASSUME NEW th \in Thread, StampIdentity(th) \/ CloseSpan(th) PROVE TelemetryInv'
    BY <2>5, MarkKeeps
  <2>6. ASSUME NEW th \in Thread, CallProvider(th) \/ CallFails(th) \/ PreRaises(th)
        PROVE  TelemetryInv'
    BY <2>6, ProviderKeeps
  <2>7. CASE Export
    BY <2>7, ExportKeeps
  <2>8. CASE UNCHANGED vars
    BY <2>8 DEF vars, app, TelemetryInv, TypeOK, SpansExist, ContextOfRequest,
                RequestMode, ModeIsOfRequest, ExportedIsScrubbed, CallType
  <2> QED BY <2>1, <2>2, <2>3, <2>4, <2>5, <2>6, <2>7, <2>8 DEF Next, Step
<1> QED BY <1>1, InitKeeps, PTL DEF Spec

\* Every span carries the mode of its request.
THEOREM ModeCorrect == Spec => []ModeIsOfRequest
<1>1. TelemetryInv => ModeIsOfRequest
  BY DEF TelemetryInv
<1> QED BY <1>1, TelemetryInvariant, PTL

\* Content leaves the process with consent, or from outside of any request.
THEOREM ConsentCorrect == Spec => []ContentNeedsConsent
<1>1. TelemetryInv => ContentNeedsConsent
  <2> SUFFICES ASSUME TelemetryInv, NEW s \in DOMAIN spans,
                      spans[s].state = "exported", spans[s].content
               PROVE  spans[s].asked \in {"full", NoMode}
    BY DEF ContentNeedsConsent
  <2>1. spans[s] \in SpanType
    BY LenProperties, ElementOfSeq DEF TelemetryInv, TypeOK
  <2>2. /\ spans[s].mode = spans[s].asked /\ spans[s].asked # "off"
        /\ spans[s].mode # "metadata"
    BY DEF TelemetryInv, ModeIsOfRequest, ExportedIsScrubbed
  <2> QED BY <2>1, <2>2 DEF SpanType, AnyMode, Mode
<1> QED BY <1>1, TelemetryInvariant, PTL

-----------------------------------------------------------------------------
(* The spans of requests and calls *)

\* Spans are numbered as they are started, a parent before its children.
LEMMA ParentsFirst ==
    ASSUME TelemetryInv
    PROVE  /\ Len(spans) \in Nat /\ DOMAIN spans = 1..Len(spans)
           /\ \A s \in 1..Len(spans) : spans[s].parent \in Nat /\ spans[s].parent < s
<1>1. spans \in Seq(SpanType) /\ Len(spans) \in Nat /\ DOMAIN spans = 1..Len(spans)
  BY LenProperties DEF TelemetryInv, TypeOK
<1>2. \A s \in 1..Len(spans) : spans[s] \in SpanType
  BY <1>1, ElementOfSeq
<1> QED BY <1>1, <1>2 DEF SpanType, TelemetryInv, SpansExist

\* The types of what a step reads.
LEMMA SpanFacts ==
    ASSUME TelemetryInv
    PROVE  /\ spans \in Seq(SpanType) /\ Len(spans) \in Nat /\ DOMAIN spans = 1..Len(spans)
           /\ \A s \in 1..Len(spans) :
                 /\ spans[s] \in SpanType
                 /\ spans[s].parent \in Nat /\ spans[s].parent < s
           /\ \A th \in Thread :
                 /\ context[th].current \in Nat
                 /\ requests[th] \in Seq(RequestType) /\ Len(requests[th]) \in Nat
                 /\ DOMAIN requests[th] = 1..Len(requests[th])
                 /\ call[th] \in CallType
           /\ chain \in Seq(HookKind) /\ Len(chain) \in Nat /\ DOMAIN chain = 1..Len(chain)
<1>1. spans \in Seq(SpanType) /\ Len(spans) \in Nat /\ DOMAIN spans = 1..Len(spans)
  BY LenProperties DEF TelemetryInv, TypeOK
<1>2. \A s \in 1..Len(spans) : spans[s] \in SpanType
  BY <1>1, ElementOfSeq
<1>3. \A s \in 1..Len(spans) : spans[s].parent \in Nat /\ spans[s].parent < s
  BY ParentsFirst
<1>4. ASSUME NEW th \in Thread
      PROVE  /\ context[th].current \in Nat
             /\ requests[th] \in Seq(RequestType) /\ Len(requests[th]) \in Nat
             /\ DOMAIN requests[th] = 1..Len(requests[th])
             /\ call[th] \in CallType
  BY LenProperties DEF TelemetryInv, TypeOK, ContextType
<1>5. chain \in Seq(HookKind) /\ Len(chain) \in Nat /\ DOMAIN chain = 1..Len(chain)
  BY TelemetryAssumption, LenProperties DEF TelemetryInv, TypeOK
<1> QED BY <1>1, <1>2, <1>3, <1>4, <1>5

\* The span that is current in a thread is that of an open request.
LEMMA CurrentIsOpen ==
    ASSUME TraceInv, NEW th \in Thread, context[th].current # NoSpan
    PROVE  /\ context[th].current \in 1..Len(spans)
           /\ spans[context[th].current].kind = "request"
           /\ spans[context[th].current].state = "open"
           /\ Len(requests[th]) \in DOMAIN requests[th]
           /\ requests[th][Len(requests[th])].span = context[th].current
<1>1. requests[th] # <<>> /\ context[th].current = requests[th][Len(requests[th])].span
  BY DEF TraceInv, SpanOfRequest
<1>2. /\ requests[th] \in Seq(RequestType) /\ Len(requests[th]) \in Nat
      /\ DOMAIN requests[th] = 1..Len(requests[th]) /\ DOMAIN spans = 1..Len(spans)
  BY SpanFacts DEF TraceInv
<1>3. Len(requests[th]) # 0
  BY <1>1, <1>2, EmptySeq
<1>4. Len(requests[th]) \in DOMAIN requests[th]
  BY <1>2, <1>3
<1> QED BY <1>1, <1>2, <1>4 DEF TraceInv, RequestSpansOpen

\* Hooks of one kind, other than "other", are at one place.
LEMMA OnePlace ==
    ASSUME TelemetryInv, NEW i \in 1..Len(chain), NEW j \in 1..Len(chain),
           chain[i] = chain[j], chain[i] # "other"
    PROVE  i = j
BY ChainAssumption, SpanFacts DEF TelemetryInv, TypeOK

\* Two spans that the properties of this section do not tell apart.
Alike(a, b) ==
    /\ a.kind = b.kind /\ a.parent = b.parent
    /\ a.aborted = b.aborted /\ a.identity = b.identity /\ a.usage = b.usage
    /\ a.state = "open" <=> b.state = "open"

\* A call's span is done with: it was aborted and stays open, or is complete.
Done(span) ==
    \/ span.aborted /\ span.state = "open"
    \/ ~ span.aborted /\ span.state # "open" /\ span.usage
       /\ (IdentityAfterSpan => span.identity)

\* What a step of the call of thread th may do: its own span changes, is done with, or
\* is a new one; the others do not.
CallStep(th) ==
    /\ UNCHANGED <<chain, enabled, context, requests>>
    /\ \A u \in Thread : u # th => call'[u] = call[u]
    /\ Len(spans) <= Len(spans')
    /\ \A s \in 1..Len(spans) :
          \/ Alike(spans'[s], spans[s])
          \/ /\ s = call[th].span
             /\ spans'[s].kind = spans[s].kind /\ spans'[s].parent = spans[s].parent
    /\ \A s \in Len(spans) + 1..Len(spans') :
          /\ spans'[s].parent = context[th].current
          /\ \/ spans'[s].kind = "provider" /\ spans'[s].state # "open"
             \/ /\ spans'[s].kind = "call" /\ spans'[s].state = "open"
                /\ ~ spans'[s].aborted /\ s = call'[th].span
    /\ call[th].span # NoSpan =>
          \/ /\ call'[th].span = call[th].span /\ OwnSpan(th)'
             /\ spans'[call[th].span].state # "open" =>
                   /\ spans'[call[th].span].usage
                   /\ IdentityAfterSpan => spans'[call[th].span].identity
          \/ call'[th].span = NoSpan /\ Done(spans'[call[th].span])
    /\ call[th].span = NoSpan =>
          \/ call'[th].span = NoSpan
          \/ call'[th].span = Len(spans) + 1 /\ OwnSpan(th)'

LEMMA CallStepKeeps ==
    ASSUME TraceInv, TelemetryInv', NEW th \in Thread, CallStep(th)
    PROVE  TraceInv'
<1> DEFINE own == call[th].span
<1>1. /\ Len(spans) \in Nat /\ DOMAIN spans = 1..Len(spans)
      /\ \A s \in 1..Len(spans) : spans[s].parent \in Nat /\ spans[s].parent < s
  BY SpanFacts DEF TraceInv
<1>2. /\ Len(spans') \in Nat /\ DOMAIN spans' = 1..Len(spans')
      /\ \A s \in 1..Len(spans') : spans'[s].parent \in Nat /\ spans'[s].parent < s
  <2>1. (/\ Len(spans) \in Nat /\ DOMAIN spans = 1..Len(spans)
         /\ \A s \in 1..Len(spans) : spans[s].parent \in Nat /\ spans[s].parent < s)'
    BY ParentsFirst, PTL
  <2> QED BY <2>1
<1>3. /\ UNCHANGED <<chain, enabled, context, requests>>
      /\ \A u \in Thread : u # th => call'[u] = call[u]
      /\ Len(spans) <= Len(spans')
  BY DEF CallStep
<1>4. \A s \in 1..Len(spans') : s \in 1..Len(spans) \/ s \in Len(spans) + 1..Len(spans')
  BY <1>1, <1>2, <1>3
<1>5. \A s \in 1..Len(spans) : s \in 1..Len(spans')
  BY <1>1, <1>2, <1>3
<1>6. own # NoSpan => /\ own \in 1..Len(spans) /\ spans[own].kind = "call" /\ OwnSpan(th)
                      /\ spans[own].parent = context[th].current
  BY <1>1 DEF TraceInv, CallOwnsSpan, OwnSpan
<1>7. \A s \in 1..Len(spans) :
         /\ spans'[s].kind = spans[s].kind /\ spans'[s].parent = spans[s].parent
         /\ spans[s].kind # "call" \/ s # own => Alike(spans'[s], spans[s])
  <2> SUFFICES ASSUME NEW s \in 1..Len(spans)
               PROVE  /\ spans'[s].kind = spans[s].kind /\ spans'[s].parent = spans[s].parent
                      /\ spans[s].kind # "call" \/ s # own => Alike(spans'[s], spans[s])
    OBVIOUS
  <2>1. s # NoSpan
    BY DEF NoSpan
  <2> QED BY <1>6, <2>1 DEF CallStep, Alike
<1>8. \A s \in 1..Len(spans) : spans[s].kind # "call" \/ s # own =>
         spans'[s].state = "open" <=> spans[s].state = "open"
  BY <1>7 DEF Alike
<1>9. SpanOfRequest'
  BY <1>3 DEF TraceInv, SpanOfRequest
<1>10. RequestSpansOpen'
  <2>1. \A u \in Thread : \A i \in DOMAIN requests[u] : requests[u][i].span # NoSpan =>
           /\ requests[u][i].span \in 1..Len(spans)
           /\ spans[requests[u][i].span].kind = "request"
           /\ spans[requests[u][i].span].state = "open"
           /\ spans[requests[u][i].span].parent = requests[u][i].token.current
           /\ \A v \in Thread : \A j \in DOMAIN requests[v] :
                 requests[v][j].span = requests[u][i].span => v = u /\ j = i
    BY <1>1 DEF TraceInv, RequestSpansOpen
  <2>2. \A u \in Thread : \A i \in DOMAIN requests[u] : requests[u][i].span # NoSpan =>
           /\ requests[u][i].span \in DOMAIN spans'
           /\ spans'[requests[u][i].span].kind = "request"
           /\ spans'[requests[u][i].span].state = "open"
           /\ spans'[requests[u][i].span].parent = requests[u][i].token.current
    BY <1>2, <1>5, <1>7, <1>8, <2>1
  <2>3. ASSUME NEW s \in DOMAIN spans', spans'[s].kind = "request", spans'[s].state = "open"
        PROVE  \E u \in Thread : \E i \in DOMAIN requests[u] : requests[u][i].span = s
    <3>1. s \in 1..Len(spans)
      BY <1>2, <1>4, <2>3 DEF CallStep
    <3>2. spans[s].kind = "request" /\ spans[s].state = "open"
      BY <1>7, <1>8, <2>3, <3>1
    <3> QED BY <1>1, <3>1, <3>2 DEF TraceInv, RequestSpansOpen
  <2> QED BY <1>3, <2>1, <2>2, <2>3 DEF RequestSpansOpen
<1>11. \A s \in DOMAIN spans' : spans'[s].kind = "provider" => spans'[s].state # "open"
  <2> SUFFICES ASSUME NEW s \in DOMAIN spans', spans'[s].kind = "provider"
               PROVE  spans'[s].state # "open"
    OBVIOUS
  <2>1. CASE s \in 1..Len(spans)
    BY <1>1, <1>7, <1>8, <2>1 DEF TraceInv
  <2>2. CASE s \in Len(spans) + 1..Len(spans')
    BY <2>2 DEF CallStep
  <2> QED BY <1>2, <1>4, <2>1, <2>2
<1>12. RequestOutlivesCalls'
  <2> SUFFICES ASSUME NEW s \in DOMAIN spans', spans'[s].parent # NoSpan
               PROVE  /\ spans'[spans'[s].parent].kind = "request"
                      /\ spans'[spans'[s].parent].state # "open"
                            => spans'[s].state # "open" \/ spans'[s].aborted
    BY DEF RequestOutlivesCalls
  <2>1. CASE spans'[s].parent = context[th].current
    BY <1>7, <1>8, <2>1, CurrentIsOpen
  <2>2. CASE spans'[s].parent # context[th].current
    <3>1. s \in 1..Len(spans)
      BY <1>2, <1>4, <2>2 DEF CallStep
    <3>2. spans'[s].parent = spans[s].parent /\ s # own
      BY <1>6, <1>7, <2>2, <3>1 DEF NoSpan
    <3> DEFINE p == spans[s].parent
    <3>3. p \in 1..Len(spans)
      BY <1>1, <3>1, <3>2 DEF NoSpan
    <3>4. spans[p].kind = "request"
          /\ (spans[p].state # "open" => spans[s].state # "open" \/ spans[s].aborted)
      BY <1>1, <3>1, <3>2 DEF TraceInv, RequestOutlivesCalls
    <3>5. Alike(spans'[s], spans[s]) /\ Alike(spans'[p], spans[p])
      BY <1>7, <3>1, <3>2, <3>3, <3>4
    <3> QED BY <3>2, <3>4, <3>5 DEF Alike
  <2> QED BY <2>1, <2>2
<1>13. IdentityAfterSpan' = IdentityAfterSpan
  BY <1>3 DEF IdentityAfterSpan
<1>14. CallSpansComplete'
  <2> SUFFICES ASSUME NEW s \in DOMAIN spans', spans'[s].kind = "call"
               PROVE  /\ spans'[s].aborted => spans'[s].state = "open"
                      /\ spans'[s].state = "open"
                            => spans'[s].aborted \/ \E u \in Thread : call'[u].span = s
                      /\ spans'[s].state # "open" =>
                            spans'[s].usage /\ (IdentityAfterSpan => spans'[s].identity)
    BY <1>13 DEF CallSpansComplete
  <2>1. CASE s \in Len(spans) + 1..Len(spans')
    BY <2>1 DEF CallStep
  <2>2. CASE s \in 1..Len(spans) /\ s # own
    <3>1. Alike(spans'[s], spans[s]) /\ spans[s].kind = "call"
      BY <1>7, <2>2
    <3>2. /\ spans[s].aborted => spans[s].state = "open"
          /\ spans[s].state = "open"
                => spans[s].aborted \/ \E u \in Thread : call[u].span = s
          /\ spans[s].state # "open" =>
                spans[s].usage /\ (IdentityAfterSpan => spans[s].identity)
      BY <1>1, <2>2, <3>1 DEF TraceInv, CallSpansComplete
    <3>3. \A u \in Thread : call[u].span = s => call'[u].span = s
      BY <1>3, <2>2
    <3> QED BY <3>1, <3>2, <3>3 DEF Alike
  <2>3. CASE s \in 1..Len(spans) /\ s = own
    <3>1. own # NoSpan
      BY <2>3 DEF NoSpan
    <3>2. CASE /\ call'[th].span = own /\ OwnSpan(th)'
               /\ spans'[own].state # "open" =>
                     spans'[own].usage /\ (IdentityAfterSpan => spans'[own].identity)
      BY <2>3, <3>2 DEF OwnSpan
    <3>3. CASE Done(spans'[own])
      BY <2>3, <3>3 DEF Done
    <3> QED BY <3>1, <3>2, <3>3 DEF CallStep
  <2> QED BY <1>2, <1>4, <2>1, <2>2, <2>3
<1>15. CallOwnsSpan'
  <2>1. call'[th].span \in {NoSpan, own, Len(spans) + 1}
    BY DEF CallStep
  <2>2. ASSUME NEW u \in Thread, u # th, call'[u].span # NoSpan
        PROVE  /\ OwnSpan(u)'
               /\ \A v \in Thread : call'[v].span = call'[u].span => v = u
    <3> DEFINE n == call[u].span
    <3>1. call'[u] = call[u] /\ n # NoSpan
      BY <1>3, <2>2
    <3>2. OwnSpan(u) /\ n \in 1..Len(spans) /\ spans[n].kind = "call"
      BY <1>1, <3>1 DEF TraceInv, CallOwnsSpan, OwnSpan
    <3>3. n # own
      BY <2>2, <3>1 DEF TraceInv, CallOwnsSpan
    <3>4. Alike(spans'[n], spans[n]) /\ n \in 1..Len(spans')
      BY <1>5, <1>7, <3>2, <3>3
    <3>5. OwnSpan(u)'
      <4>1. /\ Registered("span")' = Registered("span")
            /\ Passed(u, "span")' = Passed(u, "span")
            /\ Passed(u, "identity")' = Passed(u, "identity")
        BY <1>3, <3>1 DEF Registered, Passed
      <4> QED BY <1>1, <1>2, <1>3, <1>13, <3>1, <3>2, <3>4, <4>1 DEF OwnSpan, Alike
    <3>6. ASSUME NEW v \in Thread, call'[v].span = n
          PROVE  v = u
      <4>1. v # th
        BY <1>1, <2>1, <3>1, <3>2, <3>3, <3>6
      <4> QED BY <1>3, <3>1, <3>6, <4>1 DEF TraceInv, CallOwnsSpan
    <3> QED BY <3>1, <3>5, <3>6
  <2>3. ASSUME call'[th].span # NoSpan
        PROVE  /\ OwnSpan(th)'
               /\ \A v \in Thread : call'[v].span = call'[th].span => v = th
    <3>1. OwnSpan(th)'
      BY <2>3 DEF CallStep
    <3>2. ASSUME NEW v \in Thread, v # th, call'[v].span = call'[th].span
          PROVE  FALSE
      <4>1. call[v].span = call'[th].span /\ call[v].span # NoSpan
        BY <1>3, <2>3, <3>2
      <4>2. call[v].span \in 1..Len(spans)
        BY <1>1, <4>1 DEF TraceInv, CallOwnsSpan, OwnSpan
      <4>3. call[v].span = own
        BY <1>1, <2>1, <4>1, <4>2
      <4> QED BY <3>2, <4>1, <4>3 DEF TraceInv, CallOwnsSpan
    <3> QED BY <3>1, <3>2
  <2> QED BY <2>2, <2>3 DEF CallOwnsSpan
<1> QED BY <1>9, <1>10, <1>11, <1>12, <1>14, <1>15 DEF TraceInv

\* A hook has run once its turn is over.
LEMMA PassedNext ==
    ASSUME TelemetryInv, NEW th \in Thread, ~ EndOfChain(th), chain' = chain,
           call'[th].at = call[th].at + 1, NEW kind
    PROVE  /\ Passed(th, kind)' <=> Passed(th, kind) \/ Current(th) = kind
           /\ call[th].at \in 1..Len(chain)
<1>1. call[th].at \in 1..Len(chain) + 1 /\ Len(chain) \in Nat
  BY SpanFacts DEF CallType
<1>2. call[th].at \in 1..Len(chain)
  BY <1>1 DEF EndOfChain
<1>3. 1..call'[th].at - 1 = (1..call[th].at - 1) \cup {call[th].at}
  BY <1>2
<1> QED BY <1>2, <1>3 DEF Passed, Current

\* A span is replaced by another.
LEMMA Marked ==
    ASSUME TelemetryInv, TelemetryInv', NEW n, NEW span,
           spans' = [spans EXCEPT ![n] = span]
    PROVE  /\ Len(spans') = Len(spans)
           /\ \A s \in 1..Len(spans) : spans'[s] = IF s = n THEN span ELSE spans[s]
<1>1. Len(spans) \in Nat /\ DOMAIN spans = 1..Len(spans)
  BY ParentsFirst
<1>2. (Len(spans) \in Nat /\ DOMAIN spans = 1..Len(spans))'
  BY ParentsFirst, PTL
<1>3. DOMAIN spans' = DOMAIN spans
  OBVIOUS
<1>4. Len(spans') = Len(spans)
  BY <1>1, <1>2, <1>3
<1> QED BY <1>1, <1>4

\* A span is started, or is not recorded.
LEMMA StartedSpans ==
    ASSUME TelemetryInv, NEW ctx, NEW kind, NEW asked
    PROVE  LET S == Started(ctx, kind, asked)
           IN  /\ Len(S) \in Nat /\ Len(spans) <= Len(S)
               /\ \A s \in 1..Len(spans) : S[s] = spans[s]
               /\ \A s \in Len(spans) + 1..Len(S) :
                     s = StartedAt(ctx) /\ S[s] = NewSpan(ctx, kind, asked)
               /\ \/ Sampled(ctx.mode) /\ StartedAt(ctx) = Len(spans) + 1
                                       /\ Len(S) = Len(spans) + 1
                  \/ ~ Sampled(ctx.mode) /\ StartedAt(ctx) = NoSpan
<1> DEFINE new == NewSpan(ctx, kind, asked)
<1>1. spans \in Seq(SpanType) /\ Len(spans) \in Nat
  BY SpanFacts
<1>2. CASE ~ Sampled(ctx.mode)
  <2>1. Started(ctx, kind, asked) = spans /\ StartedAt(ctx) = NoSpan
    BY <1>2 DEF Started, StartedAt
  <2> QED BY <1>1, <1>2, <2>1
<1>3. CASE Sampled(ctx.mode)
  <2>1. Started(ctx, kind, asked) = Append(spans, new) /\ StartedAt(ctx) = Len(spans) + 1
    BY <1>3 DEF Started, StartedAt
  <2> HIDE DEF new
  <2>2. /\ Len(Append(spans, new)) = Len(spans) + 1
        /\ Append(spans, new)[Len(spans) + 1] = new
        /\ \A s \in 1..Len(spans) : Append(spans, new)[s] = spans[s]
    BY <1>1
  <2>3. \A s \in Len(spans) + 1..Len(spans) + 1 : s = Len(spans) + 1
    BY <1>1
  <2> QED BY <1>1, <1>3, <2>1, <2>2, <2>3 DEF new
<1> QED BY <1>2, <1>3

\* What a thread that owns a span may rely on.
LEMMA OwnFacts ==
    ASSUME TraceInv, NEW th \in Thread
    PROVE  /\ call[th] \in CallType /\ call \in [Thread -> CallType]
           /\ call[th].phase = "none" => call[th].span = NoSpan
           /\ call[th].span # NoSpan =>
                 OwnSpan(th) /\ call[th].span \in 1..Len(spans)
           /\ Len(spans) \in Nat /\ DOMAIN spans = 1..Len(spans)
           /\ \A s \in 1..Len(spans) : spans[s] \in SpanType
BY SpanFacts DEF TraceInv, CallOwnsSpan, OwnSpan, TelemetryInv, TypeOK

\* A span stays as it is.
LEMMA AlikeSelf ==
    \A span : Alike(span, span)
BY DEF Alike

LEMMA QuietTrace ==
    ASSUME TraceInv, NEW th \in Thread,
           BeginCall(th) \/ PassPre(th) \/ Emit(th) \/ PassPost(th) \/ ReturnCall(th)
    PROVE  CallStep(th)
<1> DEFINE own == call[th].span
<1>1. /\ UNCHANGED <<chain, enabled, context, requests, spans>>
      /\ \A u \in Thread : u # th => call'[u] = call[u]
  BY OwnFacts DEF BeginCall, PassPre, Emit, PassPost, ReturnCall, app
<1>2. Len(spans) \in Nat /\ Len(spans) + 1..Len(spans') = {} /\ Len(spans) <= Len(spans')
  <2>1. Len(spans) \in Nat /\ Len(spans') = Len(spans)
    BY <1>1, OwnFacts
  <2> QED BY <2>1
<1>3. CASE BeginCall(th)
  <2>1. own = NoSpan
    BY <1>3, OwnFacts DEF BeginCall
  <2>2. call'[th].span = own
    BY <1>3, OwnFacts DEF BeginCall, CallType
  <2> QED BY <1>1, <1>2, <2>1, <2>2, AlikeSelf DEF CallStep
<1>4. CASE PassPre(th) \/ Emit(th) \/ PassPost(th)
  <2>1. /\ call[th].phase \in {"pre", "post"} /\ ~ EndOfChain(th)
        /\ call' = [call EXCEPT ![th].at = @ + 1]
        /\ Current(th) # "span"
        /\ call[th].phase = "pre" => Current(th) # "identity"
    BY <1>4 DEF PassPre, Emit, PassPost
  <2>2. /\ call'[th].at = call[th].at + 1
        /\ call'[th].phase = call[th].phase /\ call'[th].span = own
    BY <2>1, OwnFacts DEF CallType
  <2>3. /\ Passed(th, "span")' <=> Passed(th, "span")
        /\ call[th].phase = "pre" => (Passed(th, "identity")' <=> Passed(th, "identity"))
    BY <1>1, <2>1, <2>2, PassedNext DEF TraceInv
  <2>4. /\ Registered("span")' = Registered("span")
        /\ IdentityAfterSpan' = IdentityAfterSpan
    BY <1>1 DEF Registered, IdentityAfterSpan
  <2>5. ASSUME own # NoSpan
        PROVE  /\ OwnSpan(th)'
               /\ spans'[own].state # "open" =>
                     spans'[own].usage /\ (IdentityAfterSpan => spans'[own].identity)
    <3>1. OwnSpan(th)
      BY <2>5, OwnFacts
    <3>2. OwnSpan(th)'
      BY <1>1, <2>2, <2>3, <2>4, <3>1 DEF OwnSpan
    <3> QED BY <1>1, <3>1, <3>2 DEF OwnSpan, TraceInv, CallSpansComplete
  <2> QED BY <1>1, <1>2, <2>2, <2>5, AlikeSelf DEF CallStep
<1>5. CASE ReturnCall(th)
  <2>1. /\ call[th].phase = "post" /\ EndOfChain(th)
        /\ call' = [call EXCEPT ![th] = NoCall]
    BY <1>5 DEF ReturnCall
  <2>2. call'[th].span = NoSpan
    BY <2>1, OwnFacts DEF NoCall
  <2>3. ASSUME own # NoSpan
        PROVE  Done(spans'[own])
    <3>1. OwnSpan(th) /\ own \in DOMAIN spans
      BY <2>3, OwnFacts
    <3>2. Passed(th, "span")
      <4>1. PICK i \in 1..Len(chain) : chain[i] = "span"
        BY <3>1, SpanFacts DEF OwnSpan, Registered, TraceInv
      <4>2. i \in 1..call[th].at - 1
        BY <2>1, <4>1, SpanFacts DEF EndOfChain, CallType, TraceInv
      <4> QED BY <4>1, <4>2 DEF Passed
    <3>3. spans[own].state # "open" /\ ~ spans[own].aborted /\ spans[own].kind = "call"
      BY <2>1, <3>1, <3>2 DEF OwnSpan
    <3> QED BY <1>1, <3>1, <3>3 DEF Done, TraceInv, CallSpansComplete
  <2> QED BY <1>1, <1>2, <2>2, <2>3, AlikeSelf DEF CallStep
<1> QED BY <1>3, <1>4, <1>5

\* The span hook opens the only span of the call.
LEMMA OpenTrace ==
    ASSUME TraceInv, NEW th \in Thread, OpenSpan(th)
    PROVE  CallStep(th)
<1> DEFINE ctx == context[th]
           asked == RequestMode(th)
           S == Started(ctx, "call", asked)
           new == NewSpan(ctx, "call", asked)
<1>1. /\ UNCHANGED <<chain, enabled, context, requests>>
      /\ call[th].phase = "pre" /\ ~ EndOfChain(th) /\ Current(th) = "span"
      /\ spans' = S
      /\ call' = [call EXCEPT ![th].at = @ + 1, ![th].span = StartedAt(ctx)]
  BY DEF OpenSpan, app
<1>2. /\ call'[th].at = call[th].at + 1 /\ call'[th].phase = "pre"
      /\ call'[th].span = StartedAt(ctx)
      /\ \A u \in Thread : u # th => call'[u] = call[u]
  BY <1>1, OwnFacts DEF CallType
<1>3. /\ Len(spans) \in Nat /\ Len(spans') \in Nat /\ Len(spans) <= Len(spans')
      /\ \A s \in 1..Len(spans) : spans'[s] = spans[s]
      /\ \A s \in Len(spans) + 1..Len(spans') : s = StartedAt(ctx) /\ spans'[s] = new
      /\ \/ StartedAt(ctx) = Len(spans) + 1 /\ Len(spans') = Len(spans) + 1
         \/ StartedAt(ctx) = NoSpan
  BY <1>1, StartedSpans, OwnFacts DEF TraceInv
<1>4. /\ new.kind = "call" /\ new.state = "open" /\ ~ new.aborted
      /\ new.parent = context[th].current
  BY DEF NewSpan
<1>5. /\ Passed(th, "span")' <=> Passed(th, "span") \/ Current(th) = "span"
      /\ Passed(th, "identity")' <=> Passed(th, "identity") \/ Current(th) = "identity"
      /\ call[th].at \in 1..Len(chain)
  BY <1>1, <1>2, PassedNext DEF TraceInv
<1>6. /\ chain[call[th].at] = "span" /\ Len(chain) \in Nat /\ DOMAIN chain = 1..Len(chain)
      /\ \A i \in 1..Len(chain) : chain[i] = "span" => i = call[th].at
  BY <1>1, <1>5, OnePlace, SpanFacts DEF Current, TraceInv
<1>7. call[th].span = NoSpan
  <2> SUFFICES ASSUME call[th].span # NoSpan PROVE FALSE
    OBVIOUS
  <2>1. Passed(th, "span")
    BY <1>1, OwnFacts DEF OwnSpan
  <2>2. PICK i \in 1..call[th].at - 1 : chain[i] = "span"
    BY <2>1 DEF Passed
  <2>3. i \in 1..Len(chain) /\ i # call[th].at
    BY <1>5, <1>6
  <2> QED BY <1>6, <2>2, <2>3
<1>8. ~ (IdentityAfterSpan /\ Passed(th, "identity")')
  <2> SUFFICES ASSUME IdentityAfterSpan, Passed(th, "identity") PROVE FALSE
    BY <1>1, <1>5
  <2>1. PICK i \in 1..Len(chain), j \in 1..Len(chain) :
          i < j /\ chain[i] = "span" /\ chain[j] = "identity"
    BY <1>6 DEF IdentityAfterSpan
  <2>2. PICK k \in 1..call[th].at - 1 : chain[k] = "identity"
    BY DEF Passed
  <2>3. k \in 1..Len(chain) /\ k < call[th].at
    BY <1>5, <1>6
  <2>4. k = j
    BY <2>1, <2>2, <2>3, OnePlace DEF TraceInv
  <2>5. i = call[th].at
    BY <1>6, <2>1
  <2> QED BY <1>5, <2>1, <2>3, <2>4, <2>5
<1>9. ASSUME StartedAt(ctx) # NoSpan
      PROVE  OwnSpan(th)'
  <2>1. /\ StartedAt(ctx) \in Len(spans) + 1..Len(spans') /\ StartedAt(ctx) \in 1..Len(spans')
    BY <1>3, <1>9
  <2>2. StartedAt(ctx) \in DOMAIN spans'
    <3>1. (Len(spans) \in Nat /\ DOMAIN spans = 1..Len(spans))'
      BY OpenKeeps, ParentsFirst, PTL DEF TraceInv
    <3> QED BY <2>1, <3>1
  <2>3. spans'[StartedAt(ctx)] = new
    BY <1>3, <2>1
  <2>4. Registered("span")' /\ (IdentityAfterSpan' <=> IdentityAfterSpan)
    BY <1>1, <1>5, <1>6 DEF Registered, IdentityAfterSpan
  <2> HIDE DEF new
  <2> QED BY <1>1, <1>2, <1>4, <1>5, <1>8, <2>2, <2>3, <2>4 DEF OwnSpan
<1>10. /\ call'[th].span = NoSpan \/ (call'[th].span = Len(spans) + 1 /\ OwnSpan(th)')
  BY <1>2, <1>3, <1>9, OwnFacts DEF NoSpan
<1> HIDE DEF new
<1> QED BY <1>1, <1>2, <1>3, <1>4, <1>7, <1>10, AlikeSelf DEF CallStep

\* The identity hook and the span hook's post-hook set fields of the call's own span.
LEMMA MarkTrace ==
    ASSUME TraceInv, NEW th \in Thread, StampIdentity(th) \/ CloseSpan(th)
    PROVE  CallStep(th)
<1> DEFINE own == call[th].span
           stamped == [spans[own] EXCEPT !.identity = TRUE]
           closed  == [spans[own] EXCEPT !.usage = TRUE, !.state = "ended"]
<1>1. /\ UNCHANGED <<chain, enabled, context, requests>>
      /\ ~ EndOfChain(th) /\ call[th].phase \in {"pre", "post"}
      /\ call' = [call EXCEPT ![th].at = @ + 1]
  BY DEF StampIdentity, CloseSpan, app
<1>2. /\ call'[th].at = call[th].at + 1 /\ call'[th].phase = call[th].phase
      /\ call'[th].span = own
      /\ \A u \in Thread : u # th => call'[u] = call[u]
  BY <1>1, OwnFacts DEF CallType
<1>3. TelemetryInv'
  BY MarkKeeps DEF TraceInv
<1>4. \A kind : Passed(th, kind)' <=> Passed(th, kind) \/ Current(th) = kind
  BY <1>1, <1>2, PassedNext DEF TraceInv
<1>5. /\ Registered("span")' = Registered("span")
      /\ IdentityAfterSpan' = IdentityAfterSpan
  BY <1>1 DEF Registered, IdentityAfterSpan
<1>6. Len(spans) \in Nat /\ DOMAIN spans = 1..Len(spans)
  BY OwnFacts
<1>7. CASE own = NoSpan
  <2>1. spans' = spans
    BY <1>7 DEF StampIdentity, CloseSpan
  <2>2. Len(spans) + 1..Len(spans') = {} /\ Len(spans) <= Len(spans')
    <3>1. Len(spans') = Len(spans)
      BY <2>1
    <3> QED BY <1>6, <3>1
  <2> QED BY <1>1, <1>2, <1>7, <2>1, <2>2, AlikeSelf DEF CallStep
<1>8. ASSUME own # NoSpan, NEW span, spans' = [spans EXCEPT ![own] = span],
             span.kind = spans[own].kind, span.parent = spans[own].parent,
             OwnSpan(th)',
             span.state # "open" => span.usage /\ (IdentityAfterSpan => span.identity)
      PROVE  CallStep(th)
  <2>1. /\ Len(spans') = Len(spans)
        /\ \A s \in 1..Len(spans) : spans'[s] = IF s = own THEN span ELSE spans[s]
    BY <1>3, <1>8, Marked DEF TraceInv
  <2>2. Len(spans) + 1..Len(spans') = {} /\ Len(spans) <= Len(spans')
    BY <1>6, <2>1
  <2>3. own \in 1..Len(spans)
    BY <1>8, OwnFacts
  <2> QED BY <1>1, <1>2, <1>8, <2>1, <2>2, <2>3, AlikeSelf DEF CallStep
<1>9. ASSUME own # NoSpan
      PROVE  /\ OwnSpan(th) /\ own \in DOMAIN spans /\ spans[own] \in SpanType
             /\ DOMAIN spans' = DOMAIN spans
             /\ \A span : spans' = [spans EXCEPT ![own] = span] => spans'[own] = span
  BY <1>9, OwnFacts DEF StampIdentity, CloseSpan
<1>10. CASE own # NoSpan /\ StampIdentity(th)
  <2>1. /\ spans' = [spans EXCEPT ![own] = stamped] /\ call[th].phase = "pre"
        /\ Current(th) = "identity"
    BY <1>10 DEF StampIdentity
  <2>2. /\ stamped.kind = spans[own].kind /\ stamped.parent = spans[own].parent
        /\ stamped.aborted = spans[own].aborted /\ stamped.state = spans[own].state
        /\ stamped.identity
    BY <1>9, <1>10 DEF SpanType
  <2> HIDE DEF stamped
  <2>3. spans'[own] = stamped
    BY <1>9, <1>10, <2>1
  <2>4. OwnSpan(th) /\ spans[own].state = "open"
    BY <1>9, <1>10, <2>1 DEF OwnSpan
  <2>5. OwnSpan(th)'
    BY <1>1, <1>2, <1>4, <1>5, <1>9, <1>10, <2>1, <2>2, <2>3, <2>4 DEF OwnSpan
  <2> QED BY <1>8, <1>10, <2>1, <2>2, <2>4, <2>5
<1>11. CASE own # NoSpan /\ CloseSpan(th)
  <2>1. /\ spans' = [spans EXCEPT ![own] = closed] /\ call[th].phase = "post"
        /\ Current(th) = "span"
    BY <1>11 DEF CloseSpan
  <2>2. /\ closed.kind = spans[own].kind /\ closed.parent = spans[own].parent
        /\ closed.aborted = spans[own].aborted /\ closed.state = "ended"
        /\ closed.identity = spans[own].identity /\ closed.usage
    BY <1>9, <1>11 DEF SpanType
  <2> HIDE DEF closed
  <2>3. spans'[own] = closed
    BY <1>9, <1>11, <2>1
  <2>4. OwnSpan(th) /\ (IdentityAfterSpan => spans[own].identity)
    BY <1>9, <1>11, <2>1 DEF OwnSpan
  <2>5. OwnSpan(th)'
    BY <1>1, <1>2, <1>4, <1>5, <1>9, <1>11, <2>1, <2>2, <2>3, <2>4 DEF OwnSpan
  <2> QED BY <1>8, <1>11, <2>1, <2>2, <2>4, <2>5
<1> QED BY <1>7, <1>10, <1>11

\* The provider's span ends before the call does; the call goes on to its post-hooks.
LEMMA ProviderTrace ==
    ASSUME TraceInv, NEW th \in Thread, CallProvider(th)
    PROVE  CallStep(th)
<1> DEFINE own == call[th].span
           ctx == context[th]
           S == Started(ctx, "provider", RequestMode(th))
           new == NewSpan(ctx, "provider", RequestMode(th))
<1>1. /\ UNCHANGED <<chain, enabled, context, requests>>
      /\ call[th].phase = "pre" /\ EndOfChain(th)
      /\ spans' \in {spans, S}
      /\ call' = [call EXCEPT ![th].phase = "post", ![th].at = 1]
  BY DEF CallProvider, app
<1>2. /\ call'[th].at = 1 /\ call'[th].phase = "post" /\ call'[th].span = own
      /\ \A u \in Thread : u # th => call'[u] = call[u]
  BY <1>1, OwnFacts DEF CallType
<1>3. /\ Len(S) \in Nat /\ Len(spans) <= Len(S)
      /\ \A s \in 1..Len(spans) : S[s] = spans[s]
      /\ \A s \in Len(spans) + 1..Len(S) : S[s] = new
  BY StartedSpans DEF TraceInv
<1>4. new.kind = "provider" /\ new.state # "open" /\ new.parent = context[th].current
  BY DEF NewSpan
<1> HIDE DEF S, new
<1>5. Len(spans) \in Nat /\ DOMAIN spans = 1..Len(spans)
  BY OwnFacts
<1>6. /\ Len(spans) <= Len(spans')
      /\ \A s \in 1..Len(spans) : spans'[s] = spans[s]
      /\ \A s \in Len(spans) + 1..Len(spans') : spans'[s] = new
  <2>1. CASE spans' = spans
    <3>1. Len(spans') = Len(spans) /\ Len(spans) + 1..Len(spans) = {}
      BY <1>5, <2>1
    <3> QED BY <1>5, <2>1, <3>1
  <2>2. CASE spans' = S
    BY <1>3, <2>2
  <2> QED BY <1>1, <2>1, <2>2
<1>7. ASSUME own # NoSpan
      PROVE  OwnSpan(th)' /\ spans'[own].state = "open"
  <2>1. OwnSpan(th) /\ own \in 1..Len(spans)
    BY <1>7, OwnFacts
  <2>2. spans[own].state = "open" /\ spans'[own] = spans[own]
    BY <1>1, <1>6, <2>1 DEF OwnSpan
  <2>3. IdentityAfterSpan => Passed(th, "identity")
    <3> SUFFICES ASSUME IdentityAfterSpan PROVE Passed(th, "identity")
      OBVIOUS
    <3>1. PICK j \in 1..Len(chain) : chain[j] = "identity"
      BY SpanFacts DEF IdentityAfterSpan, TraceInv
    <3>2. j \in 1..call[th].at - 1
      BY <1>1, <3>1, SpanFacts DEF EndOfChain, CallType, TraceInv
    <3> QED BY <3>1, <3>2 DEF Passed
  <2>4. ~ Passed(th, "span")'
    <3>1. 1..call'[th].at - 1 = {}
      BY <1>2
    <3> QED BY <3>1 DEF Passed
  <2>5. Registered("span")' = Registered("span") /\ IdentityAfterSpan' = IdentityAfterSpan
    BY <1>1 DEF Registered, IdentityAfterSpan
  <2>6. own \in DOMAIN spans'
    <3>1. (Len(spans) \in Nat /\ DOMAIN spans = 1..Len(spans))'
      BY ProviderKeeps, ParentsFirst, PTL DEF TraceInv
    <3> QED BY <1>5, <1>6, <2>1, <3>1
  <2> QED BY <1>1, <1>2, <2>1, <2>2, <2>3, <2>4, <2>5, <2>6 DEF OwnSpan
<1> QED BY <1>1, <1>2, <1>4, <1>6, <1>7, AlikeSelf DEF CallStep

\* A call that is not answered leaves its span open, marked as aborted.
LEMMA AbandonTrace ==
    ASSUME TraceInv, TelemetryInv', NEW th \in Thread, NEW seen, Abandon(th, seen),
           call[th].phase = "pre",
           Len(seen) \in Nat, Len(spans) <= Len(seen),
           \A s \in 1..Len(spans) : seen[s] = spans[s],
           \A s \in Len(spans) + 1..Len(seen) :
              /\ seen[s].kind = "provider" /\ seen[s].state # "open"
              /\ seen[s].parent = context[th].current,
           DOMAIN seen = 1..Len(seen)
    PROVE  CallStep(th)
<1> DEFINE own == call[th].span
           aborted == [spans[own] EXCEPT !.aborted = TRUE]
<1>1. /\ UNCHANGED <<chain, enabled, context, requests>>
      /\ spans' = IF own = NoSpan THEN seen
                  ELSE [seen EXCEPT ![own] = [seen[own] EXCEPT !.aborted = TRUE]]
      /\ call' = [call EXCEPT ![th] = NoCall]
  BY DEF Abandon, app
<1>2. /\ call'[th].span = NoSpan
      /\ \A u \in Thread : u # th => call'[u] = call[u]
  BY <1>1, OwnFacts DEF NoCall
<1>3. Len(spans) \in Nat /\ DOMAIN spans = 1..Len(spans)
  BY OwnFacts
<1>4. Len(spans') = Len(seen)
  <2>1. (Len(spans) \in Nat /\ DOMAIN spans = 1..Len(spans))'
    BY ParentsFirst, PTL
  <2>2. DOMAIN spans' = DOMAIN seen
    BY <1>1
  <2>3. 1..Len(spans') = 1..Len(seen) /\ Len(spans') \in Nat /\ Len(seen) \in Nat
    BY <2>1, <2>2
  <2> QED BY <2>3
<1>5. CASE own = NoSpan
  <2>1. spans' = seen
    BY <1>1, <1>5
  <2> QED BY <1>1, <1>2, <1>5, <2>1, AlikeSelf DEF CallStep
<1>6. CASE own # NoSpan
  <2>1. /\ OwnSpan(th) /\ own \in 1..Len(spans) /\ spans[own] \in SpanType
        /\ spans[own].state = "open"
    BY <1>6, OwnFacts DEF OwnSpan
  <2>2. /\ aborted.kind = spans[own].kind /\ aborted.parent = spans[own].parent
        /\ aborted.aborted /\ aborted.state = "open"
    BY <2>1 DEF SpanType
  <2>3. /\ own \in DOMAIN seen /\ seen[own] = spans[own]
        /\ spans' = [seen EXCEPT ![own] = aborted]
    <3>1. own \in 1..Len(seen) /\ seen[own] = spans[own]
      BY <1>3, <2>1
    <3>2. spans' = [seen EXCEPT ![own] = [seen[own] EXCEPT !.aborted = TRUE]]
      BY <1>1, <1>6
    <3> QED BY <3>1, <3>2
  <2> HIDE DEF aborted
  <2>4. /\ spans'[own] = aborted
        /\ \A s \in 1..Len(spans) : s # own => spans'[s] = spans[s]
        /\ \A s \in Len(spans) + 1..Len(spans') : spans'[s] = seen[s]
    <3>1. \A s \in 1..Len(spans) : s \in DOMAIN seen
      BY <1>3
    <3>2. \A s \in Len(spans) + 1..Len(seen) : s \in DOMAIN seen /\ s # own
      BY <1>3, <2>1
    <3> QED BY <1>4, <2>3, <3>1, <3>2
  <2>5. Done(spans'[own])
    BY <2>2, <2>4 DEF Done
  <2> QED BY <1>1, <1>2, <1>4, <1>6, <2>2, <2>4, <2>5, AlikeSelf DEF CallStep
<1> QED BY <1>5, <1>6

LEMMA RaiseTrace ==
    ASSUME TraceInv, NEW th \in Thread, PreRaises(th) \/ CallFails(th)
    PROVE  CallStep(th)
<1> DEFINE ctx == context[th]
           S == Started(ctx, "provider", RequestMode(th))
           new == NewSpan(ctx, "provider", RequestMode(th))
<1>1. TelemetryInv' /\ Len(spans) \in Nat /\ DOMAIN spans = 1..Len(spans)
  BY ProviderKeeps, OwnFacts DEF TraceInv
<1>2. CASE call[th].phase = "pre" /\ Abandon(th, spans)
  <2>1. Len(spans) + 1..Len(spans) = {}
    BY <1>1
  <2> QED BY <1>1, <1>2, <2>1, AbandonTrace
<1>3. CASE call[th].phase = "pre" /\ Abandon(th, S)
  <2>1. new.kind = "provider" /\ new.state # "open" /\ new.parent = context[th].current
    BY DEF NewSpan
  <2> HIDE DEF new
  <2>2. /\ Len(S) \in Nat /\ Len(spans) <= Len(S)
        /\ \A s \in 1..Len(spans) : S[s] = spans[s]
        /\ \A s \in Len(spans) + 1..Len(S) : S[s] = new
    BY StartedSpans DEF TraceInv, new
  <2>3. DOMAIN S = 1..Len(S)
    <3>1. GoodSpans(S)
      BY CallFacts, StartGood DEF TraceInv
    <3> QED BY <3>1, LenProperties DEF GoodSpans
  <2> HIDE DEF S
  <2> QED BY <1>1, <1>3, <2>1, <2>2, <2>3, AbandonTrace
<1>4. CASE PreRaises(th)
  BY <1>2, <1>4 DEF PreRaises
<1>5. CASE CallFails(th)
  BY <1>2, <1>3, <1>5 DEF CallFails
<1> QED BY <1>4, <1>5

\* The steps that leave the calls alone.

\* A batch is exported: what is still open stays as it is.
LEMMA ExportTrace ==
    ASSUME TraceInv, Export
    PROVE  TraceInv'
<1>1. UNCHANGED <<chain, context, requests, call>>
  BY DEF Export, app
<1>2. Len(spans) \in Nat /\ DOMAIN spans = 1..Len(spans) /\ DOMAIN spans' = DOMAIN spans
      /\ \A s \in 1..Len(spans) : spans[s] \in SpanType
  <2>1. DOMAIN spans' = DOMAIN spans
    BY DEF Export
  <2> QED BY <2>1, SpanFacts DEF TraceInv
<1>3. \A s \in DOMAIN spans : spans[s].parent \in Nat /\ spans[s].parent < s
  BY SpanFacts DEF TraceInv
<1>4. ASSUME NEW s \in DOMAIN spans
      PROVE  Alike(spans'[s], spans[s])
  <2>1. spans[s] \in SpanType
    BY <1>2
  <2>2. \/ spans'[s] = spans[s]
        \/ spans[s].state = "ended" /\ spans'[s] = [Scrub(spans[s]) EXCEPT !.state = "exported"]
    BY DEF Export
  <2>3. Alike([Scrub(spans[s]) EXCEPT !.state = "exported"], [spans[s] EXCEPT !.state = "ended"])
    BY <2>1 DEF Alike, Scrub, SpanType
  <2>4. spans[s].state = "ended" => [spans[s] EXCEPT !.state = "ended"] = spans[s]
    BY <2>1 DEF SpanType
  <2> QED BY <2>2, <2>3, <2>4, AlikeSelf
<1>5. SpanOfRequest' /\ RequestSpansOpen'
  BY <1>1, <1>2, <1>4 DEF TraceInv, SpanOfRequest, RequestSpansOpen, Alike
<1>6. /\ \A kind : \A u \in Thread : Passed(u, kind)' = Passed(u, kind)
      /\ \A kind : Registered(kind)' = Registered(kind)
      /\ IdentityAfterSpan' = IdentityAfterSpan
  BY <1>1 DEF Passed, Registered, IdentityAfterSpan
<1>7. \A u \in Thread : OwnSpan(u) => OwnSpan(u)'
  BY <1>1, <1>2, <1>4, <1>6 DEF OwnSpan, Alike
<1>8. CallOwnsSpan'
  BY <1>1, <1>7 DEF TraceInv, CallOwnsSpan
<1>9. /\ \A s \in DOMAIN spans' : spans'[s].kind = "provider" => spans'[s].state # "open"
      /\ CallSpansComplete'
  BY <1>1, <1>2, <1>4, <1>6 DEF TraceInv, CallSpansComplete, Alike
<1>10. RequestOutlivesCalls'
  <2>1. \A s \in DOMAIN spans : spans[s].parent # NoSpan => spans[s].parent \in DOMAIN spans
    BY <1>2, <1>3 DEF NoSpan
  <2> QED BY <1>2, <1>4, <2>1 DEF TraceInv, RequestOutlivesCalls, Alike
<1>11. TelemetryInv'
  BY ExportKeeps DEF TraceInv
<1> QED BY <1>5, <1>8, <1>9, <1>10, <1>11 DEF TraceInv

\* A request's span is new, and is the child of the one around it.
LEMMA EnterTrace ==
    ASSUME TraceInv, NEW th \in Thread, NEW mode \in Mode, EnterRequest(th, mode)
    PROVE  TraceInv'
<1> DEFINE ctx == [context[th] EXCEPT !.mode = mode]
           place == StartedAt(ctx)
           new == NewSpan(ctx, "request", mode)
           entry == [mode |-> mode, token |-> context[th], span |-> place]
           n == Len(requests[th])
<1>1. /\ UNCHANGED <<chain, call>>
      /\ call[th].phase = "none"
      /\ spans' = Started(ctx, "request", mode)
      /\ context' = [context EXCEPT ![th] = [ctx EXCEPT !.current = place]]
      /\ requests' = [requests EXCEPT ![th] = Append(@, entry)]
  BY DEF EnterRequest, app
<1>2. /\ Len(spans) \in Nat /\ DOMAIN spans = 1..Len(spans)
      /\ \A s \in DOMAIN spans : spans[s].parent \in Nat /\ spans[s].parent < s
      /\ \A u \in Thread : /\ requests[u] \in Seq(RequestType) /\ Len(requests[u]) \in Nat
                           /\ DOMAIN requests[u] = 1..Len(requests[u])
      /\ context \in [Thread -> ContextType] /\ DOMAIN requests = Thread
  BY SpanFacts DEF TraceInv, TelemetryInv, TypeOK
<1>3. /\ Len(spans') \in Nat /\ Len(spans) <= Len(spans')
      /\ \A s \in 1..Len(spans) : spans'[s] = spans[s]
      /\ \A s \in Len(spans) + 1..Len(spans') : s = place /\ spans'[s] = new
      /\ \/ place = Len(spans) + 1 /\ Len(spans') = Len(spans) + 1
         \/ place = NoSpan
  BY <1>1, StartedSpans DEF TraceInv
<1>4. TelemetryInv'
  BY EnterKeeps DEF TraceInv
<1>5. DOMAIN spans' = 1..Len(spans')
  <2>1. (Len(spans) \in Nat /\ DOMAIN spans = 1..Len(spans))'
    BY <1>4, ParentsFirst, PTL
  <2> QED BY <2>1
<1>6. /\ new.kind = "request" /\ new.state = "open" /\ new.parent = context[th].current
  BY <1>2 DEF NewSpan, ContextType
<1>7. /\ entry.span = place /\ entry.token = context[th]
  OBVIOUS
<1> HIDE DEF new, entry
<1>8. /\ requests'[th] = Append(requests[th], entry)
      /\ context'[th].current = place
      /\ \A u \in Thread : u # th => requests'[u] = requests[u] /\ context'[u] = context[u]
  BY <1>1, <1>2 DEF ContextType
<1>9. /\ DOMAIN requests'[th] = 1..n + 1 /\ Len(requests'[th]) = n + 1
      /\ requests'[th][n + 1] = entry
      /\ \A i \in 1..n : requests'[th][i] = requests[th][i]
  BY <1>2, <1>8, AppendProperties
<1> HIDE DEF place
<1>10. \A u \in Thread : \A i \in DOMAIN requests'[u] :
          \/ u = th /\ i = n + 1
          \/ i \in DOMAIN requests[u] /\ requests'[u][i] = requests[u][i]
  <2>1. n \in Nat /\ \A i \in 1..n + 1 : i \in 1..n \/ i = n + 1
    BY <1>2
  <2>2. DOMAIN requests[th] = 1..n
    BY <1>2
  <2> QED BY <1>8, <1>9, <2>1, <2>2
<1>11. \A u \in Thread : \A i \in DOMAIN requests[u] :
          i \in DOMAIN requests'[u] /\ requests'[u][i] = requests[u][i]
  <2>1. n \in Nat /\ \A i \in 1..n : i \in 1..n + 1
    BY <1>2
  <2>2. DOMAIN requests[th] = 1..n
    BY <1>2
  <2> QED BY <1>8, <1>9, <2>1, <2>2
<1>0. Len(spans) \in Nat /\ DOMAIN spans = 1..Len(spans)
  BY <1>2
<1>12. \A s \in DOMAIN spans : s \in DOMAIN spans' /\ spans'[s] = spans[s]
  <2>1. \A s \in 1..Len(spans) : s \in 1..Len(spans')
    BY <1>3, <1>0
  <2> QED BY <1>3, <1>5, <1>0, <2>1, Zenon
<1>13. \A s \in DOMAIN spans' : s \in DOMAIN spans \/ (s = place /\ spans'[s] = new)
  <2>1. \A s \in 1..Len(spans') : s \in 1..Len(spans) \/ s \in Len(spans) + 1..Len(spans')
    BY <1>3, <1>0
  <2> QED BY <1>3, <1>5, <1>0, <2>1, Zenon
<1>14. place # NoSpan =>
          place \in DOMAIN spans' /\ place \notin DOMAIN spans /\ spans'[place] = new
  <2>1. place # NoSpan => /\ place \in 1..Len(spans') /\ place \notin 1..Len(spans)
                          /\ place \in Len(spans) + 1..Len(spans')
    BY <1>3, <1>0
  <2> QED BY <1>3, <1>5, <1>0, <2>1, Zenon
<1>15. context[th].current # NoSpan =>
          /\ context[th].current \in DOMAIN spans
          /\ spans[context[th].current].kind = "request"
          /\ spans[context[th].current].state = "open"
  BY <1>2, CurrentIsOpen
<1>16. SpanOfRequest'
  <2>1. ASSUME NEW u \in Thread, u # th
        PROVE  /\ context'[u].current =
                     IF requests'[u] = <<>> THEN NoSpan
                     ELSE requests'[u][Len(requests'[u])].span
               /\ \A i \in DOMAIN requests'[u] :
                     requests'[u][i].token.current =
                        IF i = 1 THEN NoSpan ELSE requests'[u][i - 1].span
    BY <1>8, <2>1 DEF TraceInv, SpanOfRequest
  <2>2. context'[th].current = requests'[th][Len(requests'[th])].span /\ requests'[th] # <<>>
    <3>1. requests'[th] # <<>>
      BY <1>2, <1>8, AppendProperties
    <3> QED BY <1>7, <1>8, <1>9, <3>1
  <2>3. ASSUME NEW i \in DOMAIN requests'[th]
        PROVE  requests'[th][i].token.current =
                  IF i = 1 THEN NoSpan ELSE requests'[th][i - 1].span
    <3>1. CASE i \in 1..n
      <4>1. i # 1 => i - 1 \in 1..n
        BY <1>2, <3>1
      <4>2. requests[th][i].token.current = IF i = 1 THEN NoSpan ELSE requests[th][i - 1].span
        BY <1>2, <3>1 DEF TraceInv, SpanOfRequest
      <4> QED BY <1>9, <3>1, <4>1, <4>2
    <3>2. CASE i = n + 1
      <4>1. requests'[th][i].token.current = context[th].current
        BY <1>7, <1>9, <3>2
      <4>2. CASE n = 0
        <5>1. requests[th] = <<>>
          BY <1>2, <4>2, EmptySeq
        <5> QED BY <3>2, <4>1, <4>2, <5>1 DEF TraceInv, SpanOfRequest
      <4>3. CASE n # 0
        <5>1. requests[th] # <<>> /\ n \in 1..n /\ i # 1 /\ i - 1 = n
          BY <1>2, <3>2, <4>3, EmptySeq
        <5>2. context[th].current = requests[th][n].span
          BY <5>1 DEF TraceInv, SpanOfRequest
        <5> QED BY <1>9, <4>1, <5>1, <5>2
      <4> QED BY <4>2, <4>3
    <3> QED BY <1>2, <1>9, <3>1, <3>2
  <2> QED BY <2>1, <2>2, <2>3 DEF SpanOfRequest
<1>17. RequestSpansOpen'
  <2>1. ASSUME NEW u \in Thread, NEW i \in DOMAIN requests'[u], requests'[u][i].span # NoSpan
        PROVE  LET s == requests'[u][i].span
               IN  /\ s \in DOMAIN spans'
                   /\ spans'[s].kind = "request" /\ spans'[s].state = "open"
                   /\ spans'[s].parent = requests'[u][i].token.current
                   /\ \A v \in Thread : \A j \in DOMAIN requests'[v] :
                         requests'[v][j].span = s => v = u /\ j = i
    <3>1. \A v \in Thread : \A j \in DOMAIN requests[v] : requests[v][j].span # NoSpan =>
             requests[v][j].span \in DOMAIN spans
      BY DEF TraceInv, RequestSpansOpen
    <3>2. CASE u = th /\ i = n + 1
      <4>1. requests'[u][i] = entry /\ place # NoSpan
        BY <1>7, <1>9, <2>1, <3>2
      <4>2. \A v \in Thread : \A j \in DOMAIN requests'[v] :
               requests'[v][j].span = place => v = u /\ j = i
        BY <1>10, <1>14, <3>1, <3>2, <4>1
      <4> QED BY <1>6, <1>7, <1>14, <4>1, <4>2
    <3>3. CASE i \in DOMAIN requests[u] /\ requests'[u][i] = requests[u][i]
      <4> DEFINE s == requests[u][i].span
      <4>1. /\ s \in DOMAIN spans /\ spans[s].kind = "request" /\ spans[s].state = "open"
            /\ spans[s].parent = requests[u][i].token.current
            /\ \A v \in Thread : \A j \in DOMAIN requests[v] :
                  requests[v][j].span = s => v = u /\ j = i
        BY <2>1, <3>3 DEF TraceInv, RequestSpansOpen
      <4>2. \A v \in Thread : \A j \in DOMAIN requests'[v] :
               requests'[v][j].span = s => v = u /\ j = i
        BY <1>7, <1>9, <1>10, <1>14, <2>1, <3>3, <4>1
      <4> QED BY <1>12, <3>3, <4>1, <4>2
    <3> QED BY <1>10, <3>2, <3>3
  <2>2. ASSUME NEW s \in DOMAIN spans', spans'[s].kind = "request", spans'[s].state = "open"
        PROVE  \E u \in Thread : \E i \in DOMAIN requests'[u] : requests'[u][i].span = s
    <3>1. CASE s \in DOMAIN spans
      <4>1. PICK u \in Thread : \E i \in DOMAIN requests[u] : requests[u][i].span = s
        BY <1>12, <2>2, <3>1 DEF TraceInv, RequestSpansOpen
      <4> QED BY <1>11, <4>1
    <3>2. CASE s = place
      <4>1. n + 1 \in DOMAIN requests'[th] /\ requests'[th][n + 1].span = s
        BY <1>2, <1>7, <1>9, <3>2
      <4> QED BY <4>1
    <3> QED BY <1>13, <3>1, <3>2
  <2> QED BY <2>1, <2>2 DEF RequestSpansOpen
<1>18. CallOwnsSpan'
  <2>1. /\ \A kind : \A u \in Thread : Passed(u, kind)' = Passed(u, kind)
        /\ \A kind : Registered(kind)' = Registered(kind)
        /\ IdentityAfterSpan' = IdentityAfterSpan
    BY <1>1 DEF Passed, Registered, IdentityAfterSpan
  <2>2. ASSUME NEW u \in Thread, call[u].span # NoSpan
        PROVE  OwnSpan(u)'
    <3>1. OwnSpan(u) /\ u # th
      BY <1>1, <2>2, OwnFacts
    <3> QED BY <1>1, <1>8, <1>12, <2>1, <3>1 DEF OwnSpan
  <2> QED BY <1>1, <2>2 DEF TraceInv, CallOwnsSpan
<1>19. \A s \in DOMAIN spans' : spans'[s].kind = "provider" => spans'[s].state # "open"
  BY <1>6, <1>12, <1>13 DEF TraceInv
<1>20. RequestOutlivesCalls'
  <2> SUFFICES ASSUME NEW s \in DOMAIN spans', spans'[s].parent # NoSpan
               PROVE  /\ spans'[spans'[s].parent].kind = "request"
                      /\ spans'[spans'[s].parent].state # "open"
                            => spans'[s].state # "open" \/ spans'[s].aborted
    BY DEF RequestOutlivesCalls
  <2>1. CASE s \in DOMAIN spans
    <3>1. spans'[s] = spans[s] /\ spans[s].parent # NoSpan
      BY <1>12, <2>1
    <3>2. spans[s].parent \in DOMAIN spans
      BY <1>2, <2>1, <3>1 DEF NoSpan
    <3> QED BY <1>12, <2>1, <3>1, <3>2 DEF TraceInv, RequestOutlivesCalls
  <2>2. CASE s = place /\ spans'[s] = new
    BY <1>6, <1>12, <1>15, <2>2
  <2> QED BY <1>13, <2>1, <2>2
<1>21. CallSpansComplete'
  <2>1. IdentityAfterSpan' = IdentityAfterSpan
    BY <1>1 DEF IdentityAfterSpan
  <2> SUFFICES ASSUME NEW s \in DOMAIN spans', spans'[s].kind = "call"
               PROVE  /\ spans'[s].aborted => spans'[s].state = "open"
                      /\ spans'[s].state = "open"
                            => spans'[s].aborted \/ \E u \in Thread : call[u].span = s
                      /\ spans'[s].state # "open" =>
                            spans'[s].usage /\ (IdentityAfterSpan => spans'[s].identity)
    BY <1>1, <2>1 DEF CallSpansComplete
  <2>2. s \in DOMAIN spans
    BY <1>6, <1>13
  <2> QED BY <1>12, <2>2 DEF TraceInv, CallSpansComplete
<1> QED BY <1>4, <1>16, <1>17, <1>18, <1>19, <1>20, <1>21 DEF TraceInv

\* The innermost request ends: its span's children have ended, or were aborted.
LEMMA ExitTrace ==
    ASSUME TraceInv, NEW th \in Thread, ExitRequest(th)
    PROVE  TraceInv'
<1> DEFINE n == Len(requests[th])
           last == requests[th][n]
           q == last.span
<1>1. /\ UNCHANGED <<chain, call>>
      /\ call[th].phase = "none"
      /\ spans' = Ended(q)
      /\ context' = [context EXCEPT ![th] = last.token]
      /\ requests[th] # <<>>
  BY DEF ExitRequest, app
<1>2. /\ Len(spans) \in Nat /\ DOMAIN spans = 1..Len(spans)
      /\ \A s \in DOMAIN spans : /\ spans[s] \in SpanType
                                 /\ spans[s].parent \in Nat /\ spans[s].parent < s
      /\ context \in [Thread -> ContextType]
  BY SpanFacts DEF TraceInv, TelemetryInv, TypeOK
<1>3. TelemetryInv'
  BY ExitKeeps DEF TraceInv
<1>4. /\ n \in Nat /\ n >= 1 /\ DOMAIN requests[th] = 1..n
      /\ DOMAIN requests'[th] = 1..n - 1 /\ Len(requests'[th]) = n - 1
      /\ requests'[th] \in Seq(RequestType)
      /\ \A i \in 1..n - 1 : requests'[th][i] = requests[th][i] /\ i \in 1..n
      /\ \A u \in Thread : u # th => requests'[u] = requests[u]
  BY Popped DEF TraceInv
<1>5. n \in DOMAIN requests[th] /\ n \in 1..n /\ n \notin 1..n - 1 /\ n + 1 \notin 1..n
  BY <1>4
<1>6. \A u \in Thread : \A i \in DOMAIN requests'[u] :
         /\ i \in DOMAIN requests[u] /\ requests'[u][i] = requests[u][i]
         /\ u # th \/ i # n
  BY <1>4, <1>5
<1>7. \A u \in Thread : \A i \in DOMAIN requests[u] :
         (u # th \/ i # n) => i \in DOMAIN requests'[u] /\ requests'[u][i] = requests[u][i]
  <2>1. \A i \in 1..n : i # n => i \in 1..n - 1
    BY <1>4
  <2> QED BY <1>4, <2>1
<1>8. /\ context'[th] = last.token
      /\ \A u \in Thread : u # th => context'[u] = context[u]
      /\ context[th].current = q
  BY <1>1, <1>2 DEF TraceInv, SpanOfRequest
<1>9. q # NoSpan => /\ q \in DOMAIN spans /\ spans[q].kind = "request"
                    /\ spans[q].state = "open"
                    /\ \A u \in Thread : \A j \in DOMAIN requests[u] :
                          requests[u][j].span = q => u = th /\ j = n
  BY <1>5 DEF TraceInv, RequestSpansOpen
<1>10. NoSpan \notin DOMAIN spans
  BY <1>2 DEF NoSpan
<1>11. /\ DOMAIN spans' = DOMAIN spans
       /\ \A s \in DOMAIN spans :
             /\ s # q => spans'[s] = spans[s]
             /\ s = q => spans'[s] = [spans[s] EXCEPT !.state = "ended"]
  BY <1>1, <1>9, <1>10 DEF Ended
<1>12. \A s \in DOMAIN spans :
          /\ spans'[s].kind = spans[s].kind /\ spans'[s].parent = spans[s].parent
          /\ spans'[s].aborted = spans[s].aborted
          /\ spans'[s].state = "open" <=> spans[s].state = "open" /\ s # q
  <2> SUFFICES ASSUME NEW s \in DOMAIN spans
               PROVE  /\ spans'[s].kind = spans[s].kind /\ spans'[s].parent = spans[s].parent
                      /\ spans'[s].aborted = spans[s].aborted
                      /\ spans'[s].state = "open" <=> spans[s].state = "open" /\ s # q
    OBVIOUS
  <2>1. CASE s # q
    BY <1>11, <2>1
  <2>2. CASE s = q
    BY <1>2, <1>11, <2>2 DEF SpanType
  <2> QED BY <2>1, <2>2
<1> HIDE DEF q
<1>13. SpanOfRequest'
  <2>1. ASSUME NEW u \in Thread, u # th
        PROVE  /\ context'[u].current =
                     IF requests'[u] = <<>> THEN NoSpan
                     ELSE requests'[u][Len(requests'[u])].span
               /\ \A i \in DOMAIN requests'[u] :
                     requests'[u][i].token.current =
                        IF i = 1 THEN NoSpan ELSE requests'[u][i - 1].span
    BY <1>4, <1>8, <2>1 DEF TraceInv, SpanOfRequest
  <2>2. \A i \in 1..n : requests[th][i].token.current =
                           IF i = 1 THEN NoSpan ELSE requests[th][i - 1].span
    BY <1>4 DEF TraceInv, SpanOfRequest
  <2>3. \A i \in DOMAIN requests'[th] : requests'[th][i].token.current =
           IF i = 1 THEN NoSpan ELSE requests'[th][i - 1].span
    <3>1. \A i \in 1..n - 1 : i # 1 => i - 1 \in 1..n - 1
      BY <1>4
    <3> QED BY <1>4, <2>2, <3>1
  <2>4. context'[th].current =
           IF requests'[th] = <<>> THEN NoSpan ELSE requests'[th][Len(requests'[th])].span
    <3>1. context'[th].current = IF n = 1 THEN NoSpan ELSE requests[th][n - 1].span
      BY <1>5, <1>8, <2>2
    <3>2. CASE n = 1
      <4>1. requests'[th] = <<>>
        BY <1>4, <3>2, EmptySeq
      <4> QED BY <3>1, <3>2, <4>1
    <3>3. CASE n # 1
      <4>1. n - 1 \in 1..n - 1 /\ n - 1 # 0
        <5>1. n \in Nat /\ n >= 1
          BY <1>4
        <5> HIDE DEF n
        <5> QED BY <3>3, <5>1
      <4>2. requests'[th] # <<>>
        <5>1. Len(<<>>) = 0
          OBVIOUS
        <5> QED BY <1>4, <4>1, <5>1
      <4> QED BY <1>4, <3>1, <3>3, <4>1, <4>2
    <3> QED BY <3>2, <3>3
  <2> QED BY <2>1, <2>3, <2>4 DEF SpanOfRequest
<1>14. RequestSpansOpen'
  <2>1. ASSUME NEW u \in Thread, NEW i \in DOMAIN requests'[u], requests'[u][i].span # NoSpan
        PROVE  LET s == requests'[u][i].span
               IN  /\ s \in DOMAIN spans'
                   /\ spans'[s].kind = "request" /\ spans'[s].state = "open"
                   /\ spans'[s].parent = requests'[u][i].token.current
                   /\ \A v \in Thread : \A j \in DOMAIN requests'[v] :
                         requests'[v][j].span = s => v = u /\ j = i
    <3> DEFINE s == requests[u][i].span
    <3>1. i \in DOMAIN requests[u] /\ requests'[u][i] = requests[u][i] /\ (u # th \/ i # n)
      BY <1>6
    <3>2. /\ s \in DOMAIN spans /\ spans[s].kind = "request" /\ spans[s].state = "open"
          /\ spans[s].parent = requests[u][i].token.current
          /\ \A v \in Thread : \A j \in DOMAIN requests[v] :
                requests[v][j].span = s => v = u /\ j = i
      BY <2>1, <3>1 DEF TraceInv, RequestSpansOpen
    <3>3. s # q
      BY <1>9, <2>1, <3>1
    <3>4. \A v \in Thread : \A j \in DOMAIN requests'[v] :
             requests'[v][j].span = s => v = u /\ j = i
      BY <1>6, <3>2
    <3> QED BY <1>11, <1>12, <3>1, <3>2, <3>3, <3>4
  <2>2. ASSUME NEW s \in DOMAIN spans', spans'[s].kind = "request", spans'[s].state = "open"
        PROVE  \E u \in Thread : \E i \in DOMAIN requests'[u] : requests'[u][i].span = s
    <3>1. spans[s].kind = "request" /\ spans[s].state = "open" /\ s # q /\ s \in DOMAIN spans
      BY <1>11, <1>12, <2>2
    <3>2. PICK u \in Thread : \E i \in DOMAIN requests[u] : requests[u][i].span = s
      BY <3>1 DEF TraceInv, RequestSpansOpen
    <3>3. PICK i \in DOMAIN requests[u] : requests[u][i].span = s
      BY <3>2
    <3>4. u # th \/ i # n
      BY <3>1, <3>3 DEF q
    <3> QED BY <1>7, <3>3, <3>4
  <2> QED BY <2>1, <2>2 DEF RequestSpansOpen
<1>15. \A u \in Thread : call[u].span # NoSpan => OwnSpan(u) /\ u # th
  BY <1>1, OwnFacts
<1>16. CallOwnsSpan'
  <2>1. /\ \A kind : \A u \in Thread : Passed(u, kind)' = Passed(u, kind)
        /\ \A kind : Registered(kind)' = Registered(kind)
        /\ IdentityAfterSpan' = IdentityAfterSpan
    BY <1>1 DEF Passed, Registered, IdentityAfterSpan
  <2>2. ASSUME NEW u \in Thread, call[u].span # NoSpan
        PROVE  OwnSpan(u)'
    <3>1. OwnSpan(u) /\ u # th
      BY <1>15, <2>2
    <3>2. call[u].span \in DOMAIN spans /\ spans'[call[u].span] = spans[call[u].span]
      BY <1>9, <1>11, <2>2, <3>1 DEF OwnSpan
    <3> QED BY <1>1, <1>8, <1>11, <2>1, <3>1, <3>2 DEF OwnSpan
  <2> QED BY <1>1, <2>2 DEF TraceInv, CallOwnsSpan
<1>17. \A s \in DOMAIN spans' : spans'[s].kind = "provider" => spans'[s].state # "open"
  BY <1>11, <1>12 DEF TraceInv
<1>18. ASSUME NEW s \in DOMAIN spans, spans[s].parent = q, q # NoSpan,
              spans[s].state = "open", ~ spans[s].aborted
       PROVE  FALSE
  <2>1. CASE spans[s].kind = "request"
    <3>1. PICK u \in Thread : \E i \in DOMAIN requests[u] : requests[u][i].span = s
      BY <1>18, <2>1 DEF TraceInv, RequestSpansOpen
    <3>2. PICK i \in DOMAIN requests[u] : requests[u][i].span = s
      BY <3>1
    <3>3. requests[u][i].token.current = q
      BY <1>10, <1>18, <3>2 DEF TraceInv, RequestSpansOpen
    <3>4. i # 1 /\ requests[u][i - 1].span = q
      BY <1>18, <3>3 DEF TraceInv, SpanOfRequest
    <3>5. i \in Nat /\ i - 1 \in DOMAIN requests[u]
      <4>1. Len(requests[u]) \in Nat /\ DOMAIN requests[u] = 1..Len(requests[u])
        BY SpanFacts DEF TraceInv
      <4> QED BY <3>4, <4>1
    <3>6. u = th /\ i - 1 = n
      BY <1>9, <1>18, <3>4, <3>5
    <3> QED BY <1>4, <1>5, <3>5, <3>6
  <2>2. CASE spans[s].kind = "call"
    <3>1. PICK u \in Thread : call[u].span = s
      BY <1>18, <2>2 DEF TraceInv, CallSpansComplete
    <3>2. OwnSpan(u) /\ u # th
      BY <1>10, <1>15, <3>1
    <3>3. context[u].current = q
      BY <1>18, <3>1, <3>2 DEF OwnSpan
    <3>4. /\ Len(requests[u]) \in DOMAIN requests[u]
          /\ requests[u][Len(requests[u])].span = q
      BY <1>18, <3>3, CurrentIsOpen
    <3> QED BY <1>9, <1>18, <3>2, <3>4
  <2>3. CASE spans[s].kind = "provider"
    BY <1>18, <2>3 DEF TraceInv
  <2> QED BY <1>2, <2>1, <2>2, <2>3 DEF SpanType
<1>19. RequestOutlivesCalls'
  <2> SUFFICES ASSUME NEW s \in DOMAIN spans', spans'[s].parent # NoSpan
               PROVE  /\ spans'[spans'[s].parent].kind = "request"
                      /\ spans'[spans'[s].parent].state # "open"
                            => spans'[s].state # "open" \/ spans'[s].aborted
    BY DEF RequestOutlivesCalls
  <2> DEFINE p == spans[s].parent
  <2>1. s \in DOMAIN spans /\ spans'[s].parent = p /\ p # NoSpan
    BY <1>11, <1>12
  <2>2. p \in DOMAIN spans
    BY <1>2, <2>1 DEF NoSpan
  <2>3. /\ spans[p].kind = "request"
        /\ spans[p].state # "open" => spans[s].state # "open" \/ spans[s].aborted
    BY <2>1 DEF TraceInv, RequestOutlivesCalls
  <2>4. p = q => spans[s].state # "open" \/ spans[s].aborted
    BY <1>18, <2>1
  <2> HIDE DEF p
  <2> QED BY <1>12, <2>1, <2>2, <2>3, <2>4
<1>20. CallSpansComplete'
  <2>1. IdentityAfterSpan' = IdentityAfterSpan
    BY <1>1 DEF IdentityAfterSpan
  <2> SUFFICES ASSUME NEW s \in DOMAIN spans', spans'[s].kind = "call"
               PROVE  /\ spans'[s].aborted => spans'[s].state = "open"
                      /\ spans'[s].state = "open"
                            => spans'[s].aborted \/ \E u \in Thread : call[u].span = s
                      /\ spans'[s].state # "open" =>
                            spans'[s].usage /\ (IdentityAfterSpan => spans'[s].identity)
    BY <1>1, <2>1 DEF CallSpansComplete
  <2>2. s \in DOMAIN spans /\ spans'[s] = spans[s]
    BY <1>9, <1>10, <1>11, <1>12
  <2> QED BY <2>2 DEF TraceInv, CallSpansComplete
<1> QED BY <1>3, <1>13, <1>14, <1>16, <1>17, <1>19, <1>20 DEF TraceInv

LEMMA InitTrace == Init => TraceInv
<1> SUFFICES ASSUME Init PROVE TraceInv
  OBVIOUS
<1>1. /\ DOMAIN spans = {}
      /\ \A th \in Thread : /\ requests[th] = <<>> /\ DOMAIN requests[th] = {}
                            /\ context[th].current = NoSpan /\ call[th].span = NoSpan
  BY DEF Init, RootContext, NoCall
<1> QED BY <1>1, InitKeeps DEF TraceInv, SpanOfRequest, RequestSpansOpen, CallOwnsSpan,
                               RequestOutlivesCalls, CallSpansComplete

\* The inductive invariant of the traces: the spans of the open requests are open, each
\* of one request alone, and the span of a call belongs to that call until the span hook
\* has closed it or the call was abandoned.
THEOREM TraceInvariant == Spec => []TraceInv
<1>1. TraceInv /\ [Next]_vars => TraceInv'
  <2> SUFFICES ASSUME TraceInv, [Next]_vars PROVE TraceInv'
    OBVIOUS
  <2>1. ASSUME NEW th \in Thread, NEW mode \in Mode, EnterRequest(th, mode)
        PROVE  TraceInv'
    BY <2>1, EnterTrace
  <2>2. ASSUME NEW th \in Thread, ExitRequest(th)
        PROVE  TraceInv'
    BY <2>2, ExitTrace
  <2>3. ASSUME NEW th \in Thread,
               BeginCall(th) \/ PassPre(th) \/ Emit(th) \/ PassPost(th) \/ ReturnCall(th)
        PROVE  TraceInv'
    BY <2>3, QuietKeeps, QuietTrace, CallStepKeeps DEF TraceInv
  <2>4. ASSUME NEW th \in Thread, OpenSpan(th)
        PROVE  TraceInv'
    BY <2>4, OpenKeeps, OpenTrace, CallStepKeeps DEF TraceInv
  <2>5. ASSUME NEW th \in Thread, StampIdentity(th) \/ CloseSpan(th)
        PROVE  TraceInv'
    BY <2>5, MarkKeeps, MarkTrace, CallStepKeeps DEF TraceInv
  <2>6. ASSUME NEW th \in Thread, CallProvider(th)
        PROVE  TraceInv'
    BY <2>6, ProviderKeeps, ProviderTrace, CallStepKeeps DEF TraceInv
  <2>7. ASSUME NEW th \in Thread, CallFails(th) \/ PreRaises(th)
        PROVE  TraceInv'
    BY <2>7, ProviderKeeps, RaiseTrace, CallStepKeeps DEF TraceInv
  <2>8. CASE Export
    BY <2>8, ExportTrace
  <2>9. CASE UNCHANGED vars
    <3>1. UNCHANGED <<chain, enabled, context, requests, call, spans, lines, answered,
                      lost, begun>>
      BY <2>9 DEF vars, app
    <3>2. TelemetryInv'
      BY <3>1 DEF TraceInv, TelemetryInv, TypeOK, SpansExist, ContextOfRequest,
                  RequestMode, ModeIsOfRequest, ExportedIsScrubbed, CallType
    <3>3. SpanOfRequest' /\ RequestSpansOpen' /\ CallOwnsSpan'
      BY <3>1 DEF TraceInv, SpanOfRequest, RequestSpansOpen, CallOwnsSpan, OwnSpan,
                  Registered, Passed, IdentityAfterSpan
    <3>4. RequestOutlivesCalls' /\ CallSpansComplete'
      BY <3>1 DEF TraceInv, RequestOutlivesCalls, CallSpansComplete, IdentityAfterSpan
    <3> QED BY <3>1, <3>2, <3>3, <3>4 DEF TraceInv
  <2> QED BY <2>1, <2>2, <2>3, <2>4, <2>5, <2>6, <2>7, <2>8, <2>9 DEF Next, Step
<1> QED BY <1>1, InitTrace, PTL DEF Spec

\* A request's span outlives those of its calls, but for the aborted ones.
THEOREM RequestSpansOutlive == Spec => []RequestOutlivesCalls
<1>1. TraceInv => RequestOutlivesCalls
  BY DEF TraceInv
<1> QED BY <1>1, TraceInvariant, PTL

\* The span of an answered call is complete when it ends, and only the span of a call
\* that was abandoned stays open.
THEOREM CallsTraced == Spec => []CallSpansComplete
<1>1. TraceInv => CallSpansComplete
  BY DEF TraceInv
<1> QED BY <1>1, TraceInvariant, PTL

-----------------------------------------------------------------------------
(* The event lines *)

\* The answered calls whose event has still to be written.
Pending == {th \in Thread : call[th].phase = "post" /\ ~ Passed(th, "log")}

\* A step of thread th that answers no call and writes no event leaves them as they are.
LEMMA PendingSame ==
    ASSUME NEW th \in Thread, UNCHANGED chain,
           \A u \in Thread : u # th => call'[u] = call[u],
           (call[th].phase = "post" /\ ~ Passed(th, "log"))
              <=> (call'[th].phase = "post" /\ ~ Passed(th, "log")')
    PROVE  Pending' = Pending
<1>1. \A u \in Thread : u # th => (Passed(u, "log")' <=> Passed(u, "log"))
  BY DEF Passed
<1>2. \A u \in Thread : u \in Pending' <=> u \in Pending
  BY <1>1 DEF Pending
<1> QED BY <1>2, Zenon DEF Pending

\* The steps of a call outside of the log hook and of the provider.
LEMMA UnreportedSteps ==
    ASSUME TraceInv, NEW th \in Thread,
           \/ BeginCall(th) \/ OpenSpan(th) \/ StampIdentity(th) \/ PassPre(th)
           \/ PreRaises(th) \/ CallFails(th)
           \/ CloseSpan(th) \/ PassPost(th) \/ ReturnCall(th)
    PROVE  /\ UNCHANGED <<chain, enabled, lines, lost, answered>>
           /\ Registered("log") => Pending' = Pending
<1>1. /\ UNCHANGED <<chain, enabled, lines, lost, answered>>
      /\ \A u \in Thread : u # th => call'[u] = call[u]
  BY OwnFacts DEF BeginCall, OpenSpan, StampIdentity, PassPre, PreRaises, CallFails,
                  Abandon, CloseSpan, PassPost, ReturnCall, app
<1>2. CASE call[th].phase # "post" /\ call'[th].phase # "post"
  BY <1>1, <1>2, PendingSame
<1>3. CASE BeginCall(th) \/ OpenSpan(th) \/ StampIdentity(th) \/ PassPre(th)
  <2>1. call[th].phase # "post" /\ call'[th].phase # "post"
    <3>1. call \in [Thread -> CallType]
      BY OwnFacts
    <3>2. CASE BeginCall(th)
      BY <3>1, <3>2 DEF BeginCall, CallType
    <3>3. CASE OpenSpan(th)
      BY <3>1, <3>3 DEF OpenSpan, CallType
    <3>4. CASE StampIdentity(th) \/ PassPre(th)
      BY <3>1, <3>4 DEF StampIdentity, PassPre, CallType
    <3> QED BY <1>3, <3>2, <3>3, <3>4
  <2> QED BY <1>2, <2>1
<1>4. CASE PreRaises(th) \/ CallFails(th)
  <2>1. call[th].phase # "post" /\ call'[th].phase # "post"
    BY <1>4, OwnFacts DEF PreRaises, CallFails, Abandon, NoCall
  <2> QED BY <1>2, <2>1
<1>5. CASE CloseSpan(th) \/ PassPost(th)
  <2>1. /\ ~ EndOfChain(th) /\ Current(th) # "log"
        /\ call' = [call EXCEPT ![th].at = @ + 1]
    BY <1>5 DEF CloseSpan, PassPost
  <2>2. call'[th].at = call[th].at + 1 /\ call'[th].phase = call[th].phase
    BY <2>1, OwnFacts DEF CallType
  <2>3. Passed(th, "log")' <=> Passed(th, "log")
    BY <1>1, <2>1, <2>2, PassedNext DEF TraceInv
  <2> QED BY <1>1, <2>2, <2>3, PendingSame
<1>6. CASE ReturnCall(th)
  <2>1. EndOfChain(th) /\ call'[th].phase # "post"
    BY <1>6, OwnFacts DEF ReturnCall, NoCall
  <2>2. ASSUME Registered("log")
        PROVE  Passed(th, "log")
    <3>1. PICK i \in 1..Len(chain) : chain[i] = "log"
      BY <2>2, SpanFacts DEF Registered, TraceInv
    <3>2. i \in 1..call[th].at - 1
      BY <2>1, <3>1, SpanFacts DEF EndOfChain, CallType, TraceInv
    <3> QED BY <3>1, <3>2 DEF Passed
  <2> QED BY <1>1, <2>1, <2>2, PendingSame
<1> QED BY <1>1, <1>3, <1>4, <1>5, <1>6

\* Pending is finite, so that it grows and shrinks by one.
LEMMA PendingCount ==
    /\ IsFiniteSet(Pending) /\ Cardinality(Pending) \in Nat
    /\ IsFiniteSet(Pending') /\ Cardinality(Pending') \in Nat
<1>1. Pending \subseteq Thread /\ Pending' \subseteq Thread
  BY DEF Pending
<1> QED BY <1>1, FS_Subset, FS_CardinalityType, TelemetryAssumption

LEMMA ReportKeeps ==
    ASSUME TraceInv, EveryAnswerReported, [Next]_vars
    PROVE  EveryAnswerReported'
<1>1. lines \in Nat /\ lost \in Nat /\ answered \in Nat
  BY DEF TraceInv, TelemetryInv, TypeOK
<1>2. lines + lost = IF enabled /\ Registered("log")
                     THEN answered - Cardinality(Pending) ELSE 0
  BY DEF EveryAnswerReported, Pending
<1>3. ASSUME UNCHANGED <<chain, enabled, lines, lost, answered>>,
             Registered("log") => Pending' = Pending
      PROVE  EveryAnswerReported'
  <2>1. Registered("log")' = Registered("log")
    BY <1>3 DEF Registered
  <2>2. lines' + lost' = IF enabled' /\ Registered("log")'
                         THEN answered' - Cardinality(Pending') ELSE 0
    BY <1>2, <1>3, <2>1
  <2> QED BY <2>2 DEF EveryAnswerReported, Pending
<1>4. ASSUME UNCHANGED <<chain, enabled, lines, lost, answered, call>>
      PROVE  EveryAnswerReported'
  <2>1. Pending' = Pending
    BY <1>4 DEF Pending, Passed
  <2> QED BY <1>3, <1>4, <2>1
<1>5. CASE UNCHANGED vars \/ Export
  BY <1>4, <1>5 DEF vars, app, Export
<1>6. ASSUME NEW th \in Thread, ExitRequest(th) \/ \E mode \in Mode : EnterRequest(th, mode)
      PROVE  EveryAnswerReported'
  <2>1. ExitRequest(th) => UNCHANGED <<chain, enabled, lines, lost, answered, call>>
    BY DEF ExitRequest, app
  <2>2. ASSUME NEW mode \in Mode, EnterRequest(th, mode)
        PROVE  UNCHANGED <<chain, enabled, lines, lost, answered, call>>
    BY <2>2 DEF EnterRequest, app
  <2> QED BY <1>4, <1>6, <2>1, <2>2
<1>7. ASSUME NEW th \in Thread,
             \/ BeginCall(th) \/ OpenSpan(th) \/ StampIdentity(th) \/ PassPre(th)
             \/ PreRaises(th) \/ CallFails(th)
             \/ CloseSpan(th) \/ PassPost(th) \/ ReturnCall(th)
      PROVE  EveryAnswerReported'
  BY <1>3, <1>7, UnreportedSteps
<1>8. ASSUME NEW th \in Thread, CallProvider(th)
      PROVE  EveryAnswerReported'
  <2>1. /\ UNCHANGED <<chain, enabled, lines, lost>> /\ answered' = answered + 1
        /\ call[th].phase = "pre"
        /\ call' = [call EXCEPT ![th].phase = "post", ![th].at = 1]
    BY <1>8 DEF CallProvider, app
  <2>2. /\ call'[th].at = 1 /\ call'[th].phase = "post"
        /\ \A u \in Thread : u # th => call'[u] = call[u]
    BY <2>1, OwnFacts DEF CallType
  <2>3. ~ Passed(th, "log")'
    <3>1. 1..call'[th].at - 1 = {}
      BY <2>2
    <3> QED BY <3>1 DEF Passed
  <2>4. \A u \in Thread : u # th => (Passed(u, "log")' <=> Passed(u, "log"))
    BY <2>1, <2>2 DEF Passed
  <2>5. th \notin Pending /\ Pending' = Pending \cup {th}
    <3>1. th \notin Pending
      BY <2>1 DEF Pending
    <3>2. \A u \in Thread : u \in Pending' <=> u \in Pending \/ u = th
      BY <2>2, <2>3, <2>4 DEF Pending
    <3>3. Pending \subseteq Thread /\ Pending' \subseteq Thread
      BY DEF Pending
    <3> QED BY <3>1, <3>2, <3>3
  <2>6. Cardinality(Pending') = Cardinality(Pending) + 1
    BY <2>5, PendingCount, FS_AddElement
  <2>7. Registered("log")' = Registered("log")
    BY <2>1 DEF Registered
  <2>8. lines' + lost' = IF enabled' /\ Registered("log")'
                         THEN answered' - Cardinality(Pending') ELSE 0
    BY <1>1, <1>2, <2>1, <2>6, <2>7, PendingCount
  <2> QED BY <2>8 DEF EveryAnswerReported, Pending
<1>9. ASSUME NEW th \in Thread, Emit(th)
      PROVE  EveryAnswerReported'
  <2>1. /\ UNCHANGED <<chain, enabled, answered>>
        /\ call[th].phase = "post" /\ ~ EndOfChain(th) /\ Current(th) = "log"
        /\ call' = [call EXCEPT ![th].at = @ + 1]
        /\ \/ enabled /\ lines' = lines + 1 /\ lost' = lost
           \/ enabled /\ lost' = lost + 1 /\ lines' = lines
           \/ ~ enabled /\ lines' = lines /\ lost' = lost
    BY <1>9 DEF Emit, app
  <2>2. /\ call'[th].at = call[th].at + 1 /\ call'[th].phase = "post"
        /\ \A u \in Thread : u # th => call'[u] = call[u]
    BY <2>1, OwnFacts DEF CallType
  <2>3. Passed(th, "log")' /\ call[th].at \in 1..Len(chain)
    BY <2>1, <2>2, PassedNext DEF TraceInv
  <2>4. Registered("log") /\ Registered("log")' = Registered("log")
    BY <2>1, <2>3, SpanFacts DEF Current, Registered, TraceInv
  <2>5. ~ Passed(th, "log")
    <3> SUFFICES ASSUME Passed(th, "log") PROVE FALSE
      OBVIOUS
    <3>1. PICK i \in 1..call[th].at - 1 : chain[i] = "log"
      BY DEF Passed
    <3>2. Len(chain) \in Nat /\ i \in 1..Len(chain) /\ i # call[th].at
      BY <2>3, SpanFacts DEF TraceInv
    <3>3. i = call[th].at
      BY <2>1, <2>3, <3>1, <3>2, OnePlace DEF Current, TraceInv
    <3> QED BY <3>2, <3>3
  <2>6. \A u \in Thread : u # th => (Passed(u, "log")' <=> Passed(u, "log"))
    BY <2>1, <2>2 DEF Passed
  <2>7. th \in Pending /\ Pending' = Pending \ {th}
    <3>1. th \in Pending
      BY <2>1, <2>5 DEF Pending
    <3>2. \A u \in Thread : u \in Pending' <=> u \in Pending /\ u # th
      BY <2>2, <2>3, <2>6 DEF Pending
    <3>3. Pending \subseteq Thread /\ Pending' \subseteq Thread
      BY DEF Pending
    <3> QED BY <3>1, <3>2, <3>3
  <2>8. Cardinality(Pending') = Cardinality(Pending) - 1
    BY <2>7, PendingCount, FS_RemoveElement
  <2>9. lines' + lost' = IF enabled' /\ Registered("log")'
                         THEN answered' - Cardinality(Pending') ELSE 0
    BY <1>1, <1>2, <2>1, <2>4, <2>8, PendingCount
  <2> QED BY <2>9 DEF EveryAnswerReported, Pending
<1> QED BY <1>5, <1>6, <1>7, <1>8, <1>9 DEF Next, Step

\* Every answered call leaves one event line or one logged failure.
THEOREM AnswersReported == Spec => []EveryAnswerReported
<1>1. Init => EveryAnswerReported
  <2> SUFFICES ASSUME Init PROVE EveryAnswerReported
    OBVIOUS
  <2>1. Pending = {} /\ lines + lost = 0 /\ answered = 0
    BY DEF Init, Pending, NoCall
  <2>2. Cardinality(Pending) = 0
    BY <2>1, FS_EmptySet
  <2> QED BY <2>1, <2>2 DEF EveryAnswerReported, Pending
<1>2. TraceInv /\ EveryAnswerReported /\ [Next]_vars => EveryAnswerReported'
  BY ReportKeeps
<1> QED BY <1>1, <1>2, TraceInvariant, PTL DEF Spec
=============================================================================
