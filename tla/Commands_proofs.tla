--------------------------- MODULE Commands_proofs ---------------------------
(***************************************************************************)
(* What the transport, the refresh, the import oracle, import staging and  *)
(* the two lanes promise, for whatever servers, Terraform and generators   *)
(* do and wherever a run is killed.                                        *)
(***************************************************************************)
EXTENDS HttpTransport, Refresh, OracleImport, ImportStaging, LaneRun,
        FiniteSetTheorems, SequenceTheorems, WellFoundedInduction, TLAPS

(* The transport *)

HttpCalls ==
    [pc : {"idle", "admit", "send", "sent", "answered", "sleeping", "done"},
     request : HttpRequests \cup {Null}, attempt : Nat, redirect : Nat, target : Origins \cup {Null},
     auth : BOOLEAN, cookie : BOOLEAN, body : BOOLEAN, admitted : BOOLEAN \cup {Null},
     answer : Answers \cup {Null},
     result : {"answered", "cancelled", "closed", "redirectLimit", "refused",
               "broken", "invalid", "tooLarge", Null}]

HttpType ==
    /\ http \in [closed : BOOLEAN, cancelled : BOOLEAN]
    /\ calls \in [Callers -> HttpCalls]
    /\ DOMAIN wire = Callers

\* A call that was made has a request, and one with an answer has one to judge.
CallMade(c) ==
    /\ calls[c].pc \in {"admit", "send", "sent", "answered", "sleeping"} => calls[c].request \in HttpRequests
    /\ calls[c].pc \in {"send", "sent", "answered"} => calls[c].target \in Origins
    /\ calls[c].pc = "answered" => calls[c].answer \in Answers

\* An attempt under way was admitted, keeps the credentials for the origin it was
\* made to, and has its body for the first hop only.
AttemptStaysHome(c) ==
    calls[c].pc \in {"send", "sent", "answered"} =>
        /\ calls[c].admitted = TRUE
        /\ calls[c].auth \/ calls[c].cookie => calls[c].target = calls[c].request.origin
        /\ calls[c].body => calls[c].redirect = 0

\* What the jar keeps for a host came from it, and for a domain from a host under it.
JarKept ==
    /\ jar \in [Scopes -> Hosts \cup {Null}]
    /\ \A s \in Scopes : jar[s] # Null => Covers(s, jar[s])

\* A session is sent where it came from, or within the domain it was given for.
SessionStays(k, to) ==
    \/ k.by = HostOf[to]
    \/ k.of \in Domains /\ {k.by, HostOf[to]} \subseteq Under[k.of]

\* What was sent was sent in such an attempt, with such sessions.
SentSafely(c) ==
    wire[c] # Null =>
        /\ wire[c].admitted /\ ~wire[c].cancelled
        /\ wire[c].auth \/ wire[c].cookie => wire[c].to = wire[c].home
        /\ wire[c].body => wire[c].first
        /\ \A k \in wire[c].sessions : SessionStays(k, wire[c].to)

HttpInv ==
    /\ HttpType /\ JarKept
    /\ \A c \in Callers : CallMade(c) /\ AttemptStaysHome(c) /\ SentSafely(c)

LEMMA HttpRequestType ==
  ASSUME NEW r \in HttpRequests
  PROVE  r.origin \in Origins /\ r.auth \in BOOLEAN /\ r.cookie \in BOOLEAN /\ r.body \in BOOLEAN
  BY HttpAssumption

LEMMA NoCallType == NoCall \in HttpCalls
  BY DEF NoCall, HttpCalls

LEMMA AnswerType ==
  ASSUME NEW a \in Answers
  PROVE  /\ a.kind \in {"ok", "limited", "broken", "invalid", "tooLarge", "redirect"}
         /\ a.session \in Scopes \cup {Null}
         /\ a.kind = "redirect" => a.to \in Origins \cup {Null}
  BY DEF Answers

LEMMA JarStays ==
  ASSUME HttpInv, UNCHANGED jar
  PROVE  JarKept'
  BY DEF HttpInv, JarKept, Covers

\* A step that replaces one call by another and sends nothing.
LEMMA OneCall ==
  ASSUME HttpInv, NEW c \in Callers, NEW call \in HttpCalls,
         calls' = [calls EXCEPT ![c] = call], JarKept', UNCHANGED <<http, wire>>,
         call.pc \in {"admit", "send", "sent", "answered", "sleeping"} => call.request \in HttpRequests,
         call.pc \in {"send", "sent", "answered"} =>
            /\ call.target \in Origins
            /\ call.admitted = TRUE
            /\ call.auth \/ call.cookie => call.target = call.request.origin
            /\ call.body => call.redirect = 0,
         call.pc = "answered" => call.answer \in Answers
  PROVE  HttpInv'
  <1>1. HttpType' /\ JarKept'
    BY DEF HttpInv, HttpType
  <1>2. ASSUME NEW d \in Callers PROVE (CallMade(d) /\ AttemptStaysHome(d) /\ SentSafely(d))'
    <2>1. calls'[c] = call /\ (d # c => calls'[d] = calls[d])
      BY DEF HttpInv, HttpType
    <2>2. CallMade(d)' /\ AttemptStaysHome(d)'
      BY DEF HttpInv, CallMade, AttemptStaysHome
    <2>3. SentSafely(d)'
      BY DEF HttpInv, SentSafely
    <2> QED BY <2>2, <2>3
  <1> QED BY <1>1, <1>2 DEF HttpInv

LEMMA CallEndsKeeps ==
  ASSUME HttpInv, NEW c \in Callers, NEW result, CallEnds(c, result), JarKept',
         result \in {"answered", "cancelled", "closed", "redirectLimit", "refused",
                     "broken", "invalid", "tooLarge"}, UNCHANGED <<http, wire>>
  PROVE  HttpInv'
  <1> DEFINE call == [calls[c] EXCEPT !.pc = "done", !.result = result, !.answer = Null]
  <1>1. calls[c] \in HttpCalls
    BY DEF HttpInv, HttpType
  <1>2. calls' = [calls EXCEPT ![c] = call]
    BY DEF CallEnds
  <1>3. call \in HttpCalls /\ call.pc = "done"
    BY <1>1 DEF HttpCalls
  <1> QED BY <1>2, <1>3, OneCall

LEMMA RequestKeeps ==
  ASSUME HttpInv, NEW c \in Callers, NEW r \in HttpRequests, Request(c, r)
  PROVE  HttpInv'
  <1> DEFINE call == [NoCall EXCEPT !.pc = "admit", !.request = r]
  <1>1. call \in HttpCalls /\ call.pc = "admit" /\ call.request = r
    BY NoCallType DEF HttpCalls
  <1> QED BY <1>1, OneCall, JarStays DEF Request

LEMMA AdmitKeeps ==
  ASSUME HttpInv, NEW c \in Callers, Admit(c)
  PROVE  HttpInv'
  <1>1. CASE http.cancelled
    BY <1>1, CallEndsKeeps, JarStays DEF Admit
  <1>2. CASE ~http.cancelled /\ http.closed
    BY <1>2, CallEndsKeeps, JarStays DEF Admit, Admitted
  <1>3. CASE ~http.cancelled /\ ~http.closed
    <2> DEFINE r == calls[c].request
               call == [calls[c] EXCEPT !.pc = "send", !.redirect = 0, !.target = r.origin,
                          !.auth = r.auth, !.cookie = r.cookie,
                          !.body = r.body, !.admitted = ~http.closed]
    <2>1. calls[c] \in HttpCalls /\ r \in HttpRequests /\ http.closed \in BOOLEAN
      BY DEF HttpInv, HttpType, CallMade, Admit, CallAt
    <2>2. calls' = [calls EXCEPT ![c] = call] /\ UNCHANGED <<http, jar, wire>>
      BY <1>3 DEF Admit, Admitted
    <2>3. call \in HttpCalls
      BY <2>1, HttpRequestType DEF HttpCalls
    <2>4. /\ call.pc = "send" /\ call.request = r /\ call.redirect = 0 /\ call.target = r.origin
          /\ call.admitted = TRUE
      BY <1>3, <2>1 DEF HttpCalls
    <2> HIDE DEF call
    <2> QED BY <2>1, <2>2, <2>3, <2>4, OneCall, JarStays, HttpRequestType
  <1> QED BY <1>1, <1>2, <1>3

\* What is taken from the jar for a request may be sent with it.
LEMMA SessionsStay ==
  ASSUME HttpInv, NEW c \in Callers,
         NEW k \in {[of |-> s, by |-> jar[s]] : s \in SendsSessions(c)}
  PROVE  SessionStays(k, calls[c].target)
  <1>1. PICK s \in SendsSessions(c) : k = [of |-> s, by |-> jar[s]]
    OBVIOUS
  <1>2. s \in Scopes /\ jar[s] # Null /\ Covers(s, HostOf[calls[c].target])
    BY DEF SendsSessions
  <1>3. Covers(s, jar[s])
    BY <1>2 DEF HttpInv, JarKept
  <1> QED BY <1>1, <1>2, <1>3 DEF Covers, SessionStays

LEMMA SendKeeps ==
  ASSUME HttpInv, NEW c \in Callers, Send(c)
  PROVE  HttpInv'
  <1>1. CASE http.cancelled
    BY <1>1, CallEndsKeeps, JarStays DEF Send
  <1>2. CASE ~http.cancelled /\ calls[c].redirect > MaxRedirects
    BY <1>2, CallEndsKeeps, JarStays DEF Send
  <1>3. CASE ~http.cancelled /\ ~(calls[c].redirect > MaxRedirects)
    <2> DEFINE call == [calls[c] EXCEPT !.pc = "sent"]
               letter == [home |-> calls[c].request.origin, to |-> calls[c].target,
                          auth |-> calls[c].auth, cookie |-> calls[c].cookie,
                          sessions |-> {[of |-> s, by |-> jar[s]] : s \in SendsSessions(c)},
                          body |-> calls[c].body, first |-> calls[c].redirect = 0,
                          admitted |-> calls[c].admitted, cancelled |-> http.cancelled]
    <2>1. calls[c] \in HttpCalls /\ calls[c].pc = "send"
      BY DEF HttpInv, HttpType, Send, CallAt
    <2>2. calls' = [calls EXCEPT ![c] = call] /\ wire' = [wire EXCEPT ![c] = letter] /\ UNCHANGED <<http, jar>>
      BY <1>3 DEF Send
    <2>3. call \in HttpCalls
      BY <2>1 DEF HttpCalls
    <2>4. HttpType' /\ JarKept'
      BY <2>2, <2>3 DEF HttpInv, HttpType, JarKept
    <2>5. ASSUME NEW d \in Callers PROVE CallMade(d)' /\ AttemptStaysHome(d)'
      BY <2>1, <2>2 DEF HttpInv, CallMade, AttemptStaysHome
    <2>6. ASSUME NEW d \in Callers PROVE SentSafely(d)'
      <3>1. CASE d # c
        BY <2>2, <3>1 DEF HttpInv, SentSafely
      <3>2. CASE d = c
        <4>1. AttemptStaysHome(c)
          BY DEF HttpInv
        <4>2. wire'[c] = letter
          BY <2>2 DEF HttpInv, HttpType
        <4>3. letter.admitted /\ ~letter.cancelled
          BY <1>3, <2>1, <4>1 DEF AttemptStaysHome
        <4>4. letter.auth \/ letter.cookie => letter.to = letter.home
          BY <2>1, <4>1 DEF AttemptStaysHome
        <4>5. letter.body => letter.first
          BY <2>1, <4>1 DEF AttemptStaysHome
        <4>6. ASSUME NEW k \in letter.sessions PROVE SessionStays(k, letter.to)
          BY SessionsStay
        <4> HIDE DEF letter
        <4> QED BY <2>2, <3>2, <4>2, <4>3, <4>4, <4>5, <4>6 DEF SentSafely
      <3> QED BY <3>1, <3>2
    <2> QED BY <2>4, <2>5, <2>6 DEF HttpInv
  <1> QED BY <1>1, <1>2, <1>3

LEMMA AnswerKeeps ==
  ASSUME HttpInv, NEW c \in Callers, NEW a \in Answers, Answer(c, a)
  PROVE  HttpInv'
  <1> DEFINE call == [calls[c] EXCEPT !.pc = "answered", !.answer = a]
  <1>1. calls[c] \in HttpCalls /\ calls[c].pc = "sent" /\ CallMade(c) /\ AttemptStaysHome(c)
    BY DEF HttpInv, HttpType, Answer, CallAt
  <1>2. calls' = [calls EXCEPT ![c] = call] /\ UNCHANGED <<http, jar, wire>>
    BY DEF Answer
  <1>3. call \in HttpCalls
    BY <1>1 DEF HttpCalls
  <1>4. /\ call.pc = "answered" /\ call.answer = a
        /\ \A f \in {"request", "target", "auth", "cookie", "body", "redirect", "admitted"} : call[f] = calls[c][f]
    OBVIOUS
  <1> HIDE DEF call
  <1> QED BY <1>1, <1>2, <1>3, <1>4, OneCall, JarStays DEF CallMade, AttemptStaysHome

\* The next hop of an attempt keeps its credentials only while it stays.
LEMMA NextHopStaysHome ==
  ASSUME NEW call \in HttpCalls, NEW a \in Answers, a.kind = "redirect", a.to # Null,
         call.auth \/ call.cookie => call.target = call.request.origin
  PROVE  LET next == NextHop(call, a)
         IN  /\ next \in HttpCalls
             /\ next.pc = "send" /\ next.request = call.request /\ next.target \in Origins
             /\ next.admitted = call.admitted
             /\ next.auth \/ next.cookie => next.target = next.request.origin
             /\ ~next.body
  <1>1. a.to \in Origins
    BY AnswerType
  <1> DEFINE stays == a.to = call.target
             redirect == call.redirect + 1
             auth == call.auth /\ stays
             cookie == call.cookie /\ stays
             next == [call EXCEPT !.pc = "send", !.answer = Null, !.redirect = redirect,
                                  !.target = a.to, !.auth = auth, !.cookie = cookie, !.body = FALSE]
  <1>2. NextHop(call, a) = next
    BY DEF NextHop, SameOrigin
  <1>3. redirect \in Nat /\ auth \in BOOLEAN /\ cookie \in BOOLEAN
    BY DEF HttpCalls
  <1>4. auth \/ cookie => a.to = call.request.origin
    OBVIOUS
  <1> HIDE DEF redirect, auth, cookie
  <1>5. next \in HttpCalls
    BY <1>1, <1>3 DEF HttpCalls
  <1>6. /\ next.pc = "send" /\ next.request = call.request /\ next.target = a.to
        /\ next.admitted = call.admitted
        /\ next.auth = auth /\ next.cookie = cookie /\ next.body = FALSE
    OBVIOUS
  <1> HIDE DEF next
  <1> QED BY <1>1, <1>2, <1>4, <1>5, <1>6

\* The jar takes from an answer only what its host may give.
LEMMA JarKeeps ==
  ASSUME JarKept, NEW a \in Answers, NEW o \in Origins,
         jar' = IF http.cancelled THEN jar ELSE Kept(a, HostOf[o])
  PROVE  JarKept'
  <1>1. CASE a.session # Null /\ Covers(a.session, HostOf[o]) /\ ~http.cancelled
    <2>1. jar' = [jar EXCEPT ![a.session] = HostOf[o]] /\ a.session \in Scopes
      BY <1>1, AnswerType DEF Kept
    <2>2. HostOf[o] \in Hosts
      BY DEF Hosts
    <2> QED BY <1>1, <2>1, <2>2 DEF JarKept, Covers
  <1>2. CASE ~(a.session # Null /\ Covers(a.session, HostOf[o]) /\ ~http.cancelled)
    BY <1>2 DEF Kept, JarKept, Covers
  <1> QED BY <1>1, <1>2

LEMMA JudgeKeeps ==
  ASSUME HttpInv, NEW c \in Callers, Judge(c)
  PROVE  HttpInv'
  <1> DEFINE a == calls[c].answer
  <1>1. /\ calls[c] \in HttpCalls /\ calls[c].pc = "answered" /\ CallMade(c) /\ AttemptStaysHome(c)
        /\ a \in Answers
    BY DEF HttpInv, HttpType, Judge, CallAt, CallMade
  <1>2. JarKept' /\ UNCHANGED <<http, wire>>
    <2>1. calls[c].target \in Origins /\ JarKept
      BY <1>1 DEF HttpInv, CallMade
    <2> QED BY <1>1, <2>1, JarKeeps DEF Judge
  <1>3. a.kind \in {"ok", "limited", "broken", "invalid", "tooLarge", "redirect"}
    BY <1>1, AnswerType
  <1>4. CASE http.cancelled
    <2>1. CallEnds(c, "cancelled")
      BY <1>4 DEF Judge
    <2> QED BY <1>2, <2>1, CallEndsKeeps
  <1>5. CASE ~http.cancelled /\ a.kind \in {"broken", "invalid", "tooLarge"}
    <2>1. CallEnds(c, a.kind)
      BY <1>5 DEF Judge
    <2> QED BY <1>2, <1>5, <2>1, CallEndsKeeps
  <1>6. CASE ~http.cancelled /\ a.kind = "ok"
    <2>1. CallEnds(c, "answered")
      BY <1>6 DEF Judge
    <2> QED BY <1>2, <2>1, CallEndsKeeps
  <1>7. CASE ~http.cancelled /\ a.kind = "limited"
    <2>1. CASE calls[c].attempt = MaxHttpRetries
      <3>1. CallEnds(c, "answered")
        BY <1>7, <2>1 DEF Judge
      <3> QED BY <1>2, <3>1, CallEndsKeeps
    <2>2. CASE calls[c].attempt # MaxHttpRetries
      <3> DEFINE call == [calls[c] EXCEPT !.pc = "sleeping", !.answer = Null]
      <3>1. calls' = [calls EXCEPT ![c] = call]
        BY <1>7, <2>2 DEF Judge
      <3>2. call \in HttpCalls /\ call.pc = "sleeping" /\ call.request = calls[c].request
        BY <1>1 DEF HttpCalls
      <3> HIDE DEF call
      <3> QED BY <1>1, <1>2, <3>1, <3>2, OneCall DEF CallMade
    <2> QED BY <2>1, <2>2
  <1>8. CASE ~http.cancelled /\ a.kind = "redirect"
    <2>1. CASE (a.replays /\ calls[c].body) \/ a.to = Null
      <3>1. CallEnds(c, "refused")
        BY <1>8, <2>1 DEF Judge
      <3> QED BY <1>2, <3>1, CallEndsKeeps
    <2>2. CASE ~((a.replays /\ calls[c].body) \/ a.to = Null)
      <3> DEFINE call == NextHop(calls[c], a)
      <3>1. calls' = [calls EXCEPT ![c] = call]
        BY <1>8, <2>2 DEF Judge
      <3>2. /\ call \in HttpCalls
            /\ call.pc = "send" /\ call.request = calls[c].request /\ call.target \in Origins
            /\ call.admitted = calls[c].admitted
            /\ call.auth \/ call.cookie => call.target = call.request.origin
            /\ ~call.body
        BY <1>1, <1>8, <2>2, NextHopStaysHome DEF AttemptStaysHome
      <3> HIDE DEF call
      <3> QED BY <1>1, <1>2, <3>1, <3>2, OneCall DEF CallMade, AttemptStaysHome
    <2> QED BY <2>1, <2>2
  <1>9. http.cancelled \in BOOLEAN
    BY DEF HttpInv, HttpType
  <1> QED BY <1>3, <1>4, <1>5, <1>6, <1>7, <1>8

LEMMA WakeKeeps ==
  ASSUME HttpInv, NEW c \in Callers, Wake(c)
  PROVE  HttpInv'
  <1>1. CASE http.cancelled
    BY <1>1, CallEndsKeeps, JarStays DEF Wake
  <1>2. CASE ~http.cancelled
    <2> DEFINE attempt == calls[c].attempt + 1
               call == [calls[c] EXCEPT !.pc = "admit", !.attempt = attempt]
    <2>1. calls[c] \in HttpCalls /\ calls[c].pc = "sleeping" /\ CallMade(c)
      BY DEF HttpInv, HttpType, Wake, CallAt
    <2>2. calls' = [calls EXCEPT ![c] = call] /\ UNCHANGED <<http, jar, wire>>
      BY <1>2 DEF Wake
    <2>3. attempt \in Nat
      BY <2>1 DEF HttpCalls
    <2> HIDE DEF attempt
    <2>4. call \in HttpCalls /\ call.pc = "admit" /\ call.request = calls[c].request
      BY <2>1, <2>3 DEF HttpCalls
    <2> HIDE DEF call
    <2> QED BY <2>1, <2>2, <2>4, OneCall, JarStays DEF CallMade
  <1> QED BY <1>1, <1>2

LEMMA ReturnKeeps ==
  ASSUME HttpInv, NEW c \in Callers, Return(c)
  PROVE  HttpInv'
  <1>1. HttpType' /\ JarKept'
    BY NoCallType DEF Return, HttpInv, HttpType, JarKept, Covers
  <1>2. ASSUME NEW d \in Callers PROVE (CallMade(d) /\ AttemptStaysHome(d) /\ SentSafely(d))'
    BY DEF Return, HttpInv, CallMade, AttemptStaysHome, SentSafely, NoCall
  <1> QED BY <1>1, <1>2 DEF HttpInv

LEMMA HttpEnvironmentKeeps ==
  ASSUME HttpInv, Close \/ CancelParent
  PROVE  HttpInv'
  <1>1. HttpType' /\ JarKept'
    BY DEF Close, CancelParent, HttpInv, HttpType, JarKept, Covers
  <1> QED BY <1>1 DEF Close, CancelParent, HttpInv, CallMade, AttemptStaysHome, SentSafely

\* Whatever the servers answer, whoever closes the transport or cancels its context, no
\* attempt begins too late, and nothing that is secret goes to the wrong origin.
THEOREM TransportIsSafe == HttpSpec => []RequestsAreSafe
  <1>1. HttpInit => HttpInv
    BY NoCallType DEF HttpInit, HttpInv, HttpType, JarKept, CallMade, AttemptStaysHome, SentSafely, NoCall
  <1>2. HttpInv /\ [HttpNext]_htvars => HttpInv'
    <2> SUFFICES ASSUME HttpInv, [HttpNext]_htvars PROVE HttpInv'
      OBVIOUS
    <2>1. ASSUME UNCHANGED htvars PROVE HttpInv'
      BY <2>1 DEF htvars, HttpInv, HttpType, JarKept, Covers, CallMade, AttemptStaysHome, SentSafely
    <2> QED BY <2>1, RequestKeeps, AdmitKeeps, SendKeeps, AnswerKeeps, JudgeKeeps, WakeKeeps, ReturnKeeps,
               HttpEnvironmentKeeps DEF HttpNext, CallStep
  <1>3. HttpInv => RequestsAreSafe
    BY DEF HttpInv, SentSafely, SessionStays, RequestsAreSafe, ShutdownIsQuiet, CredentialsStayHome, Sent
  <1> QED BY <1>1, <1>2, <1>3, PTL DEF HttpSpec

-----------------------------------------------------------------------------
(* Refresh *)

RefreshRuns ==
    [pc : {"idle", "next", "init", "plan", "open", "show", "judge", "apply", "cleanup", "done", "failed"},
     roots : RefreshRoots \cup {<<>>}, at : Nat, backend : BOOLEAN, directory : BOOLEAN,
     open : RefreshPlans \cup {Null}, shown : RefreshPlans \cup {Null},
     roots_done : Nat, moved : Nat, failed : BOOLEAN]

RefreshType ==
    /\ refresh \in RefreshRuns
    /\ saved \in RefreshPlans \cup {Null}
    /\ reconciled \in Seq([root : Nat, plan : RefreshPlans, shown : RefreshPlans])

Reconciled == {reconciled[i].root : i \in DOMAIN reconciled}
ConfiguredUpTo(n) == {i \in 1..n : refresh.roots[i].configured}
WorkingOnRoot == refresh.pc \in {"init", "plan", "open", "show", "judge", "apply"}

\* What was applied: at most one plan per root, each the one shown, none that acts.
ReconciledAsShown ==
    /\ \A i \in DOMAIN reconciled :
          /\ reconciled[i].plan = reconciled[i].shown
          /\ RequireStateOnlyRefreshPlan(reconciled[i].plan)
          /\ reconciled[i].root <= refresh.at
    /\ \A i, j \in DOMAIN reconciled : reconciled[i].root = reconciled[j].root => i = j

\* The open file is what is shown, judged and applied.
OpenIsShown ==
    /\ refresh.pc \in {"show", "judge", "apply"} => refresh.open \in RefreshPlans
    /\ refresh.pc \in {"judge", "apply"} => refresh.shown = refresh.open
    /\ refresh.pc = "apply" => RequireStateOnlyRefreshPlan(refresh.shown)

\* Where the run stands: every configured root before the current one was applied.
RefreshProgress ==
    /\ refresh.at <= Len(refresh.roots)
    /\ refresh.pc \in {"idle"} => reconciled = <<>>
    /\ refresh.pc \notin {"failed", "cleanup"} => ~refresh.failed
    /\ ~refresh.failed => Len(reconciled) = refresh.roots_done
    /\ WorkingOnRoot =>
          /\ refresh.at > 0 /\ refresh.roots[refresh.at].configured
          /\ Reconciled = ConfiguredUpTo(refresh.at - 1)
    /\ refresh.pc \in {"next", "done"} \/ (refresh.pc = "cleanup" /\ ~refresh.failed)
          => Reconciled = ConfiguredUpTo(refresh.at)
    /\ refresh.pc \in {"next", "init", "done"} => ~refresh.directory
    /\ refresh.pc = "done" => refresh.at = Len(refresh.roots) /\ refresh.roots_done > 0

RefreshInv == RefreshType /\ ReconciledAsShown /\ OpenIsShown /\ RefreshProgress

LEMMA RootsAreSequences ==
  ASSUME NEW roots \in RefreshRoots \cup {<<>>}
  PROVE  /\ roots \in Seq([configured : BOOLEAN, backend : BOOLEAN])
         /\ Len(roots) \in Nat /\ DOMAIN roots = 1..Len(roots)
  <1>1. <<>> \in Seq([configured : BOOLEAN, backend : BOOLEAN])
    OBVIOUS
  <1>2. roots \in Seq([configured : BOOLEAN, backend : BOOLEAN])
    BY <1>1, RefreshAssumption
  <1> QED BY <1>2

LEMMA RefreshInitInv == RefreshInit => RefreshInv
  BY DEF RefreshInit, NoRefresh, RefreshInv, RefreshType, RefreshRuns,
     ReconciledAsShown, OpenIsShown, RefreshProgress, WorkingOnRoot

LEMMA ReconciledTyped ==
  ASSUME RefreshInv
  PROVE  /\ DOMAIN reconciled = 1..Len(reconciled) /\ Len(reconciled) \in Nat
         /\ \A i \in DOMAIN reconciled : reconciled[i].root \in Nat
  <1> DEFINE entries == [root : Nat, plan : RefreshPlans, shown : RefreshPlans]
  <1>1. reconciled \in Seq(entries)
    BY DEF RefreshInv, RefreshType
  <1>2. \A e \in entries : e.root \in Nat
    OBVIOUS
  <1> HIDE DEF entries
  <1> QED BY <1>1, <1>2

LEMMA RefreshIsRun == RefreshInv => refresh \in RefreshRuns
  BY DEF RefreshInv, RefreshType

\* A step within a root that applies nothing: on to the next one, or to a failure.
LEMMA StaysAtRoot ==
  ASSUME RefreshInv, NEW run \in RefreshRuns, refresh' = run,
         UNCHANGED reconciled, saved' \in RefreshPlans \cup {Null},
         run.roots = refresh.roots, run.at = refresh.at, run.roots_done = refresh.roots_done,
         \/ run.pc \in {"failed", "cleanup"} /\ run.failed
         \/ /\ WorkingOnRoot /\ run.pc \in {"plan", "open", "show", "judge", "apply"} /\ ~run.failed
            /\ run.pc \in {"show", "judge", "apply"} => run.open \in RefreshPlans
            /\ run.pc \in {"judge", "apply"} => run.shown = run.open
            /\ run.pc = "apply" => RequireStateOnlyRefreshPlan(run.shown)
  PROVE  RefreshInv'
  <1>1. RefreshType'
    BY DEF RefreshInv, RefreshType
  <1>2. ReconciledAsShown'
    BY DEF RefreshInv, ReconciledAsShown
  <1>3. OpenIsShown'
    BY DEF OpenIsShown
  <1>4. Reconciled' = Reconciled /\ \A n : ConfiguredUpTo(n)' = ConfiguredUpTo(n)
    BY DEF Reconciled, ConfiguredUpTo
  <1>5. RefreshProgress'
    <2>1. CASE run.pc \in {"failed", "cleanup"} /\ run.failed
      BY <2>1 DEF RefreshInv, RefreshProgress, WorkingOnRoot
    <2>2. CASE ~(run.pc \in {"failed", "cleanup"} /\ run.failed)
      <3>1. WorkingOnRoot /\ run.pc \in {"plan", "open", "show", "judge", "apply"} /\ ~run.failed
        BY <2>2
      <3>2. ~refresh.failed
        BY <3>1 DEF WorkingOnRoot, RefreshInv, RefreshProgress
      <3> QED BY <1>4, <3>1, <3>2 DEF RefreshInv, RefreshProgress
    <2> QED BY <2>1, <2>2
  <1> QED BY <1>1, <1>2, <1>3, <1>5 DEF RefreshInv

LEMMA RefreshFailsKeeps ==
  ASSUME RefreshInv, RefreshFails, UNCHANGED reconciled, saved' \in RefreshPlans \cup {Null}
  PROVE  RefreshInv'
  <1> DEFINE run == [refresh EXCEPT !.pc = "cleanup", !.failed = TRUE]
  <1>1. run \in RefreshRuns
    BY RefreshIsRun DEF RefreshRuns
  <1>2. /\ run.pc = "cleanup" /\ run.failed
        /\ run.roots = refresh.roots /\ run.at = refresh.at /\ run.roots_done = refresh.roots_done
    OBVIOUS
  <1>3. refresh' = run
    BY DEF RefreshFails
  <1> HIDE DEF run
  <1> QED BY <1>1, <1>2, <1>3, StaysAtRoot

LEMMA StartRefreshKeeps ==
  ASSUME RefreshInv, NEW roots \in RefreshRoots, NEW backend \in BOOLEAN, StartRefresh(roots, backend)
  PROVE  RefreshInv'
  <1> DEFINE run == [NoRefresh EXCEPT !.pc = "next", !.roots = roots, !.backend = backend]
  <1>1. /\ run \in RefreshRuns
        /\ run.pc = "next" /\ run.roots = roots /\ run.at = 0 /\ run.roots_done = 0
        /\ ~run.failed /\ ~run.directory
    BY DEF NoRefresh, RefreshRuns
  <1>2. refresh' = run /\ UNCHANGED saved /\ reconciled = <<>> /\ reconciled' = <<>>
    BY DEF StartRefresh, RefreshAt, RefreshInv, RefreshProgress
  <1> HIDE DEF run
  <1>3. Len(roots) \in Nat
    OBVIOUS
  <1>4. RefreshType'
    BY <1>1, <1>2 DEF RefreshInv, RefreshType
  <1>5. ReconciledAsShown' /\ OpenIsShown'
    BY <1>1, <1>2 DEF ReconciledAsShown, OpenIsShown
  <1>6. Reconciled' = {} /\ ConfiguredUpTo(0)' = {}
    BY <1>2 DEF Reconciled, ConfiguredUpTo
  <1>7. RefreshProgress'
    BY <1>1, <1>2, <1>6 DEF RefreshProgress, WorkingOnRoot
  <1> QED BY <1>4, <1>5, <1>7 DEF RefreshInv

\* The configured roots up to the next one.
LEMMA NextConfigured ==
  ASSUME NEW n \in Nat
  PROVE  ConfiguredUpTo(n + 1) =
           IF refresh.roots[n + 1].configured THEN ConfiguredUpTo(n) \cup {n + 1} ELSE ConfiguredUpTo(n)
  BY DEF ConfiguredUpTo

LEMMA NextRefreshRootKeeps ==
  ASSUME RefreshInv, NextRefreshRoot
  PROVE  RefreshInv'
  <1> DEFINE next == refresh.at + 1
  <1>1. /\ refresh \in RefreshRuns /\ refresh.at \in Nat /\ refresh.pc = "next" /\ ~refresh.failed /\ ~refresh.directory
        /\ Len(reconciled) = refresh.roots_done /\ Reconciled = ConfiguredUpTo(refresh.at)
        /\ refresh.at <= Len(refresh.roots) /\ refresh.roots \in RefreshRoots \cup {<<>>}
        /\ refresh.roots_done \in Nat
    BY DEF NextRefreshRoot, RefreshAt, RefreshInv, RefreshType, RefreshRuns, RefreshProgress
  <1>2. Len(refresh.roots) \in Nat
    OBVIOUS
  <1>3. UNCHANGED <<saved, reconciled>> /\ Reconciled' = Reconciled
    BY DEF NextRefreshRoot, Reconciled
  <1>4. CASE next > Len(refresh.roots)
    <2> DEFINE run == [refresh EXCEPT !.pc = IF refresh.roots_done = 0 THEN "failed" ELSE "done",
                                      !.failed = refresh.roots_done = 0]
    <2>1. refresh' = run
      BY <1>4 DEF NextRefreshRoot
    <2>2. /\ run \in RefreshRuns
          /\ run.pc = (IF refresh.roots_done = 0 THEN "failed" ELSE "done")
          /\ run.failed <=> refresh.roots_done = 0
          /\ run.roots = refresh.roots /\ run.at = refresh.at /\ run.roots_done = refresh.roots_done
          /\ run.directory = refresh.directory
      BY <1>1 DEF RefreshRuns
    <2> HIDE DEF run
    <2>3. RefreshType' /\ ReconciledAsShown' /\ OpenIsShown'
      BY <1>3, <2>1, <2>2 DEF RefreshInv, RefreshType, ReconciledAsShown, OpenIsShown
    <2>4. ConfiguredUpTo(refresh.at)' = ConfiguredUpTo(refresh.at)
      BY <2>1, <2>2 DEF ConfiguredUpTo
    <2>5. RefreshProgress'
      BY <1>1, <1>3, <1>4, <2>1, <2>2, <2>4 DEF RefreshProgress, WorkingOnRoot
    <2> QED BY <2>3, <2>5 DEF RefreshInv
  <1>5. CASE next <= Len(refresh.roots)
    <2>1. PICK pc \in {"next", "failed", "init"}, failed \in BOOLEAN :
            /\ refresh' = [refresh EXCEPT !.at = next, !.pc = pc, !.failed = failed]
            /\ failed <=> pc = "failed"
            /\ pc = "next" => ~refresh.roots[next].configured
            /\ pc = "init" => refresh.roots[next].configured
      <3>1. CASE ~refresh.roots[next].configured
        <4>1. refresh' = [refresh EXCEPT !.at = next]
          BY <1>1, <1>5, <3>1 DEF NextRefreshRoot
        <4>2. refresh' = [refresh EXCEPT !.at = next, !.pc = "next", !.failed = FALSE]
          BY <1>1, <4>1 DEF RefreshRuns
        <4> QED BY <3>1, <4>2
      <3>2. CASE refresh.roots[next].configured /\ refresh.roots[next].backend /\ ~refresh.backend
        <4>1. refresh' = [refresh EXCEPT !.at = next, !.pc = "failed", !.failed = TRUE]
          BY <1>1, <1>5, <3>2 DEF NextRefreshRoot
        <4> QED BY <4>1
      <3>3. CASE refresh.roots[next].configured /\ ~(refresh.roots[next].backend /\ ~refresh.backend)
        <4>1. refresh' = [refresh EXCEPT !.at = next, !.pc = "init"]
          BY <1>1, <1>5, <3>3 DEF NextRefreshRoot
        <4>2. refresh' = [refresh EXCEPT !.at = next, !.pc = "init", !.failed = FALSE]
          BY <1>1, <4>1 DEF RefreshRuns
        <4> QED BY <3>3, <4>2
      <3> QED BY <3>1, <3>2, <3>3
    <2> DEFINE run == [refresh EXCEPT !.at = next, !.pc = pc, !.failed = failed]
    <2>2. next \in Nat /\ next - 1 = refresh.at
      BY <1>1
    <2>3. /\ run \in RefreshRuns
          /\ run.pc = pc /\ run.failed = failed /\ run.at = next
          /\ run.roots = refresh.roots /\ run.roots_done = refresh.roots_done
          /\ run.directory = refresh.directory
      BY <1>1, <2>2 DEF RefreshRuns
    <2> HIDE DEF run
    <2>4. RefreshType'
      BY <1>3, <2>1, <2>3 DEF RefreshInv, RefreshType, run
    <2>5. ReconciledAsShown'
      <3> QED BY <1>1, <1>3, <2>1, ReconciledTyped DEF RefreshInv, ReconciledAsShown
    <2>6. OpenIsShown'
      BY <2>1 DEF OpenIsShown
    <2>7. ConfiguredUpTo(next) =
             IF refresh.roots[next].configured THEN ConfiguredUpTo(refresh.at) \cup {next} ELSE ConfiguredUpTo(refresh.at)
      BY <1>1, NextConfigured
    <2>8. \A n : ConfiguredUpTo(n)' = ConfiguredUpTo(n)
      BY <2>1 DEF ConfiguredUpTo
    <2> HIDE DEF next
    <2>9. RefreshProgress'
      BY <1>1, <1>3, <1>5, <2>1, <2>2, <2>7, <2>8 DEF RefreshProgress, WorkingOnRoot
    <2> QED BY <2>4, <2>5, <2>6, <2>9 DEF RefreshInv
  <1> QED BY <1>1, <1>4, <1>5

LEMMA InitializeRefreshKeeps ==
  ASSUME RefreshInv, InitializeRefresh
  PROVE  RefreshInv'
  <1>1. refresh \in RefreshRuns /\ WorkingOnRoot /\ UNCHANGED <<saved, reconciled>> /\ ~refresh.failed
        /\ saved \in RefreshPlans \cup {Null}
    BY DEF InitializeRefresh, RefreshAt, WorkingOnRoot, RefreshInv, RefreshType, RefreshProgress
  <1>2. CASE refresh' = [refresh EXCEPT !.pc = "plan", !.directory = TRUE]
    <2> DEFINE run == [refresh EXCEPT !.pc = "plan", !.directory = TRUE]
    <2>1. /\ run \in RefreshRuns /\ run.pc = "plan" /\ run.failed = refresh.failed
          /\ run.roots = refresh.roots /\ run.at = refresh.at /\ run.roots_done = refresh.roots_done
      BY <1>1 DEF RefreshRuns
    <2>2. refresh' = run
      BY <1>2
    <2> HIDE DEF run
    <2> QED BY <1>1, <2>1, <2>2, StaysAtRoot
  <1>3. CASE refresh' = [refresh EXCEPT !.pc = "failed", !.failed = TRUE]
    <2> DEFINE run == [refresh EXCEPT !.pc = "failed", !.failed = TRUE]
    <2>1. /\ run \in RefreshRuns /\ run.pc = "failed" /\ run.failed
          /\ run.roots = refresh.roots /\ run.at = refresh.at /\ run.roots_done = refresh.roots_done
      BY <1>1 DEF RefreshRuns
    <2>2. refresh' = run
      BY <1>3
    <2> HIDE DEF run
    <2> QED BY <1>1, <2>1, <2>2, StaysAtRoot
  <1> QED BY <1>2, <1>3 DEF InitializeRefresh

\* Planning, opening, showing and judging take the run one step on, or fail the root.
LEMMA StepsOn ==
  ASSUME RefreshInv, WorkingOnRoot, NEW pc \in {"open", "show", "judge", "apply"},
         NEW opened \in RefreshPlans \cup {Null}, NEW shown \in RefreshPlans \cup {Null},
         refresh' = [refresh EXCEPT !.pc = pc, !.open = opened, !.shown = shown],
         UNCHANGED reconciled, saved' \in RefreshPlans \cup {Null},
         pc \in {"show", "judge", "apply"} => opened \in RefreshPlans,
         pc \in {"judge", "apply"} => shown = opened,
         pc = "apply" => RequireStateOnlyRefreshPlan(shown)
  PROVE  RefreshInv'
  <1> DEFINE run == [refresh EXCEPT !.pc = pc, !.open = opened, !.shown = shown]
  <1>1. ~refresh.failed
    BY DEF WorkingOnRoot, RefreshInv, RefreshProgress
  <1>2. /\ run \in RefreshRuns /\ run.pc = pc /\ run.failed = refresh.failed
        /\ run.roots = refresh.roots /\ run.at = refresh.at /\ run.roots_done = refresh.roots_done
        /\ run.open = opened /\ run.shown = shown
    BY RefreshIsRun DEF RefreshRuns
  <1>3. refresh' = run
    OBVIOUS
  <1> HIDE DEF run
  <1> QED BY <1>1, <1>2, <1>3, StaysAtRoot

LEMMA RefreshStepsKeep ==
  ASSUME RefreshInv, PlanRefreshOnly \/ OpenRefreshPlan \/ ShowRefreshPlan \/ JudgeRefreshPlan
  PROVE  RefreshInv'
  <1>1. /\ refresh \in RefreshRuns /\ saved \in RefreshPlans \cup {Null} /\ OpenIsShown
        /\ refresh.open \in RefreshPlans \cup {Null} /\ refresh.shown \in RefreshPlans \cup {Null}
    BY DEF RefreshInv, RefreshType, RefreshRuns
  <1>2. \A pc : [refresh EXCEPT !.pc = pc] =
                [refresh EXCEPT !.pc = pc, !.open = refresh.open, !.shown = refresh.shown]
    OBVIOUS
  <1>3. /\ \A opened : [refresh EXCEPT !.pc = "show", !.open = opened] =
                     [refresh EXCEPT !.pc = "show", !.open = opened, !.shown = refresh.shown]
        /\ \A shown : [refresh EXCEPT !.pc = "judge", !.shown = shown] =
                      [refresh EXCEPT !.pc = "judge", !.open = refresh.open, !.shown = shown]
    BY <1>1 DEF RefreshRuns
  <1>4. CASE PlanRefreshOnly
    BY <1>1, <1>2, <1>4, StepsOn, RefreshFailsKeeps DEF PlanRefreshOnly, RefreshAt, WorkingOnRoot
  <1>5. CASE OpenRefreshPlan
    BY <1>1, <1>3, <1>5, StepsOn, RefreshFailsKeeps DEF OpenRefreshPlan, RefreshAt, WorkingOnRoot
  <1>6. CASE ShowRefreshPlan
    <2>1. WorkingOnRoot /\ refresh.open \in RefreshPlans /\ UNCHANGED <<saved, reconciled>>
      BY <1>1, <1>6 DEF ShowRefreshPlan, RefreshAt, WorkingOnRoot, OpenIsShown
    <2>2. CASE refresh' = [refresh EXCEPT !.pc = "judge", !.shown = refresh.open]
      <3>1. refresh' = [refresh EXCEPT !.pc = "judge", !.open = refresh.open, !.shown = refresh.open]
        BY <1>3, <2>2
      <3> QED BY <1>1, <2>1, <3>1, StepsOn
    <2> QED BY <1>1, <1>6, <2>2, RefreshFailsKeeps DEF ShowRefreshPlan
  <1>7. CASE JudgeRefreshPlan
    <2>1. WorkingOnRoot /\ refresh.shown = refresh.open /\ refresh.open \in RefreshPlans /\ UNCHANGED <<saved, reconciled>>
      BY <1>1, <1>7 DEF JudgeRefreshPlan, RefreshAt, WorkingOnRoot, OpenIsShown
    <2>2. CASE RequireStateOnlyRefreshPlan(refresh.shown)
      <3>1. refresh' = [refresh EXCEPT !.pc = "apply", !.open = refresh.open, !.shown = refresh.shown]
        BY <1>2, <1>7, <2>2 DEF JudgeRefreshPlan
      <3> QED BY <1>1, <2>1, <2>2, <3>1, StepsOn
    <2>3. CASE ~RequireStateOnlyRefreshPlan(refresh.shown)
      <3>1. RefreshFails
        BY <1>7, <2>3 DEF JudgeRefreshPlan
      <3> QED BY <1>1, <2>1, <3>1, RefreshFailsKeeps
    <2> QED BY <2>2, <2>3
  <1> QED BY <1>4, <1>5, <1>6, <1>7

\* One more root was applied: none of the earlier entries is its own.
LEMMA AppliedRoot ==
  ASSUME RefreshInv, refresh.pc = "apply",
         NEW plan \in RefreshPlans, plan = refresh.shown,
         reconciled' = Append(reconciled, [root |-> refresh.at, plan |-> plan, shown |-> refresh.shown]),
         refresh'.at = refresh.at, refresh'.roots = refresh.roots
  PROVE  /\ reconciled' \in Seq([root : Nat, plan : RefreshPlans, shown : RefreshPlans])
         /\ Len(reconciled') = Len(reconciled) + 1
         /\ ReconciledAsShown'
         /\ Reconciled' = ConfiguredUpTo(refresh.at)'
  <1> DEFINE entries == [root : Nat, plan : RefreshPlans, shown : RefreshPlans]
             entry == [root |-> refresh.at, plan |-> plan, shown |-> refresh.shown]
  <1>1. /\ refresh.at \in Nat /\ refresh.at > 0 /\ refresh.roots[refresh.at].configured
        /\ Reconciled = ConfiguredUpTo(refresh.at - 1)
        /\ RequireStateOnlyRefreshPlan(plan)
    BY DEF RefreshInv, RefreshType, RefreshRuns, RefreshProgress, WorkingOnRoot, OpenIsShown
  <1>2. reconciled \in Seq(entries) /\ entry \in entries /\ Len(reconciled) \in Nat
    BY <1>1 DEF RefreshInv, RefreshType
  <1>3. entry.root = refresh.at /\ entry.plan = plan /\ entry.shown = plan
    OBVIOUS
  <1> HIDE DEF entries, entry
  <1>4. /\ reconciled' \in Seq(entries) /\ Len(reconciled') = Len(reconciled) + 1
        /\ DOMAIN reconciled = 1..Len(reconciled) /\ DOMAIN reconciled' = 1..(Len(reconciled) + 1)
        /\ \A i \in DOMAIN reconciled : reconciled'[i] = reconciled[i]
        /\ reconciled'[Len(reconciled) + 1] = entry
    BY <1>2 DEF entry
  <1>5. \A i \in DOMAIN reconciled : reconciled[i].root \in Nat /\ reconciled[i].root < refresh.at
    <2> SUFFICES ASSUME NEW i \in DOMAIN reconciled
                 PROVE  reconciled[i].root \in Nat /\ reconciled[i].root < refresh.at
      OBVIOUS
    <2>1. reconciled[i].root \in 1..(refresh.at - 1)
      BY <1>1 DEF Reconciled, ConfiguredUpTo
    <2> QED BY <1>1, <2>1
  <1>6. \A i \in DOMAIN reconciled' : i \in DOMAIN reconciled \/ i = Len(reconciled) + 1
    OBVIOUS
  <1>7. ReconciledAsShown'
    <2>1. \A i \in DOMAIN reconciled' :
            /\ reconciled'[i].plan = reconciled'[i].shown
            /\ RequireStateOnlyRefreshPlan(reconciled'[i].plan)
            /\ reconciled'[i].root <= refresh.at
      BY <1>1 DEF RefreshInv, ReconciledAsShown
    <2>2. \A i, j \in DOMAIN reconciled' : reconciled'[i].root = reconciled'[j].root => i = j
      BY <1>5 DEF RefreshInv, ReconciledAsShown
    <2> QED BY <2>1, <2>2 DEF ReconciledAsShown
  <1>8. Reconciled' = Reconciled \cup {refresh.at}
    BY DEF Reconciled
  <1>9. ConfiguredUpTo(refresh.at)' = ConfiguredUpTo(refresh.at - 1) \cup {refresh.at}
    BY <1>1 DEF ConfiguredUpTo
  <1> QED BY <1>1, <1>4, <1>7, <1>8, <1>9 DEF entries

LEMMA ApplyRefreshPlanKeeps ==
  ASSUME RefreshInv, ApplyRefreshPlan
  PROVE  RefreshInv'
  <1> DEFINE plan == refresh.open
             roots_done == refresh.roots_done + 1
             moved == refresh.moved + Cardinality(refresh.shown.drift)
             failure == [refresh EXCEPT !.pc = "cleanup", !.failed = TRUE]
             success == [refresh EXCEPT !.pc = "cleanup", !.roots_done = roots_done, !.moved = moved]
  <1>1. /\ refresh \in RefreshRuns /\ refresh.pc = "apply" /\ ~refresh.failed /\ UNCHANGED saved
        /\ plan \in RefreshPlans /\ plan = refresh.shown
        /\ refresh.at \in Nat /\ refresh.roots_done \in Nat /\ refresh.moved \in Nat
        /\ Len(reconciled) = refresh.roots_done /\ refresh.at <= Len(refresh.roots)
        /\ reconciled' = Append(reconciled, [root |-> refresh.at, plan |-> plan, shown |-> refresh.shown])
    BY DEF ApplyRefreshPlan, RefreshAt, RefreshInv, RefreshType, RefreshRuns, RefreshProgress, OpenIsShown
  <1>2. Cardinality(refresh.shown.drift) \in Nat
    BY <1>1, RefreshAssumption, FS_CardinalityType
  <1>3. roots_done \in Nat /\ moved \in Nat
    BY <1>1, <1>2
  <1>4. refresh' = failure \/ refresh' = success
    BY DEF ApplyRefreshPlan, RefreshFails
  <1> HIDE DEF roots_done, moved
  <1>5. failure \in RefreshRuns /\ success \in RefreshRuns
    BY <1>1, <1>3 DEF RefreshRuns
  <1>6. /\ failure.pc = "cleanup" /\ failure.failed /\ failure.at = refresh.at /\ failure.roots = refresh.roots
        /\ success.pc = "cleanup" /\ ~success.failed /\ success.at = refresh.at
        /\ success.roots = refresh.roots /\ success.roots_done = roots_done
    BY <1>1
  <1> HIDE DEF failure, success
  <1>7. /\ refresh' \in RefreshRuns /\ refresh'.pc = "cleanup"
        /\ refresh'.at = refresh.at /\ refresh'.roots = refresh.roots
        /\ ~refresh'.failed => refresh'.roots_done = roots_done
    BY <1>4, <1>5, <1>6
  <1>8. /\ reconciled' \in Seq([root : Nat, plan : RefreshPlans, shown : RefreshPlans])
        /\ Len(reconciled') = Len(reconciled) + 1
        /\ ReconciledAsShown'
        /\ Reconciled' = ConfiguredUpTo(refresh.at)'
    BY <1>1, <1>7, AppliedRoot
  <1>9. RefreshType'
    BY <1>1, <1>7 DEF RefreshInv, RefreshType
  <1>10. OpenIsShown'
    BY <1>7 DEF OpenIsShown
  <1>11. RefreshProgress'
    BY <1>1, <1>7, <1>8 DEF RefreshProgress, WorkingOnRoot, roots_done
  <1> QED BY <1>8, <1>9, <1>10, <1>11 DEF RefreshInv

LEMMA CleanupRefreshKeeps ==
  ASSUME RefreshInv, CleanupRefresh
  PROVE  RefreshInv'
  <1>1. /\ refresh \in RefreshRuns /\ refresh.pc = "cleanup" /\ UNCHANGED reconciled
        /\ saved' \in RefreshPlans \cup {Null}
    BY DEF CleanupRefresh, RefreshAt, RefreshInv, RefreshType
  <1>2. CASE refresh' = [refresh EXCEPT !.pc = "failed", !.failed = TRUE, !.open = Null, !.shown = Null]
    <2> DEFINE run == [refresh EXCEPT !.pc = "failed", !.failed = TRUE, !.open = Null, !.shown = Null]
    <2>1. /\ run \in RefreshRuns /\ run.pc = "failed" /\ run.failed
          /\ run.roots = refresh.roots /\ run.at = refresh.at /\ run.roots_done = refresh.roots_done
      BY <1>1 DEF RefreshRuns
    <2>2. refresh' = run
      BY <1>2
    <2> HIDE DEF run
    <2> QED BY <1>1, <2>1, <2>2, StaysAtRoot
  <1>3. CASE refresh' = [refresh EXCEPT !.pc = IF refresh.failed THEN "failed" ELSE "next",
                                        !.directory = FALSE, !.open = Null, !.shown = Null]
    <2> DEFINE run == [refresh EXCEPT !.pc = IF refresh.failed THEN "failed" ELSE "next",
                                      !.directory = FALSE, !.open = Null, !.shown = Null]
    <2>1. /\ run \in RefreshRuns /\ run.pc = (IF refresh.failed THEN "failed" ELSE "next")
          /\ run.failed = refresh.failed /\ ~run.directory
          /\ run.roots = refresh.roots /\ run.at = refresh.at /\ run.roots_done = refresh.roots_done
      BY <1>1 DEF RefreshRuns
    <2>2. refresh' = run
      BY <1>3
    <2> HIDE DEF run
    <2>3. CASE refresh.failed
      BY <1>1, <2>1, <2>2, <2>3, StaysAtRoot
    <2>4. CASE ~refresh.failed
      <3>1. RefreshType' /\ ReconciledAsShown' /\ OpenIsShown'
        BY <1>1, <2>1, <2>2 DEF RefreshInv, RefreshType, ReconciledAsShown, OpenIsShown
      <3>2. Reconciled' = Reconciled /\ ConfiguredUpTo(refresh.at)' = ConfiguredUpTo(refresh.at)
        BY <1>1, <2>1, <2>2 DEF Reconciled, ConfiguredUpTo
      <3>3. RefreshProgress'
        BY <1>1, <2>1, <2>2, <3>2 DEF RefreshInv, RefreshProgress, WorkingOnRoot
      <3> QED BY <3>1, <3>3 DEF RefreshInv
    <2> QED BY <2>3, <2>4
  <1> QED BY <1>2, <1>3 DEF CleanupRefresh

\* Whoever replaces the file under its name does not disturb the run.
LEMMA RefreshEnvironmentKeeps ==
  ASSUME RefreshInv, UNCHANGED <<refresh, reconciled>>, saved' \in RefreshPlans \cup {Null}
  PROVE  RefreshInv'
  <1>1. RefreshType'
    BY DEF RefreshInv, RefreshType
  <1>2. ReconciledAsShown'
    BY DEF RefreshInv, ReconciledAsShown
  <1>3. OpenIsShown'
    BY DEF RefreshInv, OpenIsShown
  <1>4. Reconciled' = Reconciled /\ \A n : ConfiguredUpTo(n)' = ConfiguredUpTo(n)
    BY DEF Reconciled, ConfiguredUpTo
  <1>5. RefreshProgress'
    BY <1>4 DEF RefreshInv, RefreshProgress, WorkingOnRoot
  <1> QED BY <1>1, <1>2, <1>3, <1>5 DEF RefreshInv

\* Over any roots, and whatever Terraform saves and others put in its place, a refresh
\* applies to each root at most once the plan it showed, and that plan acts on nothing.
THEOREM RefreshAppliesTheShownPlan == RefreshSpec => []RefreshAppliesWhatWasShown
  <1>1. RefreshInv /\ [RefreshNext]_rfvars => RefreshInv'
    <2> SUFFICES ASSUME RefreshInv, [RefreshNext]_rfvars PROVE RefreshInv'
      OBVIOUS
    <2>1. CASE UNCHANGED rfvars
      BY <2>1, RefreshEnvironmentKeeps DEF rfvars, RefreshInv, RefreshType
    <2>2. ASSUME NEW p \in RefreshPlans, ReplaceSnapshot(p) PROVE RefreshInv'
      BY <2>2, RefreshEnvironmentKeeps DEF ReplaceSnapshot
    <2> QED BY <2>1, <2>2, StartRefreshKeeps, NextRefreshRootKeeps, InitializeRefreshKeeps, RefreshStepsKeep,
               ApplyRefreshPlanKeeps, CleanupRefreshKeeps DEF RefreshNext
  <1>2. RefreshInv => RefreshAppliesWhatWasShown
    <2> SUFFICES ASSUME RefreshInv PROVE RefreshAppliesWhatWasShown
      OBVIOUS
    <2>1. ASSUME RefreshAt("done")
          PROVE  /\ ~refresh.failed /\ ~refresh.directory /\ refresh.roots_done > 0
                 /\ Len(reconciled) = refresh.roots_done
                 /\ Reconciled = {i \in DOMAIN refresh.roots : refresh.roots[i].configured}
      <3>1. refresh.roots \in RefreshRoots \cup {<<>>}
        BY DEF RefreshInv, RefreshType, RefreshRuns
      <3>2. DOMAIN refresh.roots = 1..Len(refresh.roots)
        OBVIOUS
      <3>3. ConfiguredUpTo(refresh.at) = {i \in DOMAIN refresh.roots : refresh.roots[i].configured}
        BY <2>1 DEF RefreshAt, RefreshInv, RefreshProgress, ConfiguredUpTo
      <3> QED BY <2>1, <3>3 DEF RefreshAt, RefreshInv, RefreshProgress
    <2> QED BY <2>1 DEF RefreshInv, ReconciledAsShown, RefreshAppliesWhatWasShown, Reconciled
  <1> QED BY <1>1, <1>2, RefreshInitInv, PTL DEF RefreshSpec

-----------------------------------------------------------------------------
(* The import oracle *)

OracleType ==
    /\ oracle = [pc |-> oracle.pc, requests |-> oracle.requests, acceptedPlan |-> oracle.acceptedPlan,
                 keep |-> oracle.keep, generateFailed |-> oracle.generateFailed, shown |-> oracle.shown,
                 output |-> oracle.output, failed |-> oracle.failed]
    /\ oracle.pc \in {"idle", "create", "init", "generate", "policy", "replan", "show", "judge", "apply",
                      "show state", "cleanup", "done", "failed"}
    /\ {oracle.acceptedPlan, oracle.keep, oracle.generateFailed, oracle.failed} \subseteq BOOLEAN
    /\ oracle.pc \in {"init", "generate", "policy", "replan", "show", "judge", "apply", "show state"}
         => scratch = [config |-> scratch.config, plan |-> scratch.plan, state |-> scratch.state]

\* What a transaction under way was asked for is not refused.
Asked ==
    oracle.pc \notin {"idle", "done", "failed"} =>
        oracle.requests \in OracleRequests /\ ~RefusedRequests(oracle.requests)

\* The plan that is shown was made from the configuration of the directory.
PlanOfConfig ==
    /\ oracle.pc = "policy" /\ ~oracle.generateFailed => scratch.plan = scratch.config
    /\ oracle.pc = "show" => scratch.plan = scratch.config
    /\ oracle.pc \in {"judge", "apply"} => oracle.shown.config = scratch.config

\* Nothing is applied before the plan was judged, and not at all for an accepted plan.
ImportsOnly(plan) == plan.sound /\ plan.changes = {ImportOf(e) : e \in Expected(oracle.requests)}
AppliedOnce ==
    /\ oracle.pc \in {"apply", "show state"} => ~oracle.acceptedPlan
    /\ oracle.pc \in {"apply"} => ImportsOnly(oracle.shown)
    /\ applied # Null =>
          /\ oracle.pc \in {"show state", "cleanup", "done", "failed"}
          /\ ~oracle.acceptedPlan /\ ImportsOnly(applied)
          /\ scratch # Null => applied.config = scratch.config

\* An answer that passes its judgement shows each expected object with its identity.
Tells(objects) == \A e \in Expected(oracle.requests) : objects[AddressOf(e)] = e.id
AnswersTell ==
    /\ oracle.pc = "judge" /\ ExtractAccepted(oracle.shown) => Tells(oracle.shown.planned)
    /\ oracle.pc = "show state" /\ ExactBatchStateObjects(scratch.state) => Tells(scratch.state.objects)

\* The result is what was asked for, and its directory is gone unless it is kept.
OutputIsAsked ==
    /\ DOMAIN oracle.output = {oracle.requests[i].type : i \in DOMAIN oracle.requests}
    /\ \A i \in DOMAIN oracle.requests : oracle.output[oracle.requests[i].type] = oracle.requests[i].ids
Ended ==
    /\ oracle.pc \notin {"cleanup", "failed"} => ~oracle.failed
    /\ oracle.pc \in {"cleanup", "done"} /\ ~oracle.failed => OutputIsAsked
    /\ oracle.pc = "idle" \/ (oracle.pc = "done" /\ ~oracle.keep) => scratch = Null

OracleInv == OracleType /\ Asked /\ PlanOfConfig /\ AppliedOnce /\ AnswersTell /\ Ended

\* An address belongs to one expected object.
LEMMA ExpectedOf ==
  ASSUME NEW requests, NEW e
  PROVE  e \in Expected(requests) <=>
           \E i \in DOMAIN requests : \E k \in DOMAIN requests[i].ids :
              e = [type |-> requests[i].type, name |-> InstanceName[k], key |-> k, id |-> requests[i].ids[k]]
  BY DEF Expected

LEMMA AddressesUnique ==
  ASSUME NEW requests \in OracleRequests, ~RefusedRequests(requests),
         NEW e \in Expected(requests), NEW f \in Expected(requests), AddressOf(e) = AddressOf(f)
  PROVE  e = f
  <1>1. PICK i \in DOMAIN requests : \E k \in DOMAIN requests[i].ids :
           e = [type |-> requests[i].type, name |-> InstanceName[k], key |-> k, id |-> requests[i].ids[k]]
    BY ExpectedOf
  <1>2. PICK k \in DOMAIN requests[i].ids :
           e = [type |-> requests[i].type, name |-> InstanceName[k], key |-> k, id |-> requests[i].ids[k]]
    BY <1>1
  <1>3. PICK j \in DOMAIN requests : \E l \in DOMAIN requests[j].ids :
           f = [type |-> requests[j].type, name |-> InstanceName[l], key |-> l, id |-> requests[j].ids[l]]
    BY ExpectedOf
  <1>4. PICK l \in DOMAIN requests[j].ids :
           f = [type |-> requests[j].type, name |-> InstanceName[l], key |-> l, id |-> requests[j].ids[l]]
    BY <1>3
  <1>5. requests[i].type = requests[j].type /\ InstanceName[k] = InstanceName[l]
    BY <1>2, <1>4 DEF AddressOf
  <1>6. i = j
    BY <1>5 DEF RefusedRequests
  <1>7. k = l
    BY <1>5 DEF RefusedRequests
  <1> QED BY <1>2, <1>4, <1>6, <1>7

LEMMA ExpectedFinite ==
  ASSUME NEW requests \in OracleRequests
  PROVE  IsFiniteSet(Expected(requests))
  <1> DEFINE entry == [p \in (DOMAIN requests) \X OracleKeys |->
                         [type |-> requests[p[1]].type, name |-> InstanceName[p[2]], key |-> p[2],
                          id |-> requests[p[1]].ids[p[2]]]]
             entries == {entry[p] : p \in (DOMAIN requests) \X OracleKeys}
  <1>1. IsFiniteSet(DOMAIN requests) /\ IsFiniteSet(OracleKeys)
        /\ \A i \in DOMAIN requests : DOMAIN requests[i].ids \subseteq OracleKeys
    BY OracleAssumption
  <1>2. IsFiniteSet((DOMAIN requests) \X OracleKeys)
    BY <1>1, FS_Product
  <1>3. entry \in Surjection((DOMAIN requests) \X OracleKeys, entries)
    BY DEF Surjection
  <1>4. IsFiniteSet(entries)
    BY <1>2, <1>3, FS_Surjection
  <1>5. Expected(requests) \subseteq entries
    <2> SUFFICES ASSUME NEW e \in Expected(requests) PROVE e \in entries
      OBVIOUS
    <2>1. PICK i \in DOMAIN requests : \E k \in DOMAIN requests[i].ids :
             e = [type |-> requests[i].type, name |-> InstanceName[k], key |-> k, id |-> requests[i].ids[k]]
      BY ExpectedOf
    <2>2. PICK k \in DOMAIN requests[i].ids :
             e = [type |-> requests[i].type, name |-> InstanceName[k], key |-> k, id |-> requests[i].ids[k]]
      BY <2>1
    <2>3. <<i, k>> \in (DOMAIN requests) \X OracleKeys /\ entry[<<i, k>>] = e
      BY <1>1, <2>2
    <2> HIDE DEF entry
    <2> QED BY <2>3
  <1> HIDE DEF entries
  <1> QED BY <1>4, <1>5, FS_Subset

\* As many changes as imports, each of them an asked import: they are the asked imports.
LEMMA ImportsOfChanges ==
  ASSUME oracle.requests \in OracleRequests, NEW plan, AssertImportOnlyBatchPlan(plan)
  PROVE  ImportsOnly(plan)
  <1> DEFINE expected == Expected(oracle.requests)
             import == [e \in expected |-> ImportOf(e)]
             imports == {ImportOf(e) : e \in expected}
  <1>1. IsFiniteSet(expected)
    BY ExpectedFinite
  <1>2. import \in Surjection(expected, imports)
    BY DEF Surjection
  <1>3. IsFiniteSet(imports) /\ Cardinality(imports) <= Cardinality(expected)
    BY <1>1, <1>2, FS_Surjection
  <1>4. plan.changes \subseteq imports /\ Cardinality(plan.changes) = Cardinality(expected) /\ plan.sound
    BY DEF AssertImportOnlyBatchPlan
  <1>5. Cardinality(plan.changes) <= Cardinality(imports) /\ (Cardinality(imports) = Cardinality(plan.changes) => imports = plan.changes)
    BY <1>3, <1>4, FS_Subset
  <1>6. Cardinality(imports) \in Nat /\ Cardinality(expected) \in Nat
    BY <1>1, <1>3, FS_CardinalityType
  <1>7. plan.changes = imports
    <2> HIDE DEF imports, expected
    <2> QED BY <1>3, <1>4, <1>5, <1>6
  <1> QED BY <1>4, <1>7 DEF ImportsOnly


LEMMA ExactObjectsTell ==
  ASSUME oracle.requests \in OracleRequests, ~RefusedRequests(oracle.requests)
  PROVE  DOMAIN ExactObjects = Addresses /\ Tells(ExactObjects)
  <1>1. \A e \in Expected(oracle.requests) : AddressOf(e) \in Addresses
    BY DEF Addresses
  <1>2. ASSUME NEW e \in Expected(oracle.requests) PROVE ExactObjects[AddressOf(e)] = e.id
    <2> DEFINE of == CHOOSE f \in Expected(oracle.requests) : AddressOf(f) = AddressOf(e)
    <2>1. of \in Expected(oracle.requests) /\ AddressOf(of) = AddressOf(e)
      OBVIOUS
    <2>2. of = e
      OBVIOUS
    <2>3. ExactObjects[AddressOf(e)] = of.id
      BY <1>1 DEF ExactObjects
    <2> QED BY <2>2, <2>3
  <1> QED BY <1>2 DEF ExactObjects, Tells

\* What an answer shows: the exact objects, or one of another identity, or its two
\* observations disagree.
LEMMA AnswerShape ==
  ASSUME NEW plan \in PlansToAnswer
  PROVE  /\ {"sound", "changes", "planned", "prior", "unknown", "config"} \subseteq DOMAIN plan
         /\ \/ plan.planned = ExactObjects
            \/ plan.prior = ExactObjects
            \/ \E c \in ExactPlan.changes, id \in ObjectIds :
                  /\ plan.changes = (ExactPlan.changes \ {c}) \cup {[c EXCEPT !.id = id]}
                  /\ plan.planned = [ExactObjects EXCEPT ![c.address] = id]
  <1> DEFINE exact == ExactPlan
  <1>1. exact = [sound |-> TRUE, changes |-> exact.changes, planned |-> ExactObjects, prior |-> ExactObjects,
                 unknown |-> FALSE, config |-> exact.config]
    BY DEF ExactPlan
  <1>2. CASE plan \in {exact, [exact EXCEPT !.sound = FALSE], [exact EXCEPT !.unknown = TRUE]}
    <2> HIDE DEF exact
    <2> QED BY <1>1, <1>2
  <1>3. ASSUME NEW changes, plan = [exact EXCEPT !.changes = changes]
        PROVE  /\ {"sound", "changes", "planned", "prior", "unknown", "config"} \subseteq DOMAIN plan
               /\ plan.planned = ExactObjects
    <2> HIDE DEF exact
    <2> QED BY <1>1, <1>3
  <1>4. ASSUME NEW c \in exact.changes, NEW id \in ObjectIds, plan = WithIdentity(c, id)
        PROVE  /\ {"sound", "changes", "planned", "prior", "unknown", "config"} \subseteq DOMAIN plan
               /\ plan.changes = (exact.changes \ {c}) \cup {[c EXCEPT !.id = id]}
               /\ plan.planned = [ExactObjects EXCEPT ![c.address] = id]
    <2> DEFINE changes == (exact.changes \ {c}) \cup {[c EXCEPT !.id = id]}
               planned == [exact.planned EXCEPT ![c.address] = id]
               prior == [exact.prior EXCEPT ![c.address] = id]
    <2>1. plan = [exact EXCEPT !.changes = changes, !.planned = planned, !.prior = prior]
      BY <1>4, Zenon DEF WithIdentity
    <2>2. planned = [ExactObjects EXCEPT ![c.address] = id]
      BY <1>1
    <2> HIDE DEF changes, planned, prior, exact
    <2>3. /\ {"sound", "changes", "planned", "prior", "unknown", "config"} \subseteq DOMAIN plan
          /\ plan.changes = changes /\ plan.planned = planned
      BY <1>1, <2>1
    <2> QED BY <2>2, <2>3 DEF changes
  <1>5. CASE \E a \in Addresses : plan = [exact EXCEPT !.planned[a] = Null] \/ plan = [exact EXCEPT !.prior[a] = Null]
    <2>1. PICK objects : plan = [exact EXCEPT !.planned = objects] \/ plan = [exact EXCEPT !.prior = objects]
      BY <1>5, Zenon
    <2> HIDE DEF exact
    <2> QED BY <1>1, <2>1
  <1>6. /\ \A c : \E changes : [exact EXCEPT !.changes = @ \ {c}] = [exact EXCEPT !.changes = changes]
        /\ \A c : \E changes : WithAction(c) = [exact EXCEPT !.changes = changes]
        /\ \A c : \E changes : WithProvider(c) = [exact EXCEPT !.changes = changes]
        /\ \A t, id : \E changes : WithUnasked(t, id) = [exact EXCEPT !.changes = changes]
    BY Zenon DEF WithAction, WithProvider, WithUnasked
  <1>7. \/ plan \in {exact, [exact EXCEPT !.sound = FALSE], [exact EXCEPT !.unknown = TRUE]}
        \/ \E changes : plan = [exact EXCEPT !.changes = changes]
        \/ \E c \in exact.changes, id \in ObjectIds : plan = WithIdentity(c, id)
        \/ \E a \in Addresses : plan = [exact EXCEPT !.planned[a] = Null] \/ plan = [exact EXCEPT !.prior[a] = Null]
    BY <1>6 DEF PlansToAnswer
  <1> QED BY <1>2, <1>3, <1>4, <1>5, <1>7

\* A plan whose own observations are taken shows every object with the identity asked for.
LEMMA AcceptedPlanTells ==
  ASSUME oracle.requests \in OracleRequests, ~RefusedRequests(oracle.requests),
         NEW plan \in PlansToAnswer, NEW shown,
         shown.changes = plan.changes /\ shown.planned = plan.planned /\ shown.prior = plan.prior,
         ExtractAccepted(shown)
  PROVE  Tells(shown.planned)
  <1>1. shown.planned = shown.prior /\ AssertImportOnlyBatchPlan(shown)
    BY DEF ExtractAccepted
  <1>2. CASE plan.planned = ExactObjects \/ plan.prior = ExactObjects
    BY <1>1, <1>2, ExactObjectsTell
  <1>3. ASSUME NEW c \in ExactPlan.changes, NEW id \in ObjectIds,
               plan.changes = (ExactPlan.changes \ {c}) \cup {[c EXCEPT !.id = id]},
               plan.planned = [ExactObjects EXCEPT ![c.address] = id]
        PROVE  Tells(shown.planned)
    <2>1. PICK e \in Expected(oracle.requests) : c = ImportOf(e)
      BY DEF ExactPlan
    <2>2. PICK f \in Expected(oracle.requests) : [c EXCEPT !.id = id] = ImportOf(f)
      BY <1>1, <1>3 DEF AssertImportOnlyBatchPlan
    <2>3. AddressOf(f) = AddressOf(e) /\ f.id = id /\ c.address = AddressOf(e)
      BY <2>1, <2>2 DEF ImportOf
    <2>4. id = e.id
      BY <2>3, AddressesUnique
    <2>5. \A a \in DOMAIN ExactObjects : shown.planned[a] = ExactObjects[a]
      BY <1>3, <2>3, ExactObjectsTell DEF Tells
    <2> QED BY <2>5, ExactObjectsTell DEF Tells, Addresses
  <1> QED BY <1>2, <1>3, AnswerShape

\* A state that is accepted shows every object with the identity of its import.
LEMMA AcceptedStateTells ==
  ASSUME oracle.requests \in OracleRequests, ~RefusedRequests(oracle.requests),
         NEW plan, ImportsOnly(plan), NEW state \in StatesToAnswer(plan), ExactBatchStateObjects(state)
  PROVE  Tells(state.objects)
  <1> DEFINE full == [a \in {c.address : c \in plan.changes} |-> (CHOOSE c \in plan.changes : c.address = a).id]
  <1>1. plan.changes = {ImportOf(e) : e \in Expected(oracle.requests)}
    BY DEF ImportsOnly
  <1>2. DOMAIN full = Addresses
    <2>1. \A e : ImportOf(e).address = AddressOf(e)
      BY DEF ImportOf
    <2>2. {c.address : c \in plan.changes} = Addresses
      BY <1>1, <2>1 DEF Addresses
    <2> QED BY <2>2
  <1>3. ASSUME NEW e \in Expected(oracle.requests) PROVE full[AddressOf(e)] = e.id
    <2> DEFINE of == CHOOSE c \in plan.changes : c.address = AddressOf(e)
    <2>1. ImportOf(e) \in plan.changes /\ ImportOf(e).address = AddressOf(e) /\ ImportOf(e).id = e.id
      BY <1>1 DEF ImportOf
    <2>2. of \in plan.changes /\ of.address = AddressOf(e)
      BY <2>1
    <2>3. PICK f \in Expected(oracle.requests) : of = ImportOf(f)
      BY <1>1
    <2>4. f = e
      BY <2>2, <2>3, AddressesUnique DEF ImportOf
    <2>5. full[AddressOf(e)] = of.id
      BY <2>1
    <2> QED BY <2>1, <2>3, <2>4
  <1>4. DOMAIN state.objects = Addresses
    BY DEF ExactBatchStateObjects
  <1> HIDE DEF full
  <1>5. \A a \in Addresses : state.objects[a] = full[a]
    <2>1. CASE state.objects = full
      BY <2>1
    <2>2. CASE \E x \in DOMAIN full : state.objects = [a \in (DOMAIN full) \ {x} |-> full[a]]
      BY <1>4, <2>2
    <2>3. CASE \E t \in OracleTypes :
                 state.objects = [a \in DOMAIN full \cup {<<t, "unasked">>} |->
                                    IF a \in DOMAIN full THEN full[a] ELSE Null]
      BY <1>2, <2>3
    <2>4. \/ state \in {[objects |-> full, clean |-> TRUE], [objects |-> full, clean |-> FALSE]}
          \/ \E x \in DOMAIN full :
                state = [objects |-> [a \in (DOMAIN full) \ {x} |-> full[a]], clean |-> TRUE]
          \/ \E t \in OracleTypes :
                state = [objects |-> [a \in DOMAIN full \cup {<<t, "unasked">>} |->
                                        IF a \in DOMAIN full THEN full[a] ELSE Null], clean |-> TRUE]
      BY Zenon DEF StatesToAnswer, full
    <2>5. \A objects, clean : state = [objects |-> objects, clean |-> clean] => state.objects = objects
      OBVIOUS
    <2>6. \/ state.objects = full
          \/ \E x \in DOMAIN full : state.objects = [a \in (DOMAIN full) \ {x} |-> full[a]]
          \/ \E t \in OracleTypes :
                state.objects = [a \in DOMAIN full \cup {<<t, "unasked">>} |->
                                   IF a \in DOMAIN full THEN full[a] ELSE Null]
      BY <2>4, <2>5, Zenon
    <2> QED BY <2>2, <2>3, <2>6
  <1> QED BY <1>3, <1>5 DEF Tells, Addresses

\* What is gathered from objects with the asked identities is what was asked.
LEMMA FilledIsAsked ==
  ASSUME oracle.requests \in OracleRequests, ~RefusedRequests(oracle.requests),
         NEW objects, Tells(objects), NEW output, output = FillEmptyBatchResources(objects)
  PROVE  /\ DOMAIN output = {oracle.requests[i].type : i \in DOMAIN oracle.requests}
         /\ \A i \in DOMAIN oracle.requests : output[oracle.requests[i].type] = oracle.requests[i].ids
  <1> DEFINE requests == oracle.requests
  <1>1. DOMAIN output = {requests[i].type : i \in DOMAIN requests}
    BY DEF FillEmptyBatchResources
  <1>2. ASSUME NEW i \in DOMAIN requests PROVE output[requests[i].type] = requests[i].ids
    <2> DEFINE instances == {e \in Expected(requests) : e.type = requests[i].type}
               filled == [k \in {e.key : e \in instances} |-> objects[<<requests[i].type, InstanceName[k]>>]]
               of(k) == [type |-> requests[i].type, name |-> InstanceName[k], key |-> k, id |-> requests[i].ids[k]]
    <2>1. output[requests[i].type] = filled
      BY DEF FillEmptyBatchResources
    <2>2. \A k \in DOMAIN requests[i].ids : of(k) \in instances
      BY ExpectedOf
    <2>3. ASSUME NEW e \in instances PROVE e.key \in DOMAIN requests[i].ids
      <3>1. PICK j \in DOMAIN requests : \E k \in DOMAIN requests[j].ids :
               e = [type |-> requests[j].type, name |-> InstanceName[k], key |-> k, id |-> requests[j].ids[k]]
        BY ExpectedOf
      <3>2. j = i
        BY <3>1 DEF RefusedRequests
      <3> QED BY <3>1, <3>2
    <2>4. {e.key : e \in instances} = DOMAIN requests[i].ids
      <3>1. \A k \in DOMAIN requests[i].ids : of(k).key = k
        OBVIOUS
      <3> HIDE DEF instances, of
      <3> QED BY <2>2, <2>3, <3>1
    <2>5. ASSUME NEW k \in DOMAIN requests[i].ids PROVE filled[k] = requests[i].ids[k]
      <3>1. of(k) \in Expected(requests) /\ AddressOf(of(k)) = <<requests[i].type, InstanceName[k]>>
            /\ of(k).id = requests[i].ids[k]
        BY <2>2 DEF AddressOf
      <3>2. objects[<<requests[i].type, InstanceName[k]>>] = requests[i].ids[k]
        BY <3>1 DEF Tells
      <3>3. k \in {e.key : e \in instances}
        BY <2>4
      <3> HIDE DEF instances
      <3> QED BY <3>2, <3>3
    <2>6. PICK K \in SUBSET OracleKeys : requests[i].ids \in [K -> ObjectIds]
      <3>1. requests[i].ids \in UNION {[K -> ObjectIds] : K \in SUBSET OracleKeys}
        BY OracleAssumption
      <3> HIDE DEF requests
      <3> QED BY <3>1
    <2>7. DOMAIN filled = DOMAIN requests[i].ids
      BY <2>4
    <2> HIDE DEF filled
    <2> QED BY <2>1, <2>5, <2>6, <2>7 DEF filled
  <1> QED BY <1>1, <1>2

LEMMA StartOracleKeeps ==
  ASSUME OracleInv, NEW requests \in OracleRequests, NEW acceptedPlan \in BOOLEAN, NEW keep \in BOOLEAN, StartOracle(requests, acceptedPlan, keep)
  PROVE  OracleInv'
  <1>1. OracleType'
    BY DEF OracleInv, StartOracle, NoOracle, OracleAt, OracleType
  <1>2. Asked'
    BY DEF StartOracle, Asked
  <1>3. PlanOfConfig'
    BY DEF StartOracle, PlanOfConfig
  <1>4. AppliedOnce'
    BY DEF OracleInv, StartOracle, OracleAt, AppliedOnce
  <1>5. AnswersTell'
    BY DEF StartOracle, AnswersTell
  <1>6. Ended'
    <2> DEFINE types == {requests[i].type : i \in DOMAIN requests}
               asked == [NoOracle EXCEPT !.requests = requests, !.acceptedPlan = acceptedPlan, !.keep = keep]
    <2>1. scratch = Null /\ scratch' = scratch /\ ~NoOracle.failed
      BY DEF StartOracle, OracleAt, OracleInv, Ended, NoOracle
    <2>2. asked.requests = requests /\ asked.failed = FALSE
          /\ {"pc", "failed", "output"} \subseteq DOMAIN asked
      BY DEF NoOracle
    <2>3. \/ oracle' = [asked EXCEPT !.pc = "failed", !.failed = TRUE]
          \/ ~RefusedRequests(requests) /\ (\A i \in DOMAIN requests : DOMAIN requests[i].ids = {})
             /\ oracle' = [asked EXCEPT !.pc = "done", !.output = [t \in types |-> <<>>]]
          \/ oracle' = [asked EXCEPT !.pc = "create"]
      BY DEF StartOracle
    <2> HIDE DEF asked, types
    <2>4. CASE oracle' = [asked EXCEPT !.pc = "failed", !.failed = TRUE]
      BY <2>4 DEF Ended
    <2>5. CASE oracle' = [asked EXCEPT !.pc = "create"]
      BY <2>2, <2>5 DEF Ended
    <2>6. CASE ~RefusedRequests(requests) /\ (\A i \in DOMAIN requests : DOMAIN requests[i].ids = {})
               /\ oracle' = [asked EXCEPT !.pc = "done", !.output = [t \in types |-> <<>>]]
      <3>1. oracle'.pc = "done" /\ oracle'.failed = FALSE /\ oracle'.requests = requests
            /\ oracle'.output = [t \in types |-> <<>>]
        BY <2>2, <2>6
      <3>2. ASSUME NEW i \in DOMAIN requests PROVE requests[i].ids = <<>>
        <4>1. PICK K \in SUBSET OracleKeys : requests[i].ids \in [K -> ObjectIds]
          <5>1. requests[i].ids \in UNION {[K -> ObjectIds] : K \in SUBSET OracleKeys}
            BY OracleAssumption
          <5> QED BY <5>1
        <4>2. DOMAIN requests[i].ids = {}
          BY <2>6
        <4>3. requests[i].ids \in [{} -> ObjectIds]
          BY <4>1, <4>2
        <4> QED BY <4>3
      <3>3. OutputIsAsked'
        BY <3>1, <3>2 DEF OutputIsAsked, types
      <3> QED BY <2>1, <3>1, <3>3 DEF Ended
    <2> QED BY <2>3, <2>4, <2>5, <2>6
  <1> QED BY <1>1, <1>2, <1>3, <1>4, <1>5, <1>6 DEF OracleInv

LEMMA CreateScratchKeeps ==
  ASSUME OracleInv, CreateScratch
  PROVE  OracleInv'
  <1>1. OracleType'
    BY DEF OracleInv, CreateScratch, OracleAt, OracleFails, OracleType
  <1>2. Asked'
    BY DEF OracleInv, CreateScratch, OracleAt, OracleFails, Asked, OracleType
  <1>3. PlanOfConfig'
    BY DEF OracleInv, CreateScratch, OracleAt, OracleFails, PlanOfConfig, OracleType
  <1>4. AppliedOnce'
    BY DEF OracleInv, CreateScratch, OracleAt, OracleFails, AppliedOnce, ImportsOnly,
       OracleType
  <1>5. AnswersTell'
    BY DEF OracleInv, CreateScratch, OracleAt, OracleFails, AnswersTell, OracleType,
       Tells
  <1>6. Ended'
    BY DEF OracleInv, CreateScratch, OracleAt, OracleFails, Ended, OutputIsAsked,
       OracleType
  <1> QED BY <1>1, <1>2, <1>3, <1>4, <1>5, <1>6 DEF OracleInv

LEMMA InitializeScratchKeeps ==
  ASSUME OracleInv, InitializeScratch
  PROVE  OracleInv'
  <1>1. OracleType'
    BY DEF OracleInv, InitializeScratch, OracleAt, OracleFails, OracleType
  <1>2. Asked'
    BY DEF OracleInv, InitializeScratch, OracleAt, OracleFails, Asked, OracleType
  <1>3. PlanOfConfig'
    BY DEF OracleInv, InitializeScratch, OracleAt, OracleFails, PlanOfConfig, OracleType
  <1>4. AppliedOnce'
    BY DEF OracleInv, InitializeScratch, OracleAt, OracleFails, AppliedOnce,
       ImportsOnly, OracleType
  <1>5. AnswersTell'
    BY DEF OracleInv, InitializeScratch, OracleAt, OracleFails, AnswersTell, OracleType,
       Tells
  <1>6. Ended'
    BY DEF OracleInv, InitializeScratch, OracleAt, OracleFails, Ended, OutputIsAsked,
       OracleType
  <1> QED BY <1>1, <1>2, <1>3, <1>4, <1>5, <1>6 DEF OracleInv

LEMMA GenerateConfigKeeps ==
  ASSUME OracleInv, GenerateConfig
  PROVE  OracleInv'
  <1>1. OracleType'
    BY DEF OracleInv, GenerateConfig, OracleAt, OracleFails, OracleType
  <1>2. Asked'
    BY DEF OracleInv, GenerateConfig, OracleAt, OracleFails, Asked, OracleType
  <1>3. PlanOfConfig'
    BY DEF OracleInv, GenerateConfig, OracleAt, OracleFails, PlanOfConfig, OracleType
  <1>4. AppliedOnce'
    BY DEF OracleInv, GenerateConfig, OracleAt, OracleFails, AppliedOnce, ImportsOnly,
       OracleType
  <1>5. AnswersTell'
    BY DEF OracleInv, GenerateConfig, OracleAt, OracleFails, AnswersTell, OracleType,
       Tells
  <1>6. Ended'
    BY DEF OracleInv, GenerateConfig, OracleAt, OracleFails, Ended, OutputIsAsked,
       OracleType
  <1> QED BY <1>1, <1>2, <1>3, <1>4, <1>5, <1>6 DEF OracleInv

LEMMA CorrectConfigKeeps ==
  ASSUME OracleInv, CorrectConfig
  PROVE  OracleInv'
  <1>1. OracleType'
    BY DEF OracleInv, CorrectConfig, OracleAt, OracleFails, OracleType
  <1>2. Asked'
    BY DEF OracleInv, CorrectConfig, OracleAt, OracleFails, Asked, OracleType
  <1>3. PlanOfConfig'
    BY DEF OracleInv, CorrectConfig, OracleAt, OracleFails, PlanOfConfig, OracleType
  <1>4. AppliedOnce'
    BY DEF OracleInv, CorrectConfig, OracleAt, OracleFails, AppliedOnce, ImportsOnly,
       OracleType
  <1>5. AnswersTell'
    BY DEF OracleInv, CorrectConfig, OracleAt, OracleFails, AnswersTell, OracleType,
       Tells
  <1>6. Ended'
    BY DEF OracleInv, CorrectConfig, OracleAt, OracleFails, Ended, OutputIsAsked,
       OracleType
  <1> QED BY <1>1, <1>2, <1>3, <1>4, <1>5, <1>6 DEF OracleInv

LEMMA PlanImportsKeeps ==
  ASSUME OracleInv, PlanImports
  PROVE  OracleInv'
  <1>1. OracleType'
    BY DEF OracleInv, PlanImports, OracleAt, OracleFails, OracleType
  <1>2. Asked'
    BY DEF OracleInv, PlanImports, OracleAt, OracleFails, Asked, OracleType
  <1>3. PlanOfConfig'
    BY DEF OracleInv, PlanImports, OracleAt, OracleFails, PlanOfConfig, OracleType
  <1>4. AppliedOnce'
    BY DEF OracleInv, PlanImports, OracleAt, OracleFails, AppliedOnce, ImportsOnly,
       OracleType
  <1>5. AnswersTell'
    BY DEF OracleInv, PlanImports, OracleAt, OracleFails, AnswersTell, OracleType, Tells
  <1>6. Ended'
    BY DEF OracleInv, PlanImports, OracleAt, OracleFails, Ended, OutputIsAsked,
       OracleType
  <1> QED BY <1>1, <1>2, <1>3, <1>4, <1>5, <1>6 DEF OracleInv

LEMMA ShowPlanKeeps ==
  ASSUME OracleInv, ShowPlan
  PROVE  OracleInv'
  <1>0. ASSUME OracleFails PROVE PlanOfConfig' /\ AppliedOnce' /\ AnswersTell'
    <2>1. oracle.pc = "show" /\ oracle'.pc = "cleanup" /\ oracle'.requests = oracle.requests
          /\ oracle'.acceptedPlan = oracle.acceptedPlan
          /\ applied' = applied /\ scratch' = scratch
      BY <1>0 DEF ShowPlan, OracleAt, OracleFails
    <2> QED BY <2>1 DEF OracleInv, PlanOfConfig, AppliedOnce, AnswersTell
  <1>7. ASSUME NEW plan \in PlansToAnswer,
               oracle' = [oracle EXCEPT !.pc = "judge", !.shown = [plan EXCEPT !.config = scratch.plan]]
        PROVE  PlanOfConfig' /\ AppliedOnce' /\ AnswersTell'
    <2> DEFINE shown == [plan EXCEPT !.config = scratch.plan]
    <2>1. {"sound", "changes", "planned", "prior", "unknown", "config"} \subseteq DOMAIN plan
      BY AnswerShape
    <2>2. /\ shown.changes = plan.changes /\ shown.planned = plan.planned /\ shown.prior = plan.prior
          /\ shown.config = scratch.plan
      OBVIOUS
    <2>3. oracle.pc = "show" /\ applied' = applied /\ scratch' = scratch
      BY DEF ShowPlan, OracleAt
    <2> HIDE DEF shown
    <2>4. /\ oracle'.pc = "judge" /\ oracle'.requests = oracle.requests /\ oracle'.shown = shown
          /\ oracle'.acceptedPlan = oracle.acceptedPlan
      BY <1>7 DEF OracleInv, OracleType, shown
    <2>5. PlanOfConfig'
      BY <2>2, <2>3, <2>4 DEF OracleInv, PlanOfConfig
    <2>6. applied = Null
      BY <2>3 DEF OracleInv, AppliedOnce
    <2>7. AppliedOnce'
      BY <2>3, <2>4, <2>6 DEF AppliedOnce
    <2>8. ExtractAccepted(shown) => Tells(shown.planned)
      BY <2>2, <2>3, AcceptedPlanTells DEF OracleInv, Asked
    <2>9. ExtractAccepted(oracle.shown)' => ExtractAccepted(shown)
      BY <2>4 DEF ExtractAccepted, AssertImportOnlyBatchPlan, ExactBatchStateObjects, Addresses
    <2>10. AnswersTell'
      BY <2>4, <2>8, <2>9 DEF AnswersTell, Tells
    <2> QED BY <2>5, <2>7, <2>10
  <1>8. PlanOfConfig' /\ AppliedOnce' /\ AnswersTell'
    BY <1>0, <1>7 DEF ShowPlan
  <1>1. OracleType'
    BY DEF OracleInv, ShowPlan, OracleAt, OracleFails, OracleType
  <1>2. Asked'
    BY DEF OracleInv, ShowPlan, OracleAt, OracleFails, Asked, OracleType
  <1>3. PlanOfConfig'
    BY <1>8
  <1>4. AppliedOnce'
    BY <1>8
  <1>5. AnswersTell'
    BY <1>8
  <1>6. Ended'
    BY DEF OracleInv, ShowPlan, OracleAt, OracleFails, Ended, OutputIsAsked, OracleType
  <1> QED BY <1>1, <1>2, <1>3, <1>4, <1>5, <1>6 DEF OracleInv

LEMMA JudgePlanKeeps ==
  ASSUME OracleInv, JudgePlan
  PROVE  OracleInv'
  <1>1. OracleType'
    BY DEF OracleInv, JudgePlan, OracleAt, OracleFails, OracleType
  <1>2. Asked'
    BY DEF OracleInv, JudgePlan, OracleAt, OracleFails, Asked, OracleType
  <1>3. PlanOfConfig'
    BY DEF OracleInv, JudgePlan, OracleAt, OracleFails, PlanOfConfig, OracleType
  <1>4. AppliedOnce'
    <2>1. oracle.pc = "judge" /\ oracle'.requests = oracle.requests /\ oracle'.shown = oracle.shown
          /\ oracle'.acceptedPlan = oracle.acceptedPlan /\ applied' = applied /\ oracle'.pc # "show state"
      BY DEF OracleInv, OracleType, JudgePlan, OracleAt, OracleFails
    <2>2. oracle'.pc = "apply" => ~oracle.acceptedPlan /\ AssertImportOnlyBatchPlan(oracle.shown)
      BY <2>1 DEF JudgePlan, OracleFails, OracleInv, OracleType
    <2>3. oracle'.pc = "apply" => ImportsOnly(oracle.shown)
      BY <2>1, <2>2, ImportsOfChanges DEF OracleInv, Asked
    <2>4. applied = Null
      BY <2>1 DEF OracleInv, AppliedOnce
    <2> QED BY <2>1, <2>2, <2>3, <2>4 DEF AppliedOnce, ImportsOnly
  <1>5. AnswersTell'
    BY DEF OracleInv, JudgePlan, OracleAt, OracleFails, AnswersTell, OracleType, Tells
  <1>6. Ended'
    <2>1. oracle.pc = "judge" /\ ~oracle.failed /\ oracle.requests \in OracleRequests
          /\ ~RefusedRequests(oracle.requests)
      BY DEF OracleInv, JudgePlan, OracleAt, Asked, Ended
    <2>2. CASE OracleFails
      BY <2>2 DEF OracleFails, Ended
    <2>3. CASE oracle' = [oracle EXCEPT !.pc = "apply"]
      BY <2>1, <2>3 DEF Ended
    <2>4. CASE ExtractAccepted(oracle.shown)
               /\ oracle' = [oracle EXCEPT !.pc = "cleanup", !.output = FillEmptyBatchResources(oracle.shown.planned)]
      <3> DEFINE output == FillEmptyBatchResources(oracle.shown.planned)
      <3>1. Tells(oracle.shown.planned)
        BY <2>1, <2>4 DEF OracleInv, AnswersTell
      <3>2. /\ DOMAIN output = {oracle.requests[i].type : i \in DOMAIN oracle.requests}
            /\ \A i \in DOMAIN oracle.requests : output[oracle.requests[i].type] = oracle.requests[i].ids
        BY <2>1, <3>1, FilledIsAsked
      <3> HIDE DEF output
      <3>3. oracle'.output = output /\ oracle'.requests = oracle.requests /\ oracle'.pc = "cleanup"
        BY <2>4 DEF OracleInv, OracleType, output
      <3>4. oracle'.failed = oracle.failed
        BY <2>4 DEF OracleInv, OracleType
      <3> QED BY <3>2, <3>3 DEF Ended, OutputIsAsked
    <2> QED BY <2>2, <2>3, <2>4 DEF JudgePlan
  <1> QED BY <1>1, <1>2, <1>3, <1>4, <1>5, <1>6 DEF OracleInv

LEMMA ApplyScratchPlanKeeps ==
  ASSUME OracleInv, ApplyScratchPlan
  PROVE  OracleInv'
  <1>1. OracleType'
    BY DEF OracleInv, ApplyScratchPlan, OracleAt, OracleFails, OracleType
  <1>2. Asked'
    BY DEF OracleInv, ApplyScratchPlan, OracleAt, OracleFails, Asked, OracleType
  <1>3. PlanOfConfig'
    BY DEF OracleInv, ApplyScratchPlan, OracleAt, OracleFails, PlanOfConfig, OracleType
  <1>4. AppliedOnce'
    <2>1. oracle.pc = "apply" /\ ~oracle.acceptedPlan /\ ImportsOnly(oracle.shown)
          /\ oracle.shown.config = scratch.config
      BY DEF OracleInv, ApplyScratchPlan, OracleAt, AppliedOnce, PlanOfConfig
    <2>2. oracle'.pc \in {"show state", "cleanup"} /\ oracle'.acceptedPlan = oracle.acceptedPlan
          /\ oracle'.requests = oracle.requests
      BY DEF OracleInv, OracleType, ApplyScratchPlan, OracleFails
    <2>3. applied' = oracle.shown /\ scratch'.config = scratch.config
      BY <2>1 DEF OracleInv, OracleType, ApplyScratchPlan
    <2> QED BY <2>1, <2>2, <2>3 DEF AppliedOnce, ImportsOnly
  <1>5. AnswersTell'
    <2>1. oracle.pc = "apply" /\ ImportsOnly(oracle.shown) /\ oracle.requests \in OracleRequests
          /\ ~RefusedRequests(oracle.requests)
      BY DEF OracleInv, ApplyScratchPlan, OracleAt, AppliedOnce, Asked
    <2>2. oracle'.pc # "judge" /\ oracle'.requests = oracle.requests
      BY DEF OracleInv, OracleType, ApplyScratchPlan, OracleFails
    <2>3. CASE OracleFails
      BY <2>2, <2>3 DEF OracleInv, OracleType, OracleFails, AnswersTell
    <2>4. ASSUME NEW state \in StatesToAnswer(oracle.shown), scratch' = [scratch EXCEPT !.state = state]
          PROVE  AnswersTell'
      <3>1. ExactBatchStateObjects(state) => Tells(state.objects)
        BY <2>1, AcceptedStateTells
      <3>2. scratch'.state = state
        BY <2>4
      <3>3. ExactBatchStateObjects(scratch.state)' => ExactBatchStateObjects(state)
        BY <2>2, <3>2 DEF ExactBatchStateObjects, Addresses
      <3> QED BY <2>2, <3>1, <3>2, <3>3 DEF AnswersTell, Tells
    <2> QED BY <2>3, <2>4 DEF ApplyScratchPlan
  <1>6. Ended'
    BY DEF OracleInv, ApplyScratchPlan, OracleAt, OracleFails, Ended, OutputIsAsked,
       OracleType
  <1> QED BY <1>1, <1>2, <1>3, <1>4, <1>5, <1>6 DEF OracleInv

LEMMA ShowStateKeeps ==
  ASSUME OracleInv, ShowState
  PROVE  OracleInv'
  <1>1. OracleType'
    BY DEF OracleInv, ShowState, OracleAt, OracleFails, OracleType
  <1>2. Asked'
    BY DEF OracleInv, ShowState, OracleAt, OracleFails, Asked, OracleType
  <1>3. PlanOfConfig'
    BY DEF OracleInv, ShowState, OracleAt, OracleFails, PlanOfConfig, OracleType
  <1>4. AppliedOnce'
    BY DEF OracleInv, ShowState, OracleAt, OracleFails, AppliedOnce, ImportsOnly,
       OracleType
  <1>5. AnswersTell'
    BY DEF OracleInv, ShowState, OracleAt, OracleFails, AnswersTell, OracleType, Tells
  <1>6. Ended'
    <2>1. oracle.pc = "show state" /\ ~oracle.failed /\ oracle.requests \in OracleRequests
          /\ ~RefusedRequests(oracle.requests)
      BY DEF OracleInv, ShowState, OracleAt, Asked, Ended
    <2>2. CASE OracleFails
      BY <2>1, <2>2 DEF OracleInv, OracleType, OracleFails, Ended
    <2>3. CASE ExactBatchStateObjects(scratch.state)
               /\ oracle' = [oracle EXCEPT !.pc = "cleanup", !.output = FillEmptyBatchResources(scratch.state.objects)]
      <3> DEFINE output == FillEmptyBatchResources(scratch.state.objects)
      <3>1. Tells(scratch.state.objects)
        BY <2>1, <2>3 DEF OracleInv, AnswersTell
      <3>2. /\ DOMAIN output = {oracle.requests[i].type : i \in DOMAIN oracle.requests}
            /\ \A i \in DOMAIN oracle.requests : output[oracle.requests[i].type] = oracle.requests[i].ids
        BY <2>1, <3>1, FilledIsAsked
      <3> HIDE DEF output
      <3>3. oracle'.output = output /\ oracle'.requests = oracle.requests /\ oracle'.pc = "cleanup"
        BY <2>3 DEF OracleInv, OracleType, output
      <3>4. oracle'.failed = oracle.failed
        BY <2>3 DEF OracleInv, OracleType
      <3> QED BY <2>1, <3>2, <3>3, <3>4 DEF Ended, OutputIsAsked
    <2> QED BY <2>2, <2>3 DEF ShowState
  <1> QED BY <1>1, <1>2, <1>3, <1>4, <1>5, <1>6 DEF OracleInv

LEMMA CleanupScratchKeeps ==
  ASSUME OracleInv, CleanupScratch
  PROVE  OracleInv'
  <1>1. OracleType'
    BY DEF OracleInv, CleanupScratch, OracleAt, OracleType
  <1>2. Asked'
    BY DEF OracleInv, CleanupScratch, OracleAt, Asked, OracleType
  <1>3. PlanOfConfig'
    BY DEF OracleInv, CleanupScratch, OracleAt, PlanOfConfig, OracleType
  <1>4. AppliedOnce'
    BY DEF OracleInv, CleanupScratch, OracleAt, AppliedOnce, ImportsOnly, OracleType
  <1>5. AnswersTell'
    BY DEF OracleInv, CleanupScratch, OracleAt, AnswersTell, OracleType, Tells
  <1>6. Ended'
    <2>1. oracle.pc = "cleanup" /\ (oracle.failed \/ OutputIsAsked) /\ oracle.failed \in BOOLEAN
      BY DEF OracleInv, OracleType, CleanupScratch, OracleAt, Ended
    <2>2. CASE oracle' = [oracle EXCEPT !.pc = "failed", !.failed = TRUE, !.output = Null]
      BY <2>2 DEF OracleInv, OracleType, Ended
    <2>3. CASE /\ oracle' = [oracle EXCEPT !.pc = IF oracle.failed THEN "failed" ELSE "done"]
               /\ oracle.keep \/ scratch' = Null
      <3>1. /\ oracle'.pc = (IF oracle.failed THEN "failed" ELSE "done") /\ oracle'.failed = oracle.failed
            /\ oracle'.keep = oracle.keep /\ oracle'.output = oracle.output /\ oracle'.requests = oracle.requests
        BY <2>3 DEF OracleInv, OracleType
      <3>2. ~oracle.failed => OutputIsAsked'
        BY <2>1, <3>1 DEF OutputIsAsked
      <3> QED BY <2>3, <3>2 DEF Ended
    <2> QED BY <2>2, <2>3 DEF CleanupScratch
  <1> QED BY <1>1, <1>2, <1>3, <1>4, <1>5, <1>6 DEF OracleInv
LEMMA OracleStutterKeeps ==
  ASSUME OracleInv, UNCHANGED orvars
  PROVE  OracleInv'
  <1>1. oracle' = oracle /\ scratch' = scratch /\ applied' = applied
    BY DEF orvars
  <1> QED BY <1>1 DEF OracleInv, OracleType, Asked, PlanOfConfig, AppliedOnce, AnswersTell, Ended,
           ImportsOnly, Tells, OutputIsAsked, ExtractAccepted, AssertImportOnlyBatchPlan,
           ExactBatchStateObjects, Addresses

LEMMA OracleInitInv ==
  OracleInit => OracleInv
  BY DEF OracleInit, NoOracle, OracleInv, OracleType, Asked, PlanOfConfig, AppliedOnce, AnswersTell, Ended

\* The oracle returns exactly the objects it was asked for, has Terraform apply nothing but
\* their imports, and leaves no directory of provider state by a success, for any requests
\* and however Terraform's answers deviate (oracle_transaction.go, oracle_validate.go).
THEOREM OracleImportsAreExact == OracleSpec => []ImportsAreExact
  <1>1. OracleInv /\ [OracleNext]_orvars => OracleInv'
    <2> SUFFICES ASSUME OracleInv, [OracleNext]_orvars PROVE OracleInv'
      OBVIOUS
    <2>1. CASE \E requests \in OracleRequests, acceptedPlan, keep \in BOOLEAN :
                  StartOracle(requests, acceptedPlan, keep)
      BY <2>1, StartOracleKeeps
    <2>2. CASE UNCHANGED orvars
      BY <2>2, OracleStutterKeeps
    <2> QED BY <2>1, <2>2, CreateScratchKeeps, InitializeScratchKeeps, GenerateConfigKeeps,
            CorrectConfigKeeps, PlanImportsKeeps, ShowPlanKeeps, JudgePlanKeeps,
            ApplyScratchPlanKeeps, ShowStateKeeps, CleanupScratchKeeps DEF OracleNext
  <1>2. OracleInv => ImportsAreExact
    <2> SUFFICES ASSUME OracleInv PROVE ImportsAreExact
      OBVIOUS
    <2>1. ResultIsWhatWasAsked
      BY DEF OracleInv, Ended, OutputIsAsked, ResultIsWhatWasAsked
    <2>2. OnlyImportsAreApplied
      BY DEF OracleInv, AppliedOnce, ImportsOnly, OnlyImportsAreApplied
    <2>3. NoScratchLeftBySuccess
      BY DEF OracleInv, Ended, NoScratchLeftBySuccess
    <2> QED BY <2>1, <2>2, <2>3 DEF ImportsAreExact
  <1> QED BY <1>1, <1>2, OracleInitInv, PTL DEF OracleSpec

-----------------------------------------------------------------------------
(* Import staging *)

IdlePCs == {"idle", "done", "unstaged", "failed", "killed"}
FilePCs == {"init", "list", "filter", "remove", "open", "create", "copy", "rename", "abort"}

StagingRuns ==
    [pc : IdlePCs \cup FilePCs \cup {"artifact", "unstage"}, aware : BOOLEAN, backend : BOOLEAN,
     i : Nat, sources : Nat, staged : Nat, removed : Nat, text : Contents,
     listed : [Types -> (SUBSET Keys) \cup {Null}]]

StagingType ==
    /\ generated \in [Files -> Contents] /\ stagedFile \in [Files -> Contents]
    /\ leftTemp \subseteq Files
    /\ managed \in [Types -> SUBSET Keys]
    /\ st \in StagingRuns
    /\ stHistory \in [runs : Nat, disturbances : Nat, torn : BOOLEAN]

\* A command is at one artifact; only a state-aware one lists, filters and removes,
\* and only imports; what it makes of them is not empty and names nothing listed.
AtArtifact ==
    /\ st.i >= 1 /\ st.i <= Artifacts + 1
    /\ st.pc \in FilePCs => st.i <= Artifacts
    /\ ~st.aware => \A t \in Types : st.listed[t] = Null
    /\ st.pc = "rename" => st.text # Null
    /\ st.pc \in {"init", "list", "filter", "remove"} => st.aware /\ file.kind = "imports"
    /\ st.pc \in {"filter", "remove"} => st.listed[file.type] # Null
    /\ st.pc = "open" /\ st.aware => file.kind = "moves"
    /\ st.pc \in {"create", "copy", "rename"} /\ st.aware /\ file.kind = "imports" =>
          /\ st.text \notin {Null, TornFile} /\ st.listed[file.type] # Null
          /\ st.text \cap st.listed[file.type] = {}

\* Nothing is torn before a generator was.
WholeUntilTorn ==
    ~stHistory.torn =>
        /\ \A f \in Files : generated[f] # TornFile /\ stagedFile[f] # TornFile
        /\ st.text # TornFile

\* The temporary names of a first run.
TemporariesKnown ==
    /\ stHistory.runs = 0 => st.pc = "idle" /\ leftTemp = {}
    /\ stHistory.runs = 1 /\ st.pc \notin {"failed", "killed"} =>
          leftTemp \subseteq IF st.pc \in {"copy", "rename", "abort"} THEN {file} ELSE {}

\* What is staged of a listed type names nothing listed, but for the one at hand.
ImportsOf(t) == stagedFile[[type |-> t, kind |-> "imports"]]
AtHand(t) ==
    /\ st.pc \in {"filter", "remove", "create", "copy", "rename", "abort"}
    /\ file = [type |-> t, kind |-> "imports"]
ListedAreGone ==
    st.pc \notin {"failed", "killed"} =>
        \A t \in Types : st.listed[t] # Null /\ ImportsOf(t) # Null /\ ~AtHand(t) =>
            ImportsOf(t) \cap st.listed[t] = {}

\* Every staged artifact so far had a source and left a file.
Passed(n) == {ArtifactAt(m) : m \in 1..(n - 1)}
Standing(n) == {f \in Passed(n) : stagedFile[f] # Null}
StagedAreCounted ==
    /\ st.pc \in FilePCs \cup {"artifact", "done"} => st.staged <= Cardinality(Standing(st.i))
    /\ st.pc \in {"artifact", "done"} => st.staged <= st.sources
    /\ st.pc \in FilePCs => st.staged + 1 <= st.sources

StagingInv ==
    /\ StagingType /\ AtArtifact /\ WholeUntilTorn /\ TemporariesKnown
    /\ ListedAreGone /\ StagedAreCounted

\* Every artifact is met once.
LEMMA ArtifactsAreFiles ==
  /\ Artifacts \in Nat
  /\ \A n \in 1..Artifacts : ArtifactAt(n) \in Files
  /\ \A m, n \in 1..Artifacts : ArtifactAt(m) = ArtifactAt(n) => m = n
  /\ \A f \in Files : \E n \in 1..Artifacts : ArtifactAt(n) = f
  <1>1. /\ StagedTypes \in Seq(Types) /\ DOMAIN StagedTypes = 1..Len(StagedTypes) /\ Len(StagedTypes) \in Nat
        /\ \A m, n \in 1..Len(StagedTypes) : StagedTypes[m] = StagedTypes[n] => m = n
        /\ \A t \in Types : \E m \in 1..Len(StagedTypes) : StagedTypes[m] = t
    BY StagingAssumption DEF IsInjective, Types, Range
  <1>2. ASSUME NEW n \in 1..Artifacts
        PROVE  /\ (n + 1) \div 2 \in 1..Len(StagedTypes)
               /\ n % 2 \in {0, 1} /\ n + (n % 2) = 2 * ((n + 1) \div 2)
    BY <1>1 DEF Artifacts
  <1>3. ASSUME NEW m \in 1..Len(StagedTypes)
        PROVE  /\ 2 * m \in 1..Artifacts /\ 2 * m - 1 \in 1..Artifacts
               /\ (2 * m + 1) \div 2 = m /\ (2 * m) % 2 = 0
               /\ ((2 * m - 1) + 1) \div 2 = m /\ (2 * m - 1) % 2 = 1
    BY <1>1 DEF Artifacts
  <1>4. \A n \in 1..Artifacts : ArtifactAt(n) \in Files
    BY <1>1, <1>2 DEF ArtifactAt, Files, Kinds
  <1>5. ASSUME NEW m \in 1..Artifacts, NEW n \in 1..Artifacts, ArtifactAt(m) = ArtifactAt(n)
        PROVE  m = n
    <2>1. (m + 1) \div 2 = (n + 1) \div 2 /\ m % 2 = n % 2
      <3>1. ArtifactAt(m).type = ArtifactAt(n).type /\ ArtifactAt(m).kind = ArtifactAt(n).kind
        BY <1>5
      <3>2. StagedTypes[(m + 1) \div 2] = StagedTypes[(n + 1) \div 2] /\ m % 2 = n % 2
        BY <1>2, <3>1 DEF ArtifactAt
      <3> QED BY <1>1, <1>2, <3>2
    <2> QED BY <1>2, <2>1 DEF Artifacts
  <1>6. ASSUME NEW f \in Files
        PROVE  \E n \in 1..Artifacts : ArtifactAt(n) = f
    <2>1. PICK m \in 1..Len(StagedTypes) : StagedTypes[m] = f.type
      BY <1>1 DEF Files
    <2>2. CASE f.kind = "imports"
      <3>1. ArtifactAt(2 * m - 1) = f
        BY <1>3, <2>1, <2>2 DEF ArtifactAt, Files
      <3> QED BY <1>3, <3>1
    <2>3. CASE f.kind = "moves"
      <3>1. ArtifactAt(2 * m) = f
        BY <1>3, <2>1, <2>3 DEF ArtifactAt, Files
      <3> QED BY <1>3, <3>1
    <2> QED BY <2>2, <2>3 DEF Files, Kinds
  <1>7. Artifacts \in Nat
    BY <1>1 DEF Artifacts
  <1> QED BY <1>4, <1>5, <1>6, <1>7

\* The artifacts passed are files, a finite number, and not the one at hand.
LEMMA PassedFiles ==
  /\ IsFiniteSet(Files)
  /\ \A n \in 1..(Artifacts + 1) : Passed(n) \subseteq Files /\ IsFiniteSet(Passed(n))
  /\ \A n \in 1..Artifacts : Passed(n + 1) = Passed(n) \cup {ArtifactAt(n)} /\ ArtifactAt(n) \notin Passed(n)
  <1>1. Files = {ArtifactAt(n) : n \in 1..Artifacts}
    BY ArtifactsAreFiles
  <1>2. IsFiniteSet(1..Artifacts)
    BY ArtifactsAreFiles, FS_Interval
  <1>3. IsFiniteSet(Files)
    <2> DEFINE at == [n \in 1..Artifacts |-> ArtifactAt(n)]
    <2>1. at \in Surjection(1..Artifacts, Files)
      BY <1>1 DEF Surjection
    <2> HIDE DEF at
    <2> QED BY <1>2, <2>1, FS_Surjection
  <1>4. \A n \in 1..(Artifacts + 1) : Passed(n) \subseteq Files
    BY ArtifactsAreFiles DEF Passed
  <1>5. \A n \in 1..(Artifacts + 1) : IsFiniteSet(Passed(n))
    BY <1>3, <1>4, FS_Subset
  <1>6. ASSUME NEW n \in 1..Artifacts
        PROVE  Passed(n + 1) = Passed(n) \cup {ArtifactAt(n)} /\ ArtifactAt(n) \notin Passed(n)
    BY ArtifactsAreFiles DEF Passed
  <1> QED BY <1>3, <1>4, <1>5, <1>6

\* The files standing after one more artifact.
LEMMA OneMoreStanding ==
  ASSUME StagingType, AtArtifact, st.i <= Artifacts, stagedFile' \in [Files -> Contents],
         \A f \in Files : f # file => stagedFile'[f] = stagedFile[f]
  PROVE  /\ Cardinality({f \in Passed(st.i + 1) : stagedFile'[f] # Null}) =
              IF stagedFile'[file] = Null THEN Cardinality(Standing(st.i))
              ELSE Cardinality(Standing(st.i)) + 1
         /\ Cardinality(Standing(st.i)) \in Nat
  <1>1. /\ st.i \in 1..Artifacts /\ Passed(st.i + 1) = Passed(st.i) \cup {file} /\ file \notin Passed(st.i)
        /\ Passed(st.i) \subseteq Files /\ IsFiniteSet(Passed(st.i))
    BY PassedFiles DEF StagingType, StagingRuns, AtArtifact, file
  <1>2. IsFiniteSet(Standing(st.i)) /\ file \notin Standing(st.i)
    BY <1>1, FS_Subset DEF Standing
  <1>3. {f \in Passed(st.i + 1) : stagedFile'[f] # Null} =
          IF stagedFile'[file] = Null THEN Standing(st.i) ELSE Standing(st.i) \cup {file}
    BY <1>1 DEF Standing
  <1>4. /\ Cardinality(Standing(st.i) \cup {file}) = Cardinality(Standing(st.i)) + 1
        /\ Cardinality(Standing(st.i)) \in Nat
    BY <1>2, FS_AddElement, FS_CardinalityType
  <1> QED BY <1>3, <1>4

\* What a file may hold.
LEMMA ContentsKinds ==
  /\ Null \in Contents /\ TornFile \in Contents /\ Null # TornFile
  /\ \A c \in Contents : c \notin {Null, TornFile} => c \in SUBSET Keys /\ c # {}
  /\ \A keys \in SUBSET Keys : keys # Null /\ keys # TornFile /\ (keys # {} => keys \in Contents)
  <1> QED BY StagingAssumption DEF Contents

\* What is at hand.
LEMMA FileAtHand ==
  ASSUME StagingType, AtArtifact, st.i <= Artifacts
  PROVE  /\ st.i \in 1..Artifacts /\ file \in Files /\ file.type \in Types /\ file.kind \in Kinds
         /\ file = [type |-> file.type, kind |-> file.kind]
         /\ generated[file] \in Contents /\ stagedFile[file] \in Contents
         /\ managed[file.type] \in SUBSET Keys
  <1>1. st.i \in 1..Artifacts
    BY ArtifactsAreFiles DEF StagingType, StagingRuns, AtArtifact
  <1>2. file \in Files
    BY <1>1, ArtifactsAreFiles DEF file
  <1>3. file.type \in Types /\ file.kind \in Kinds /\ file = [type |-> file.type, kind |-> file.kind]
    BY <1>2 DEF Files
  <1> QED BY <1>1, <1>2, <1>3 DEF StagingType

\* A step at one artifact that changes no file but a temporary one.
LEMMA StaysAtFile ==
  ASSUME StagingInv, st.i <= Artifacts, st.pc \in FilePCs \cup {"artifact"},
         UNCHANGED <<generated, stagedFile, managed, stHistory>>, leftTemp' \subseteq Files,
         st' \in StagingRuns, st'.pc \in FilePCs \cup {"failed"}, st'.i = st.i,
         st'.aware = st.aware, st'.staged = st.staged,
         st.staged + 1 <= st'.sources \/ st'.pc = "failed",
         \A t \in Types : t # file.type => st'.listed[t] = st.listed[t],
         st'.listed # st.listed => st'.pc \in {"filter", "failed"} /\ file.kind = "imports",
         AtArtifact', ~stHistory.torn => st'.text # TornFile,
         IF st'.pc \in {"copy", "rename", "abort"} THEN leftTemp' \subseteq leftTemp \cup {file}
         ELSE leftTemp' \subseteq leftTemp /\ (st'.pc = "failed" \/ st.pc \notin {"copy", "rename", "abort"}),
         st.pc \in {"filter", "remove", "create", "copy", "rename", "abort"} =>
             st'.pc \in {"filter", "remove", "create", "copy", "rename", "abort", "failed"}
  PROVE  StagingInv'
  <1>1. /\ StagingType /\ AtArtifact /\ WholeUntilTorn /\ TemporariesKnown /\ ListedAreGone
        /\ StagedAreCounted
    BY DEF StagingInv
  <1>2. file' = file /\ file \in Files /\ file = [type |-> file.type, kind |-> file.kind] /\ file.type \in Types
    BY <1>1, FileAtHand DEF file
  <1>3. StagingType'
    BY <1>1 DEF StagingType
  <1>4. WholeUntilTorn'
    BY <1>1 DEF WholeUntilTorn
  <1>5. TemporariesKnown'
    BY <1>1, <1>2 DEF TemporariesKnown, FilePCs
  <1>6. ListedAreGone'
    <2> SUFFICES ASSUME st'.pc # "failed", NEW t \in Types, st'.listed[t] # Null, ImportsOf(t) # Null, ~AtHand(t)'
                 PROVE  ImportsOf(t) \cap st'.listed[t] = {}
      BY DEF ListedAreGone, ImportsOf
    <2>1. ~AtHand(t)
      BY <1>2 DEF AtHand
    <2>2. st'.listed[t] = st.listed[t]
      BY <1>2 DEF AtHand, Kinds
    <2> QED BY <1>1, <2>1, <2>2 DEF ListedAreGone, FilePCs
  <1>7. StagedAreCounted'
    <2>1. Standing(st.i)' = Standing(st.i)
      BY DEF Standing
    <2>2. st.staged <= Cardinality(Standing(st.i))
      BY <1>1 DEF StagedAreCounted
    <2> QED BY <2>1, <2>2 DEF StagedAreCounted, FilePCs
  <1> QED BY <1>3, <1>4, <1>5, <1>6, <1>7 DEF StagingInv

\* A step to the next artifact, which may have published or removed the file at hand.
MoveOn(staged, sources) ==
    st' = [st EXCEPT !.pc = "artifact", !.i = st.i + 1, !.text = Null, !.staged = staged,
             !.sources = sources]
MayMoveOn(staged, sources) ==
    /\ UNCHANGED <<generated, managed, stHistory>> /\ stagedFile' \in [Files -> Contents]
    /\ \A f \in Files : f # file => stagedFile'[f] = stagedFile[f]
    /\ leftTemp' \subseteq Files /\ leftTemp' \subseteq leftTemp
    /\ st.pc \in {"copy", "rename", "abort"} => file \notin leftTemp'
    /\ \/ staged = st.staged
       \/ staged = st.staged + 1 /\ stagedFile'[file] # Null
    /\ staged <= sources
    /\ ~stHistory.torn => stagedFile'[file] # TornFile
    /\ \A t \in Types : AtHand(t) =>
          st.listed[t] = Null \/ stagedFile'[file] = Null \/ stagedFile'[file] \cap st.listed[t] = {}
    /\ \A t \in Types : file = [type |-> t, kind |-> "imports"] =>
          AtHand(t) \/ stagedFile'[file] = stagedFile[file]

LEMMA MovesOn ==
  ASSUME StagingInv, st.i <= Artifacts, st.pc \in FilePCs \cup {"artifact"},
         NEW k \in Nat, NEW s \in Nat, MoveOn(k, s), MayMoveOn(k, s)
  PROVE  StagingInv'
  <1>1. /\ StagingType /\ AtArtifact /\ WholeUntilTorn /\ TemporariesKnown /\ ListedAreGone
        /\ StagedAreCounted
    BY DEF StagingInv
  <1>0. st' = [st EXCEPT !.pc = "artifact", !.i = st.i + 1, !.text = Null, !.staged = k, !.sources = s]
    BY DEF MoveOn
  <1>2. /\ st.i \in 1..Artifacts /\ Artifacts \in Nat
        /\ file \in Files /\ file = [type |-> file.type, kind |-> file.kind] /\ file.type \in Types
    BY <1>1, FileAtHand, ArtifactsAreFiles
  <1>3. /\ st' \in StagingRuns /\ st'.pc = "artifact" /\ st'.i = st.i + 1 /\ st'.text = Null
        /\ st'.staged = k /\ st'.sources = s /\ st'.listed = st.listed /\ st'.aware = st.aware
        /\ st.staged \in Nat
    <2>1. st.staged \in Nat /\ st.i \in Nat /\ st \in StagingRuns
      BY <1>1 DEF StagingType, StagingRuns
    <2>2. st.i + 1 \in Nat
      BY <2>1
    <2> DEFINE i == st.i + 1
    <2>3. st' = [st EXCEPT !.pc = "artifact", !.i = i, !.text = Null, !.staged = k, !.sources = s]
      BY <1>0
    <2>4. i \in Nat
      BY <2>2
    <2> HIDE DEF i
    <2>5. st' \in StagingRuns
      <3>1. Null \in Contents /\ "artifact" \in IdlePCs \cup FilePCs \cup {"artifact", "unstage"}
        BY ContentsKinds
      <3> QED BY <2>1, <2>3, <2>4, <3>1 DEF StagingRuns
    <2>6. /\ st'.pc = "artifact" /\ st'.i = i /\ st'.text = Null
          /\ st'.staged = k /\ st'.sources = s /\ st'.listed = st.listed /\ st'.aware = st.aware
      BY <2>1, <2>3 DEF StagingRuns
    <2> QED BY <2>1, <2>5, <2>6 DEF i
  <1>4. StagingType'
    BY <1>1, <1>3 DEF StagingType, MayMoveOn
  <1>5. AtArtifact'
    BY <1>1, <1>2, <1>3 DEF AtArtifact, FilePCs
  <1>6. WholeUntilTorn'
    BY <1>1, <1>3, ContentsKinds DEF WholeUntilTorn, MayMoveOn
  <1>7. TemporariesKnown'
    BY <1>1, <1>3 DEF TemporariesKnown, FilePCs, MayMoveOn
  <1>8. ListedAreGone'
    <2> SUFFICES ASSUME NEW t \in Types, st.listed[t] # Null, ImportsOf(t)' # Null
                 PROVE  ImportsOf(t)' \cap st.listed[t] = {}
      BY <1>3 DEF ListedAreGone
    <2>0. /\ \A u \in Types : AtHand(u) =>
                st.listed[u] = Null \/ stagedFile'[file] = Null \/ stagedFile'[file] \cap st.listed[u] = {}
          /\ \A u \in Types : file = [type |-> u, kind |-> "imports"] =>
                AtHand(u) \/ stagedFile'[file] = stagedFile[file]
          /\ \A f \in Files : f # file => stagedFile'[f] = stagedFile[f]
      BY DEF MayMoveOn
    <2>1. [type |-> t, kind |-> "imports"] \in Files
      BY DEF Files, Kinds
    <2>2. CASE AtHand(t)
      BY <2>0, <2>2 DEF AtHand, ImportsOf
    <2>3. CASE ~AtHand(t)
      <3>1. ImportsOf(t)' = ImportsOf(t)
        BY <2>0, <2>1, <2>3 DEF ImportsOf
      <3> QED BY <1>1, <2>3, <3>1 DEF ListedAreGone, FilePCs
    <2> QED BY <2>2, <2>3
  <1>9. StagedAreCounted'
    <2>1. /\ Cardinality({f \in Passed(st.i + 1) : stagedFile'[f] # Null}) =
               IF stagedFile'[file] = Null THEN Cardinality(Standing(st.i))
               ELSE Cardinality(Standing(st.i)) + 1
          /\ Cardinality(Standing(st.i)) \in Nat
      BY <1>1, OneMoreStanding DEF MayMoveOn
    <2>2. (Standing(st.i))' = {f \in Passed(st.i + 1) : stagedFile'[f] # Null}
      BY <1>3 DEF Standing
    <2>3. st.staged <= Cardinality(Standing(st.i))
      BY <1>1 DEF StagedAreCounted
    <2>4. st'.staged <= Cardinality({f \in Passed(st.i + 1) : stagedFile'[f] # Null})
      BY <1>3, <2>1, <2>3 DEF MayMoveOn
    <2>5. st'.staged <= st'.sources
      BY <1>3 DEF MayMoveOn
    <2> QED BY <1>3, <2>2, <2>4, <2>5 DEF StagedAreCounted, FilePCs
  <1> QED BY <1>4, <1>5, <1>6, <1>7, <1>8, <1>9 DEF StagingInv

\* What a state-aware command has listed, type by type.
Listings == [Types -> (SUBSET Keys) \cup {Null}]

\* A step to another point of the same artifact.
Goes(pc, text, sources, listed) ==
    st' = [st EXCEPT !.pc = pc, !.text = text, !.sources = sources, !.listed = listed]
MayGo(pc, text, sources, listed) ==
    /\ UNCHANGED <<generated, stagedFile, managed, stHistory>> /\ leftTemp' \subseteq Files
    /\ pc \in FilePCs \cup {"failed"} /\ text \in Contents /\ sources \in Nat /\ listed \in Listings
    /\ st.staged + 1 <= sources \/ pc = "failed"
    /\ \/ listed = st.listed
       \/ pc = "filter" /\ \A t \in Types : t # file.type => listed[t] = st.listed[t]
    /\ pc \in {"init", "list", "filter", "remove"} => st.aware /\ file.kind = "imports"
    /\ pc \in {"filter", "remove"} => listed[file.type] # Null
    /\ pc = "open" /\ st.aware => file.kind = "moves"
    /\ pc = "rename" => text # Null
    /\ pc \in {"create", "copy", "rename"} /\ st.aware /\ file.kind = "imports" =>
          /\ text \notin {Null, TornFile} /\ listed[file.type] # Null
          /\ text \cap listed[file.type] = {}
    /\ ~stHistory.torn => text # TornFile
    /\ IF pc \in {"copy", "rename", "abort"} THEN leftTemp' \subseteq leftTemp \cup {file}
       ELSE leftTemp' \subseteq leftTemp /\ (pc = "failed" \/ st.pc \notin {"copy", "rename", "abort"})
    /\ st.pc \in {"filter", "remove", "create", "copy", "rename", "abort"} =>
          pc \in {"filter", "remove", "create", "copy", "rename", "abort", "failed"}

LEMMA GoesTo ==
  ASSUME StagingInv, st.i <= Artifacts, st.pc \in FilePCs \cup {"artifact"},
         NEW pc, NEW text, NEW s, NEW listed, Goes(pc, text, s, listed), MayGo(pc, text, s, listed)
  PROVE  StagingInv'
  <1>1. StagingType /\ AtArtifact /\ st \in StagingRuns
    BY DEF StagingInv, StagingType
  <1>2. /\ st'.pc = pc /\ st'.text = text /\ st'.sources = s /\ st'.listed = listed
        /\ st'.i = st.i /\ st'.aware = st.aware /\ st'.staged = st.staged
    BY <1>1 DEF StagingRuns, Goes
  <1>3. st' \in StagingRuns
    <2>1. pc \in IdlePCs \cup FilePCs \cup {"artifact", "unstage"}
      BY DEF IdlePCs, MayGo
    <2>2. text \in Contents /\ s \in Nat /\ listed \in Listings
      BY DEF MayGo
    <2> QED BY <1>1, <2>1, <2>2 DEF StagingRuns, Listings, Goes
  <1>4. file' = file
    BY <1>2 DEF file
  <1>5. AtArtifact'
    BY <1>1, <1>2, <1>4 DEF AtArtifact, FilePCs, MayGo
  <1>6. st'.listed # st.listed => st'.pc \in {"filter", "failed"} /\ file.kind = "imports"
    BY <1>2 DEF MayGo
  <1>7. \A t \in Types : t # file.type => st'.listed[t] = st.listed[t]
    BY <1>2 DEF MayGo
  <1> QED BY <1>2, <1>3, <1>5, <1>6, <1>7, StaysAtFile DEF MayGo

\* What a command that does nothing else keeps.
LEMMA SameRun ==
  ASSUME StagingType, AtArtifact
  PROVE  /\ st.text \in Contents /\ st.sources \in Nat /\ st.staged \in Nat /\ st.listed \in Listings
         /\ \A pc : [st EXCEPT !.pc = pc] =
              [st EXCEPT !.pc = pc, !.text = st.text, !.sources = st.sources, !.listed = st.listed]
         /\ \A pc, text : [st EXCEPT !.text = text, !.pc = pc] =
              [st EXCEPT !.pc = pc, !.text = text, !.sources = st.sources, !.listed = st.listed]
         /\ \A pc, s : [st EXCEPT !.sources = s, !.pc = pc] =
              [st EXCEPT !.pc = pc, !.text = st.text, !.sources = s, !.listed = st.listed]
         /\ \A pc, listed : [st EXCEPT !.listed = listed, !.pc = pc] =
              [st EXCEPT !.pc = pc, !.text = st.text, !.sources = st.sources, !.listed = listed]
  <1> QED BY DEF StagingType, StagingRuns, Listings

\* A step that fails at an artifact.
LEMMA FailsAtFile ==
  ASSUME StagingInv, st.i <= Artifacts, st.pc \in FilePCs, StagingFails, leftTemp' \subseteq leftTemp,
         UNCHANGED <<generated, stagedFile, managed, stHistory>>
  PROVE  StagingInv'
  <1>1. StagingType /\ AtArtifact /\ WholeUntilTorn
    BY DEF StagingInv
  <1>2. Goes("failed", st.text, st.sources, st.listed)
    BY <1>1, SameRun DEF StagingFails, Goes
  <1>3. st.text \in Contents /\ st.sources \in Nat /\ st.listed \in Listings /\ leftTemp' \subseteq Files
    BY <1>1, SameRun DEF StagingType
  <1>4. ~stHistory.torn => st.text # TornFile
    BY <1>1 DEF WholeUntilTorn
  <1>5. MayGo("failed", st.text, st.sources, st.listed)
    BY <1>3, <1>4 DEF MayGo
  <1>6. st.pc \in FilePCs \cup {"artifact"}
    OBVIOUS
  <1> QED BY <1>2, <1>5, <1>6, GoesTo

\* What is known in the middle of an artifact.
LEMMA HandlingKnown ==
  ASSUME StagingInv, st.i <= Artifacts, st.pc \in FilePCs
  PROVE  /\ StagingType /\ AtArtifact /\ leftTemp \subseteq Files
         /\ st.text \in Contents /\ st.sources \in Nat /\ st.staged \in Nat /\ st.listed \in Listings
         /\ st.staged + 1 <= st.sources
         /\ ~stHistory.torn => st.text # TornFile /\ generated[file] # TornFile /\ stagedFile[file] # TornFile
  <1>1. StagingType /\ AtArtifact /\ WholeUntilTorn /\ StagedAreCounted
    BY DEF StagingInv
  <1>2. file \in Files
    BY <1>1, FileAtHand
  <1> QED BY <1>1, <1>2, SameRun DEF WholeUntilTorn, StagedAreCounted, StagingType

\* The steps of staging, one by one.
LEMMA ConsiderArtifactKeeps ==
  ASSUME StagingInv, ConsiderArtifact
  PROVE  StagingInv'
  <1>1. /\ st.pc = "artifact" /\ st.i <= Artifacts /\ QuietFiles
        /\ StagingType /\ AtArtifact /\ WholeUntilTorn /\ StagedAreCounted
    BY DEF StagingInv, ConsiderArtifact, StagingAt
  <1>2. /\ file \in Files /\ file = [type |-> file.type, kind |-> file.kind] /\ stagedFile[file] \in Contents
        /\ file.kind \in {"imports", "moves"}
    BY <1>1, FileAtHand DEF Kinds
  <1>3. /\ st.sources \in Nat /\ st.staged \in Nat /\ st.staged <= st.sources /\ st.text \in Contents
        /\ st.listed \in Listings /\ leftTemp \subseteq Files /\ stagedFile \in [Files -> Contents]
        /\ ~stHistory.torn => st.text # TornFile /\ stagedFile[file] # TornFile
    BY <1>1, <1>2, SameRun DEF StagingType, StagedAreCounted, WholeUntilTorn
  <1>4. \A t : ~AtHand(t)
    BY <1>1 DEF AtHand
  <1>5. ASSUME NEW s \in {st.sources, st.sources + 1},
               MoveOn(st.staged, s)
        PROVE  StagingInv'
    <2>1. s \in Nat /\ st.staged + 0 <= s
      BY <1>3
    <2>2. MayMoveOn(st.staged, s)
      BY <1>1, <1>2, <1>3, <1>4, <2>1 DEF MayMoveOn, QuietFiles
    <2> QED BY <1>1, <1>3, <1>5, <2>1, <2>2, MovesOn
  <1>6. CASE generated[file] = Null
    <2>1. MoveOn(st.staged, st.sources)
      BY <1>1, <1>3, <1>6 DEF ConsiderArtifact, NextArtifact, StagingType, StagingRuns, MoveOn
    <2> QED BY <1>5, <2>1
  <1>7. CASE generated[file] # Null /\ root \in WithoutDirectory
    <2>1. MoveOn(st.staged, st.sources + 1)
      BY <1>1, <1>3, <1>7 DEF ConsiderArtifact, NextArtifact, StagingType, StagingRuns, MoveOn
    <2> QED BY <1>5, <2>1
  <1>8. CASE generated[file] # Null /\ root \notin WithoutDirectory
    <2> DEFINE pc == IF st.aware /\ file.kind = "imports" THEN "init" ELSE "open"
               s == st.sources + 1
    <2>0. st' = [st EXCEPT !.sources = s, !.pc = pc]
      BY <1>1, <1>8 DEF ConsiderArtifact
    <2>1. s \in Nat /\ st.staged + 1 <= s
      BY <1>3
    <2>2. /\ pc \in FilePCs /\ pc \in {"init", "open"}
          /\ pc = "init" => st.aware /\ file.kind = "imports"
          /\ pc = "open" /\ st.aware => file.kind = "moves"
      BY <1>2 DEF FilePCs
    <2> HIDE DEF pc, s
    <2>4. Goes(pc, st.text, s, st.listed)
      BY <1>1, <2>0, SameRun DEF Goes
    <2>3. MayGo(pc, st.text, s, st.listed)
      BY <1>1, <1>3, <2>1, <2>2 DEF MayGo, QuietFiles
    <2> QED BY <1>1, <2>3, <2>4, GoesTo
  <1> QED BY <1>6, <1>7, <1>8

LEMMA InitializeStagingKeeps ==
  ASSUME StagingInv, InitializeStaging
  PROVE  StagingInv'
  <1>1. st.pc = "init" /\ st.i <= Artifacts /\ QuietFiles /\ st.pc \in FilePCs
    BY DEF InitializeStaging, StagingAt, FilePCs
  <1>2. CASE st' = [st EXCEPT !.pc = "list"]
    <2>1. Goes("list", st.text, st.sources, st.listed)
      BY <1>1, <1>2, HandlingKnown, SameRun DEF Goes
    <2>2. st.aware /\ file.kind = "imports" /\ "list" \in FilePCs
      BY <1>1, HandlingKnown DEF AtArtifact, FilePCs
    <2>3. MayGo("list", st.text, st.sources, st.listed)
      BY <1>1, <2>2, HandlingKnown DEF MayGo, QuietFiles
    <2> QED BY <1>1, <2>1, <2>3, GoesTo
  <1>3. CASE StagingFails
    BY <1>1, <1>3, FailsAtFile DEF QuietFiles
  <1> QED BY <1>2, <1>3 DEF InitializeStaging

LEMMA ListStateKeeps ==
  ASSUME StagingInv, ListState
  PROVE  StagingInv'
  <1>1. st.pc = "list" /\ st.i <= Artifacts /\ QuietFiles /\ st.pc \in FilePCs
    BY DEF ListState, StagingAt, FilePCs
  <1>2. CASE st' = [st EXCEPT !.listed[file.type] = managed[file.type], !.pc = "filter"]
    <2> DEFINE listed == [st.listed EXCEPT ![file.type] = managed[file.type]]
    <2>1. /\ st.listed \in Listings /\ file.type \in Types /\ managed[file.type] \in SUBSET Keys
          /\ st.aware /\ file.kind = "imports" /\ "filter" \in FilePCs
      BY <1>1, HandlingKnown, FileAtHand DEF AtArtifact, FilePCs
    <2>2. /\ listed \in Listings /\ listed[file.type] # Null
          /\ \A t \in Types : t # file.type => listed[t] = st.listed[t]
      BY <2>1, ContentsKinds DEF Listings
    <2>3. st' = [st EXCEPT !.listed = listed, !.pc = "filter"]
      BY <1>2
    <2> HIDE DEF listed
    <2>4. Goes("filter", st.text, st.sources, listed)
      BY <1>1, <2>3, HandlingKnown, SameRun DEF Goes
    <2>5. MayGo("filter", st.text, st.sources, listed)
      BY <1>1, <2>1, <2>2, HandlingKnown DEF MayGo, QuietFiles
    <2> QED BY <1>1, <2>4, <2>5, GoesTo
  <1>3. CASE StagingFails
    BY <1>1, <1>3, FailsAtFile DEF QuietFiles
  <1> QED BY <1>2, <1>3 DEF ListState

LEMMA FilterImportsKeeps ==
  ASSUME StagingInv, FilterImports
  PROVE  StagingInv'
  <1>1. st.pc = "filter" /\ st.i <= Artifacts /\ QuietFiles /\ st.pc \in FilePCs
    BY DEF FilterImports, StagingAt, FilePCs
  <1>2. CASE generated[file] \in {Null, TornFile}
    BY <1>1, <1>2, FailsAtFile DEF QuietFiles, FilterImports
  <1>3. CASE generated[file] \notin {Null, TornFile}
    <2> DEFINE delta == generated[file] \ st.listed[file.type]
               text == IF delta = {} THEN Null ELSE delta
               pc == IF delta = {} THEN "remove" ELSE "create"
    <2>1. /\ st.aware /\ file.kind = "imports" /\ st.listed[file.type] # Null
          /\ generated[file] \in SUBSET Keys
      BY <1>1, <1>3, HandlingKnown, FileAtHand, ContentsKinds DEF AtArtifact
    <2>2. /\ text \in Contents /\ text # TornFile
          /\ pc \in FilePCs /\ pc \in {"remove", "create"}
          /\ pc = "create" => text \notin {Null, TornFile} /\ text \cap st.listed[file.type] = {}
      BY <2>1, ContentsKinds DEF FilePCs
    <2>3. st' = [st EXCEPT !.text = text, !.pc = pc]
      BY <1>3 DEF FilterImports, FilterGeneratedImports
    <2> HIDE DEF text, pc
    <2>4. Goes(pc, text, st.sources, st.listed)
      BY <1>1, <2>3, HandlingKnown, SameRun DEF Goes
    <2>5. MayGo(pc, text, st.sources, st.listed)
      BY <1>1, <2>1, <2>2, HandlingKnown DEF MayGo, QuietFiles
    <2> QED BY <1>1, <2>4, <2>5, GoesTo
  <1> QED BY <1>2, <1>3

LEMMA RemoveManagedKeeps ==
  ASSUME StagingInv, RemoveManaged
  PROVE  StagingInv'
  <1>1. /\ st.pc = "remove" /\ st.i <= Artifacts /\ st.pc \in FilePCs
        /\ UNCHANGED <<generated, leftTemp, managed, stHistory>>
    BY DEF RemoveManaged, StagingAt, FilePCs
  <1>2. CASE stagedFile' = [stagedFile EXCEPT ![file] = Null] /\ NextArtifact(st)
    <2>1. /\ stagedFile \in [Files -> Contents] /\ file \in Files /\ leftTemp \subseteq Files
          /\ Null \in Contents /\ Null # TornFile
          /\ st.sources \in Nat /\ st.staged \in Nat /\ st.staged + 0 <= st.sources
      BY <1>1, HandlingKnown, FileAtHand, ContentsKinds DEF StagingType
    <2>2. /\ stagedFile' \in [Files -> Contents] /\ stagedFile'[file] = Null
          /\ \A f \in Files : f # file => stagedFile'[f] = stagedFile[f]
      BY <1>2, <2>1
    <2>3. MoveOn(st.staged, st.sources)
      BY <1>1, <1>2, <2>1, HandlingKnown DEF NextArtifact, StagingType, StagingRuns, MoveOn
    <2>4. \A t \in Types : file = [type |-> t, kind |-> "imports"] => AtHand(t)
      BY <1>1 DEF AtHand
    <2>5. MayMoveOn(st.staged, st.sources)
      BY <1>1, <2>1, <2>2, <2>4 DEF MayMoveOn
    <2> QED BY <1>1, <2>1, <2>3, <2>5, MovesOn
  <1>3. CASE StagingFails /\ UNCHANGED stagedFile
    BY <1>1, <1>3, FailsAtFile
  <1> QED BY <1>2, <1>3 DEF RemoveManaged

LEMMA OpenSourceKeeps ==
  ASSUME StagingInv, OpenSource
  PROVE  StagingInv'
  <1>1. st.pc = "open" /\ st.i <= Artifacts /\ QuietFiles /\ st.pc \in FilePCs
    BY DEF OpenSource, StagingAt, FilePCs
  <1>2. CASE generated[file] = Null
    BY <1>1, <1>2, FailsAtFile DEF QuietFiles, OpenSource
  <1>3. CASE generated[file] # Null
    <2>1. Goes("create", st.text, st.sources, st.listed)
      BY <1>1, <1>3, HandlingKnown, SameRun DEF OpenSource, Goes
    <2>2. st.aware => file.kind = "moves"
      BY <1>1, HandlingKnown DEF AtArtifact
    <2>3. MayGo("create", st.text, st.sources, st.listed)
      BY <1>1, <2>2, HandlingKnown DEF MayGo, QuietFiles, FilePCs
    <2> QED BY <1>1, <2>1, <2>3, GoesTo
  <1> QED BY <1>2, <1>3

LEMMA CreateTemporaryKeeps ==
  ASSUME StagingInv, CreateTemporary
  PROVE  StagingInv'
  <1>1. /\ st.pc = "create" /\ st.i <= Artifacts /\ st.pc \in FilePCs
        /\ UNCHANGED <<generated, stagedFile, managed, stHistory>>
    BY DEF CreateTemporary, StagingAt, FilePCs
  <1>2. CASE st' = [st EXCEPT !.pc = "copy"] /\ leftTemp' = leftTemp \cup {file}
    <2>1. Goes("copy", st.text, st.sources, st.listed)
      BY <1>1, <1>2, HandlingKnown, SameRun DEF Goes
    <2>2. st.aware /\ file.kind = "imports" =>
             /\ st.text \notin {Null, TornFile} /\ st.listed[file.type] # Null
             /\ st.text \cap st.listed[file.type] = {}
      BY <1>1, HandlingKnown DEF AtArtifact
    <2>3. leftTemp' \subseteq Files /\ "copy" \in FilePCs
      BY <1>1, <1>2, HandlingKnown, FileAtHand DEF FilePCs
    <2>4. MayGo("copy", st.text, st.sources, st.listed)
      BY <1>1, <1>2, <2>2, <2>3, HandlingKnown DEF MayGo
    <2> QED BY <1>1, <2>1, <2>4, GoesTo
  <1>3. CASE StagingFails /\ UNCHANGED leftTemp
    BY <1>1, <1>3, FailsAtFile
  <1> QED BY <1>2, <1>3 DEF CreateTemporary

LEMMA CopyToTemporaryKeeps ==
  ASSUME StagingInv, CopyToTemporary
  PROVE  StagingInv'
  <1>1. st.pc = "copy" /\ st.i <= Artifacts /\ QuietFiles /\ st.pc \in FilePCs
    BY DEF CopyToTemporary, StagingAt, FilePCs
  <1>2. st.aware /\ file.kind = "imports" =>
             /\ st.text \notin {Null, TornFile} /\ st.listed[file.type] # Null
             /\ st.text \cap st.listed[file.type] = {}
    BY <1>1, HandlingKnown DEF AtArtifact
  <1>3. ASSUME st.text = Null,
               NEW text \in IF generated[file] = Null THEN Contents \ {Null, TornFile} ELSE {generated[file]},
               st' = [st EXCEPT !.text = text, !.pc = "rename"]
        PROVE  StagingInv'
    <2>1. text \in Contents /\ text # Null /\ (~stHistory.torn => text # TornFile)
      BY <1>1, <1>3, HandlingKnown, FileAtHand
    <2>2. Goes("rename", text, st.sources, st.listed)
      BY <1>1, <1>3, HandlingKnown, SameRun DEF Goes
    <2>3. ~(st.aware /\ file.kind = "imports") /\ "rename" \in FilePCs
      BY <1>2, <1>3 DEF FilePCs
    <2>4. MayGo("rename", text, st.sources, st.listed)
      BY <1>1, <2>1, <2>3, HandlingKnown DEF MayGo, QuietFiles
    <2> QED BY <1>1, <2>2, <2>4, GoesTo
  <1>4. ASSUME NEW pc \in {"rename", "abort"}, st.text # Null \/ pc = "abort", st' = [st EXCEPT !.pc = pc]
        PROVE  StagingInv'
    <2>1. Goes(pc, st.text, st.sources, st.listed)
      BY <1>1, <1>4, HandlingKnown, SameRun DEF Goes
    <2>2. pc \in FilePCs
      BY DEF FilePCs
    <2>3. MayGo(pc, st.text, st.sources, st.listed)
      BY <1>1, <1>2, <1>4, <2>2, HandlingKnown DEF MayGo, QuietFiles
    <2> QED BY <1>1, <2>1, <2>3, GoesTo
  <1> QED BY <1>3, <1>4 DEF CopyToTemporary

LEMMA PublishStagingArtifactKeeps ==
  ASSUME StagingInv, PublishStagingArtifact
  PROVE  StagingInv'
  <1>1. /\ st.pc = "rename" /\ st.i <= Artifacts /\ st.pc \in FilePCs
        /\ UNCHANGED <<generated, managed, stHistory>>
    BY DEF PublishStagingArtifact, StagingAt, FilePCs
  <1>2. /\ st.text # Null
        /\ st.aware /\ file.kind = "imports" =>
             /\ st.text \notin {Null, TornFile} /\ st.listed[file.type] # Null
             /\ st.text \cap st.listed[file.type] = {}
        /\ ~st.aware => \A t \in Types : st.listed[t] = Null
    BY <1>1, HandlingKnown DEF AtArtifact
  <1>3. CASE /\ stagedFile' = [stagedFile EXCEPT ![file] = st.text]
             /\ leftTemp' = leftTemp \ {file}
             /\ NextArtifact([st EXCEPT !.staged = @ + 1])
    <2>1. /\ stagedFile \in [Files -> Contents] /\ file \in Files /\ leftTemp \subseteq Files
          /\ st.text \in Contents /\ st.sources \in Nat /\ st.staged + 1 <= st.sources
          /\ ~stHistory.torn => st.text # TornFile
          /\ file.type \in Types
      BY <1>1, HandlingKnown, FileAtHand DEF StagingType
    <2>2. /\ stagedFile' \in [Files -> Contents] /\ stagedFile'[file] = st.text
          /\ \A f \in Files : f # file => stagedFile'[f] = stagedFile[f]
      BY <1>3, <2>1
    <2>3. MoveOn(st.staged + 1, st.sources)
      BY <1>1, <1>3, HandlingKnown DEF NextArtifact, StagingType, StagingRuns, MoveOn
    <2>4. /\ \A t \in Types : file = [type |-> t, kind |-> "imports"] => AtHand(t)
          /\ \A t \in Types : AtHand(t) => t = file.type /\ file.kind = "imports"
      BY <1>1 DEF AtHand
    <2>5. \A t \in Types : AtHand(t) => stagedFile'[file] \cap st.listed[t] = {} \/ st.listed[t] = Null
      BY <1>2, <2>2, <2>4
    <2>6. MayMoveOn(st.staged + 1, st.sources)
      BY <1>1, <1>2, <1>3, <2>1, <2>2, <2>4, <2>5 DEF MayMoveOn
    <2> QED BY <1>1, <2>1, <2>3, <2>6, HandlingKnown, MovesOn
  <1>4. CASE st' = [st EXCEPT !.pc = "abort"] /\ UNCHANGED <<stagedFile, leftTemp>>
    <2>1. Goes("abort", st.text, st.sources, st.listed)
      BY <1>1, <1>4, HandlingKnown, SameRun DEF Goes
    <2>2. "abort" \in FilePCs
      BY DEF FilePCs
    <2>3. MayGo("abort", st.text, st.sources, st.listed)
      BY <1>1, <1>4, <2>2, HandlingKnown DEF MayGo
    <2> QED BY <1>1, <2>1, <2>3, GoesTo
  <1> QED BY <1>3, <1>4 DEF PublishStagingArtifact

LEMMA AbortCopyKeeps ==
  ASSUME StagingInv, AbortCopy
  PROVE  StagingInv'
  <1>1. /\ st.pc = "abort" /\ st.i <= Artifacts /\ st.pc \in FilePCs /\ StagingFails
        /\ leftTemp' \subseteq leftTemp /\ UNCHANGED <<generated, stagedFile, managed, stHistory>>
    BY DEF AbortCopy, StagingAt, FilePCs
  <1> QED BY <1>1, FailsAtFile

\* The record a command starts with.
LEMMA NoStagingIsRun ==
  /\ NoStaging \in StagingRuns /\ NoStaging.pc = "idle" /\ NoStaging.i = 1 /\ NoStaging.staged = 0
  /\ NoStaging.sources = 0 /\ NoStaging.text = Null /\ NoStaging.listed = [t \in Types |-> Null]
  /\ NoStaging.aware = FALSE /\ NoStaging.backend = FALSE
  <1> DEFINE listed == [t \in Types |-> Null]
  <1>1. listed \in [Types -> (SUBSET Keys) \cup {Null}] /\ Null \in Contents
    BY ContentsKinds
  <1>2. NoStaging = [pc |-> "idle", aware |-> FALSE, backend |-> FALSE, i |-> 1, sources |-> 0,
                     staged |-> 0, removed |-> 0, text |-> Null, listed |-> listed]
    BY DEF NoStaging
  <1> HIDE DEF listed
  <1>3. "idle" \in IdlePCs
    BY DEF IdlePCs
  <1>4. NoStaging \in StagingRuns
    BY <1>1, <1>2, <1>3 DEF StagingRuns
  <1>5. /\ NoStaging.pc = "idle" /\ NoStaging.i = 1 /\ NoStaging.staged = 0 /\ NoStaging.sources = 0
        /\ NoStaging.text = Null /\ NoStaging.listed = listed
        /\ NoStaging.aware = FALSE /\ NoStaging.backend = FALSE
    BY <1>2
  <1> QED BY <1>4, <1>5 DEF listed

\* The first step of a command.
LEMMA BeginsStaging ==
  ASSUME StagingInv, st.pc \in IdlePCs, NEW aware \in BOOLEAN, NEW backend \in BOOLEAN,
         NEW pc \in {"done", "artifact", "unstage"},
         st' = [NoStaging EXCEPT !.aware = aware, !.backend = backend, !.pc = pc],
         stHistory' = [stHistory EXCEPT !.runs = @ + 1],
         UNCHANGED <<generated, stagedFile, leftTemp, managed>>
  PROVE  StagingInv'
  <1>1. /\ StagingType /\ WholeUntilTorn /\ TemporariesKnown /\ Artifacts \in Nat
        /\ stHistory \in [runs : Nat, disturbances : Nat, torn : BOOLEAN]
    BY ArtifactsAreFiles DEF StagingInv, StagingType
  <1>2. /\ st' \in StagingRuns /\ st'.pc = pc /\ st'.i = 1 /\ st'.staged = 0 /\ st'.sources = 0
        /\ st'.text = Null /\ st'.listed = [t \in Types |-> Null]
    <2>1. pc \in IdlePCs \cup FilePCs \cup {"artifact", "unstage"}
      BY DEF IdlePCs
    <2> QED BY <2>1, NoStagingIsRun DEF StagingRuns
  <1>3. /\ stHistory' \in [runs : Nat, disturbances : Nat, torn : BOOLEAN]
        /\ stHistory'.runs = stHistory.runs + 1 /\ stHistory'.torn = stHistory.torn
    BY <1>1
  <1>4. StagingType'
    BY <1>1, <1>2, <1>3 DEF StagingType
  <1>5. AtArtifact'
    BY <1>1, <1>2 DEF AtArtifact, FilePCs
  <1>6. WholeUntilTorn'
    BY <1>1, <1>2, <1>3, ContentsKinds DEF WholeUntilTorn
  <1>7. TemporariesKnown'
    BY <1>1, <1>2, <1>3 DEF TemporariesKnown
  <1>8. ListedAreGone'
    BY <1>2 DEF ListedAreGone
  <1>9. StagedAreCounted'
    <2>1. Standing(st.i)' = {}
      BY <1>2 DEF Standing, Passed
    <2>2. Cardinality(Standing(st.i)') = 0
      BY <2>1, FS_EmptySet
    <2> QED BY <1>2, <2>2 DEF StagedAreCounted, FilePCs
  <1> QED BY <1>4, <1>5, <1>6, <1>7, <1>8, <1>9 DEF StagingInv

LEMMA StartStagingKeeps ==
  ASSUME StagingInv, NEW aware \in BOOLEAN, NEW backend \in BOOLEAN, StartStaging(aware, backend)
  PROVE  StagingInv'
  <1> DEFINE pc == IF Types # {} /\ Types \subseteq StagedReferents THEN "done" ELSE "artifact"
  <1>1. /\ st.pc \in IdlePCs /\ stHistory' = [stHistory EXCEPT !.runs = @ + 1]
        /\ st' = [NoStaging EXCEPT !.aware = aware, !.backend = backend, !.pc = pc]
        /\ UNCHANGED <<generated, stagedFile, leftTemp, managed>>
    BY DEF StartStaging, IdlePCs
  <1>2. pc \in {"done", "artifact", "unstage"}
    OBVIOUS
  <1> HIDE DEF pc
  <1> QED BY <1>1, <1>2, BeginsStaging

LEMMA StartUnstagingKeeps ==
  ASSUME StagingInv, StartUnstaging
  PROVE  StagingInv'
  <1>1. /\ st.pc \in IdlePCs /\ stHistory' = [stHistory EXCEPT !.runs = @ + 1]
        /\ st' = [NoStaging EXCEPT !.aware = FALSE, !.backend = FALSE, !.pc = "unstage"]
        /\ UNCHANGED <<generated, stagedFile, leftTemp, managed>>
    <2>1. [NoStaging EXCEPT !.pc = "unstage"] = [NoStaging EXCEPT !.aware = FALSE, !.backend = FALSE, !.pc = "unstage"]
      BY NoStagingIsRun DEF StagingRuns
    <2> QED BY <2>1 DEF StartUnstaging, IdlePCs
  <1> QED BY <1>1, BeginsStaging

\* The last step of a command.
LEMMA EndsCommand ==
  ASSUME StagingInv, NEW pc, st' = [st EXCEPT !.pc = pc], QuietFiles,
         \/ pc = "done" /\ st.pc = "artifact"
         \/ pc = "unstaged" /\ st.pc = "unstage"
         \/ pc \in {"failed", "killed"} /\ st.pc # "idle"
  PROVE  StagingInv'
  <1>1. /\ StagingType /\ AtArtifact /\ WholeUntilTorn /\ TemporariesKnown /\ ListedAreGone
        /\ StagedAreCounted /\ st \in StagingRuns
    BY DEF StagingInv, StagingType
  <1>2. /\ st' \in StagingRuns /\ st'.pc = pc /\ st'.i = st.i /\ st'.staged = st.staged
        /\ st'.sources = st.sources /\ st'.text = st.text /\ st'.listed = st.listed /\ st'.aware = st.aware
    BY <1>1 DEF StagingRuns, IdlePCs
  <1>3. StagingType'
    BY <1>1, <1>2 DEF StagingType, QuietFiles
  <1>4. AtArtifact'
    BY <1>1, <1>2 DEF AtArtifact, FilePCs
  <1>5. WholeUntilTorn'
    BY <1>1, <1>2 DEF WholeUntilTorn, QuietFiles
  <1>6. TemporariesKnown'
    BY <1>1, <1>2 DEF TemporariesKnown, QuietFiles
  <1>7. ListedAreGone'
    <2> SUFFICES ASSUME pc \notin {"failed", "killed"}, NEW t \in Types, st.listed[t] # Null, ImportsOf(t) # Null
                 PROVE  ImportsOf(t) \cap st.listed[t] = {}
      BY <1>2 DEF ListedAreGone, ImportsOf, QuietFiles
    <2>1. st.pc \in {"artifact", "unstage"}
      OBVIOUS
    <2> QED BY <1>1, <2>1 DEF ListedAreGone, AtHand
  <1>8. StagedAreCounted'
    <2>1. Standing(st.i)' = Standing(st.i)
      BY <1>2 DEF Standing, QuietFiles
    <2> QED BY <1>1, <1>2, <2>1 DEF StagedAreCounted, FilePCs
  <1> QED BY <1>3, <1>4, <1>5, <1>6, <1>7, <1>8 DEF StagingInv

\* Unstaging only ever removes, and not what a temporary name stands for.
LEMMA UnstageArtifactKeeps ==
  ASSUME StagingInv, UnstageArtifact
  PROVE  StagingInv'
  <1>1. /\ StagingType /\ AtArtifact /\ WholeUntilTorn /\ TemporariesKnown /\ ListedAreGone /\ st \in StagingRuns
        /\ st.pc = "unstage" /\ st.i <= Artifacts /\ Artifacts \in Nat
    BY ArtifactsAreFiles DEF StagingInv, StagingType, UnstageArtifact, StagingAt
  <1>2. file \in Files /\ Null \in Contents /\ Null # TornFile
    BY <1>1, FileAtHand, ContentsKinds
  <1>3. CASE StagingFails /\ UNCHANGED stagedFile
    BY <1>1, <1>3, EndsCommand DEF StagingFails, UnstageArtifact, QuietFiles
  <1>4. ASSUME stagedFile' \in {stagedFile, [stagedFile EXCEPT ![file] = Null]}, NEW removed \in Nat,
               st' = [st EXCEPT !.i = @ + 1, !.removed = removed]
        PROVE  StagingInv'
    <2>1. /\ st' \in StagingRuns /\ st'.pc = "unstage" /\ st'.i = st.i + 1 /\ st'.text = st.text
          /\ st'.listed = st.listed /\ st'.aware = st.aware
      <3> DEFINE i == st.i + 1
      <3>1. i \in Nat
        BY <1>1 DEF StagingRuns
      <3>2. st' = [st EXCEPT !.i = i, !.removed = removed]
        BY <1>4
      <3> HIDE DEF i
      <3>3. /\ st' \in StagingRuns /\ st'.pc = "unstage" /\ st'.i = i /\ st'.text = st.text
            /\ st'.listed = st.listed /\ st'.aware = st.aware
        BY <1>1, <3>1, <3>2 DEF StagingRuns
      <3> QED BY <3>3 DEF i
    <2>2. /\ stagedFile \in [Files -> Contents] /\ stagedFile' \in [Files -> Contents]
          /\ \A f \in Files : stagedFile'[f] \in {stagedFile[f], Null}
      BY <1>1, <1>2, <1>4 DEF StagingType
    <2>3. UNCHANGED <<generated, leftTemp, managed, stHistory>>
      BY DEF UnstageArtifact
    <2>4. StagingType'
      BY <1>1, <2>1, <2>2, <2>3 DEF StagingType
    <2>5. AtArtifact'
      BY <1>1, <2>1 DEF AtArtifact, FilePCs, StagingRuns
    <2>6. WholeUntilTorn'
      BY <1>1, <1>2, <2>1, <2>2, <2>3 DEF WholeUntilTorn
    <2>7. TemporariesKnown'
      BY <1>1, <2>1, <2>3 DEF TemporariesKnown
    <2>8. ListedAreGone'
      <3> SUFFICES ASSUME NEW t \in Types, st.listed[t] # Null, ImportsOf(t)' # Null
                   PROVE  ImportsOf(t)' \cap st.listed[t] = {}
        BY <2>1 DEF ListedAreGone
      <3>1. [type |-> t, kind |-> "imports"] \in Files
        BY DEF Files, Kinds
      <3>2. ImportsOf(t)' = ImportsOf(t)
        BY <2>2, <3>1 DEF ImportsOf
      <3> QED BY <1>1, <3>2 DEF ListedAreGone, AtHand
    <2>9. StagedAreCounted'
      BY <2>1 DEF StagedAreCounted, FilePCs
    <2> QED BY <2>4, <2>5, <2>6, <2>7, <2>8, <2>9 DEF StagingInv
  <1>5. ASSUME root \notin WithoutDirectory, stagedFile' = [stagedFile EXCEPT ![file] = Null],
               st' = [st EXCEPT !.i = @ + 1, !.removed = @ + (IF stagedFile[file] = Null THEN 0 ELSE 1)]
        PROVE  StagingInv'
    <2> DEFINE removed == st.removed + (IF stagedFile[file] = Null THEN 0 ELSE 1)
    <2>1. removed \in Nat
      BY <1>1 DEF StagingRuns
    <2>2. st' = [st EXCEPT !.i = @ + 1, !.removed = removed]
      BY <1>5
    <2> HIDE DEF removed
    <2> QED BY <1>4, <1>5, <2>1, <2>2
  <1>6. ASSUME st' = [st EXCEPT !.i = @ + 1], UNCHANGED stagedFile
        PROVE  StagingInv'
    <2>1. st.removed \in Nat /\ [st EXCEPT !.i = @ + 1] = [st EXCEPT !.i = @ + 1, !.removed = st.removed]
      BY <1>1 DEF StagingRuns
    <2> QED BY <1>4, <1>6, <2>1
  <1> QED BY <1>3, <1>5, <1>6 DEF UnstageArtifact

\* The steps of the others.
LEMMA RegenerateKeeps ==
  ASSUME StagingInv, NEW f \in Files, Regenerate(f)
  PROVE  StagingInv'
  <1>1. /\ StagingType /\ AtArtifact /\ WholeUntilTorn /\ TemporariesKnown /\ ListedAreGone /\ StagedAreCounted
        /\ UNCHANGED <<stagedFile, leftTemp, managed, st>>
    BY DEF StagingInv, Regenerate
  <1>2. PICK text \in Contents : /\ generated' = [generated EXCEPT ![f] = text]
                                 /\ stHistory' = [stHistory EXCEPT !.disturbances = @ + 1, !.torn = @ \/ text = TornFile]
    BY DEF Regenerate
  <1>3. /\ stHistory' \in [runs : Nat, disturbances : Nat, torn : BOOLEAN] /\ stHistory'.runs = stHistory.runs
        /\ ~stHistory'.torn => ~stHistory.torn /\ text # TornFile
    <2> DEFINE torn == stHistory.torn \/ text = TornFile
               disturbances == stHistory.disturbances + 1
    <2>1. /\ stHistory \in [runs : Nat, disturbances : Nat, torn : BOOLEAN]
          /\ stHistory' = [stHistory EXCEPT !.disturbances = disturbances, !.torn = torn]
      BY <1>1, <1>2 DEF StagingType
    <2>2. torn \in BOOLEAN /\ disturbances \in Nat /\ (~torn => ~stHistory.torn /\ text # TornFile)
      BY <2>1
    <2> HIDE DEF torn, disturbances
    <2>3. /\ stHistory' \in [runs : Nat, disturbances : Nat, torn : BOOLEAN] /\ stHistory'.runs = stHistory.runs
          /\ stHistory'.torn = torn
      BY <2>1, <2>2
    <2> QED BY <2>2, <2>3
  <1>4. StagingType'
    BY <1>1, <1>2, <1>3 DEF StagingType
  <1>5. AtArtifact'
    BY <1>1 DEF AtArtifact, file
  <1>6. WholeUntilTorn'
    BY <1>1, <1>2, <1>3 DEF WholeUntilTorn, StagingType
  <1>7. TemporariesKnown'
    BY <1>1, <1>3 DEF TemporariesKnown, file
  <1>8. ListedAreGone'
    BY <1>1 DEF ListedAreGone, ImportsOf, AtHand, file
  <1>9. StagedAreCounted'
    BY <1>1 DEF StagedAreCounted, Standing
  <1> QED BY <1>4, <1>5, <1>6, <1>7, <1>8, <1>9 DEF StagingInv

LEMMA ApplyImportsKeeps ==
  ASSUME StagingInv, NEW t \in Types, ApplyImports(t)
  PROVE  StagingInv'
  <1>1. /\ StagingType /\ AtArtifact /\ WholeUntilTorn /\ TemporariesKnown /\ ListedAreGone /\ StagedAreCounted
        /\ UNCHANGED <<generated, stagedFile, leftTemp, st>>
    BY DEF StagingInv, ApplyImports
  <1> DEFINE staged == stagedFile[[type |-> t, kind |-> "imports"]]
  <1>2. /\ managed' = [managed EXCEPT ![t] = @ \cup staged]
        /\ stHistory' = [stHistory EXCEPT !.disturbances = @ + 1] /\ staged \notin {Null, TornFile}
    BY DEF ApplyImports
  <1>3. [type |-> t, kind |-> "imports"] \in Files
    BY DEF Files, Kinds
  <1>4. staged \in SUBSET Keys
    BY <1>1, <1>2, <1>3, ContentsKinds DEF StagingType
  <1> HIDE DEF staged
  <1>5. /\ stHistory' \in [runs : Nat, disturbances : Nat, torn : BOOLEAN] /\ stHistory'.runs = stHistory.runs
        /\ stHistory'.torn = stHistory.torn
    BY <1>1, <1>2 DEF StagingType
  <1>6. StagingType'
    BY <1>1, <1>2, <1>4, <1>5 DEF StagingType
  <1>7. AtArtifact'
    BY <1>1 DEF AtArtifact, file
  <1>8. WholeUntilTorn'
    BY <1>1, <1>5 DEF WholeUntilTorn
  <1>9. TemporariesKnown'
    BY <1>1, <1>5 DEF TemporariesKnown, file
  <1>10. ListedAreGone'
    BY <1>1 DEF ListedAreGone, ImportsOf, AtHand, file
  <1>11. StagedAreCounted'
    BY <1>1 DEF StagedAreCounted, Standing
  <1> QED BY <1>6, <1>7, <1>8, <1>9, <1>10, <1>11 DEF StagingInv

LEMMA StagingInitInv == ASSUME StagingInit PROVE StagingInv
  <1>1. /\ st \in StagingRuns /\ st.pc = "idle" /\ st.i = 1 /\ st.staged = 0 /\ st.sources = 0
        /\ st.text = Null /\ st.listed = [t \in Types |-> Null] /\ ~st.aware
    BY NoStagingIsRun DEF StagingInit
  <1>2. StagingType
    BY <1>1, ContentsKinds DEF StagingInit, StagingType
  <1>3. AtArtifact
    BY <1>1, ArtifactsAreFiles DEF AtArtifact, FilePCs
  <1>4. WholeUntilTorn
    BY <1>1, ContentsKinds DEF WholeUntilTorn, StagingInit
  <1>5. TemporariesKnown
    BY <1>1 DEF TemporariesKnown, StagingInit
  <1>6. ListedAreGone
    BY <1>1 DEF ListedAreGone
  <1>7. StagedAreCounted
    BY <1>1 DEF StagedAreCounted, FilePCs
  <1> QED BY <1>2, <1>3, <1>4, <1>5, <1>6, <1>7 DEF StagingInv

LEMMA StagingNextInv == ASSUME StagingInv, [StagingNext]_stvars PROVE StagingInv'
  <1>1. ASSUME NEW aware \in BOOLEAN, NEW backend \in BOOLEAN, StartStaging(aware, backend) PROVE StagingInv'
    BY <1>1, StartStagingKeeps
  <1>2. ASSUME EndStaging \/ EndUnstaging \/ KillStaging PROVE StagingInv'
    <2>1. PICK pc : /\ st' = [st EXCEPT !.pc = pc] /\ QuietFiles
                    /\ \/ pc = "done" /\ st.pc = "artifact"
                       \/ pc = "unstaged" /\ st.pc = "unstage"
                       \/ pc \in {"failed", "killed"} /\ st.pc # "idle"
      BY <1>2 DEF EndStaging, EndUnstaging, KillStaging
    <2> QED BY <2>1, EndsCommand
  <1>3. ASSUME NEW f \in Files, Regenerate(f) PROVE StagingInv'
    BY <1>3, RegenerateKeeps
  <1>4. ASSUME NEW t \in Types, ApplyImports(t) PROVE StagingInv'
    BY <1>4, ApplyImportsKeeps
  <1>5. CASE UNCHANGED stvars
    BY <1>5 DEF stvars, StagingInv, StagingType, AtArtifact, WholeUntilTorn, TemporariesKnown, ListedAreGone,
                StagedAreCounted, AtHand, ImportsOf, Standing, file
  <1> QED BY <1>1, <1>2, <1>3, <1>4, <1>5, ConsiderArtifactKeeps, InitializeStagingKeeps, ListStateKeeps,
             FilterImportsKeeps, RemoveManagedKeeps, OpenSourceKeeps, CreateTemporaryKeeps,
             CopyToTemporaryKeeps, PublishStagingArtifactKeeps, AbortCopyKeeps, StartUnstagingKeeps,
             UnstageArtifactKeeps DEF StagingNext, StageStep

LEMMA StagingInvIsSound == ASSUME StagingInv PROVE StagingIsSound
  <1>1. /\ StagingType /\ AtArtifact /\ WholeUntilTorn /\ TemporariesKnown /\ ListedAreGone /\ StagedAreCounted
    BY DEF StagingInv
  <1>2. CopiesAreWhole
    BY <1>1 DEF CopiesAreWhole, WholeUntilTorn
  <1>3. NothingIsLeftBySuccess
    BY <1>1 DEF NothingIsLeftBySuccess, TemporariesKnown
  <1>4. NothingManagedIsStaged
    BY <1>1 DEF NothingManagedIsStaged, ListedAreGone, ImportsOf, AtHand
  <1>5. CountsAreTrue
    <2> SUFFICES ASSUME st.pc = "done"
                 PROVE  st.staged <= st.sources /\ st.staged <= Cardinality({f \in Files : stagedFile[f] # Null})
      BY DEF CountsAreTrue
    <2> DEFINE standing == {f \in Files : stagedFile[f] # Null}
    <2>1. st.i \in 1..(Artifacts + 1) /\ st.staged \in Nat
      BY <1>1, ArtifactsAreFiles DEF StagingType, StagingRuns, AtArtifact
    <2>2. Standing(st.i) \subseteq standing /\ IsFiniteSet(standing)
      BY <2>1, PassedFiles, FS_Subset DEF Standing
    <2>3. Cardinality(Standing(st.i)) <= Cardinality(standing) /\ Cardinality(standing) \in Nat
          /\ Cardinality(Standing(st.i)) \in Nat
      BY <2>2, FS_Subset, FS_CardinalityType
    <2>4. st.staged <= st.sources /\ st.staged <= Cardinality(Standing(st.i))
      BY <1>1 DEF StagedAreCounted
    <2> HIDE DEF standing
    <2>5. st.staged <= Cardinality(standing)
      BY <2>1, <2>3, <2>4
    <2> QED BY <2>4, <2>5 DEF standing
  <1> QED BY <1>2, <1>3, <1>4, <1>5 DEF StagingIsSound

\* Whatever generators write and applies bring into the state between and during the commands,
\* whichever step fails and whenever one is killed: a copy is torn only if some source was, a
\* first success leaves no temporary name, a finished state-aware run leaves nothing staged that
\* the state it listed manages, and its counts are those of files that stand there
\* (StageImports, import_staging.go).
THEOREM StagingIsAlwaysSound == StagingInit /\ [][StagingNext]_stvars => []StagingIsSound
  <1>1. StagingInit => StagingInv
    BY StagingInitInv
  <1>2. StagingInv /\ [StagingNext]_stvars => StagingInv'
    BY StagingNextInv
  <1>3. StagingInv => StagingIsSound
    BY StagingInvIsSound
  <1> QED BY <1>1, <1>2, <1>3, PTL

(* The lanes: the changes a lane has still to make *)

\* The files a sequence of changes names, each at most once.
Changed(changes) == {changes[i].file : i \in 1..Len(changes)}
OneEach(changes) == \A i, j \in 1..Len(changes) : changes[i].file = changes[j].file => i = j
\* A file that holds now has this content once they are all made.
Leaves(changes, f, now, content) ==
    \/ \E i \in 1..Len(changes) : changes[i].file = f /\ changes[i].content = content
    \/ f \notin Changed(changes) /\ now = content
IsChanges(changes) == changes \in Seq({changes[i] : i \in 1..Len(changes)})

LEMMA SeqOfOwn ==
  ASSUME NEW S, NEW s \in Seq(S)
  PROVE  IsChanges(s)
  <1> DEFINE R == {s[i] : i \in 1..Len(s)}
  <1>1. Len(s) \in Nat /\ s \in [1..Len(s) -> S]
    OBVIOUS
  <1>2. s \in [1..Len(s) -> R]
    BY <1>1
  <1> QED
    BY <1>1, <1>2, SMTT(30) DEF IsChanges

LEMMA OneChange ==
  ASSUME NEW f, NEW c
  PROVE  LET s == <<[file |-> f, content |-> c]>>
         IN  /\ IsChanges(s) /\ Changed(s) = {f} /\ OneEach(s)
             /\ \A now : Leaves(s, f, now, c)
  BY DEF IsChanges, Changed, OneEach, Leaves

LEMMA NoChanges ==
  /\ IsChanges(<<>>) /\ Changed(<<>>) = {} /\ OneEach(<<>>)
  BY DEF IsChanges, Changed, OneEach

LEMMA MoreChanges ==
  ASSUME NEW s, NEW t, IsChanges(s), IsChanges(t)
  PROVE  /\ IsChanges(s \o t) /\ Changed(s \o t) = Changed(s) \cup Changed(t)
         /\ OneEach(s) /\ OneEach(t) /\ Changed(s) \cap Changed(t) = {} => OneEach(s \o t)
         /\ \A f, now, c : f \notin Changed(t) /\ Leaves(s, f, now, c) => Leaves(s \o t, f, now, c)
         /\ \A f, now, c : f \in Changed(t) /\ Leaves(t, f, now, c) => Leaves(s \o t, f, now, c)
         /\ Len(s \o t) = Len(s) + Len(t) /\ Len(s) \in Nat /\ Len(t) \in Nat
         /\ \A i \in 1..Len(s) : (s \o t)[i] = s[i]
         /\ \A i \in 1..Len(t) : (s \o t)[Len(s) + i] = t[i]
  <1> DEFINE S == {s[i] : i \in 1..Len(s)} \cup {t[i] : i \in 1..Len(t)}
             both == s \o t
  <1>1. s \in Seq(S) /\ t \in Seq(S)
    BY DEF IsChanges
  <1>2. /\ both \in Seq(S) /\ Len(both) = Len(s) + Len(t) /\ Len(s) \in Nat /\ Len(t) \in Nat
        /\ \A i \in 1..(Len(s) + Len(t)) : both[i] = IF i <= Len(s) THEN s[i] ELSE t[i - Len(s)]
    BY <1>1, ConcatProperties
  <1> HIDE DEF S, both
  <1>3. IsChanges(both)
    BY <1>2, SeqOfOwn
  <1>4. \A i \in 1..Len(s) : i \in 1..Len(both) /\ both[i] = s[i]
    BY <1>2
  <1>5. \A i \in 1..Len(t) : Len(s) + i \in 1..Len(both) /\ both[Len(s) + i] = t[i]
    <2> TAKE i \in 1..Len(t)
    <2>1. /\ Len(s) + i \in 1..(Len(s) + Len(t)) /\ ~ (Len(s) + i <= Len(s))
          /\ (Len(s) + i) - Len(s) = i
      BY <1>2
    <2> QED
      BY <1>2, <2>1
  <1>6. \A i \in 1..Len(both) : \/ i \in 1..Len(s) /\ both[i] = s[i]
                                \/ \E j \in 1..Len(t) : i = Len(s) + j /\ both[i] = t[j]
    <2> TAKE i \in 1..Len(both)
    <2>1. CASE i <= Len(s)
      BY <1>2, <2>1
    <2>2. CASE ~ (i <= Len(s))
      <3>1. i - Len(s) \in 1..Len(t) /\ i = Len(s) + (i - Len(s)) /\ both[i] = t[i - Len(s)]
        BY <1>2, <2>2
      <3> QED
        BY <3>1
    <2> QED
      BY <2>1, <2>2
  <1>7. Changed(both) = Changed(s) \cup Changed(t)
    <2>1. ASSUME NEW i \in 1..Len(both) PROVE both[i].file \in Changed(s) \cup Changed(t)
      BY <1>6 DEF Changed
    <2>2. ASSUME NEW i \in 1..Len(s) PROVE s[i].file \in Changed(both)
      BY <1>4 DEF Changed
    <2>3. ASSUME NEW i \in 1..Len(t) PROVE t[i].file \in Changed(both)
      BY <1>5 DEF Changed
    <2> QED
      BY <2>1, <2>2, <2>3 DEF Changed
  <1>8. ASSUME OneEach(s), OneEach(t), Changed(s) \cap Changed(t) = {}
        PROVE  OneEach(both)
    <2> SUFFICES ASSUME NEW i \in 1..Len(both), NEW j \in 1..Len(both), both[i].file = both[j].file
                 PROVE  i = j
      BY DEF OneEach
    <2>1. \A a \in 1..Len(s), b \in 1..Len(t) : s[a].file # t[b].file
      BY <1>8 DEF Changed
    <2>2. CASE i \in 1..Len(s) /\ both[i] = s[i]
      <3>1. j \in 1..Len(s) /\ both[j] = s[j]
        BY <1>6, <2>1, <2>2
      <3> QED
        BY <1>8, <2>2, <3>1 DEF OneEach
    <2>3. CASE \E a \in 1..Len(t) : i = Len(s) + a /\ both[i] = t[a]
      <3>1. PICK a \in 1..Len(t) : i = Len(s) + a /\ both[i] = t[a]
        BY <2>3
      <3>2. PICK b \in 1..Len(t) : j = Len(s) + b /\ both[j] = t[b]
        BY <1>6, <2>1, <3>1
      <3>3. a = b
        BY <1>8, <3>1, <3>2 DEF OneEach
      <3> QED
        BY <3>1, <3>2, <3>3
    <2> QED
      BY <1>6, <2>2, <2>3
  <1>9. ASSUME NEW f, NEW now, NEW c, f \notin Changed(t), Leaves(s, f, now, c)
        PROVE  Leaves(both, f, now, c)
    BY <1>4, <1>7, <1>9 DEF Leaves
  <1>10. ASSUME NEW f, NEW now, NEW c, f \in Changed(t), Leaves(t, f, now, c)
         PROVE  Leaves(both, f, now, c)
    BY <1>5, <1>10 DEF Leaves
  <1> QED
    BY <1>2, <1>3, <1>4, <1>5, <1>7, <1>8, <1>9, <1>10 DEF both

\* What is true of the changes stays true when the first of them is made.
LEMMA FirstChange ==
  ASSUME NEW s, IsChanges(s), s # <<>>, OneEach(s)
  PROVE  /\ IsChanges(Tail(s)) /\ OneEach(Tail(s)) /\ Head(s).file \notin Changed(Tail(s))
         /\ Len(Tail(s)) \in Nat /\ Len(s) = Len(Tail(s)) + 1 /\ Head(s) = s[1]
         /\ \A i \in 1..Len(Tail(s)) : Tail(s)[i] = s[i + 1]
         /\ Changed(s) = Changed(Tail(s)) \cup {Head(s).file}
         /\ \A f, now, c : Leaves(s, f, now, c)
               => Leaves(Tail(s), f, IF Head(s).file = f THEN Head(s).content ELSE now, c)
  <1> DEFINE S == {s[i] : i \in 1..Len(s)}
             t == Tail(s)
  <1>1. s \in Seq(S)
    BY DEF IsChanges
  <1>2. /\ t \in Seq(S) /\ Len(t) = Len(s) - 1 /\ \A i \in 1..Len(t) : t[i] = s[i + 1]
    BY <1>1, HeadTailProperties
  <1>3. Len(s) \in Nat \ {0} /\ Head(s) = s[1] /\ Len(t) \in Nat /\ Len(s) = Len(t) + 1
    BY <1>1, <1>2
  <1> HIDE DEF S, t
  <1>4. IsChanges(t)
    BY <1>2, SeqOfOwn
  <1>5. \A i \in 1..Len(s) : i = 1 \/ \E j \in 1..Len(t) : i = j + 1 /\ t[j] = s[i]
    <2> TAKE i \in 1..Len(s)
    <2>1. i = 1 \/ (i - 1 \in 1..Len(t) /\ i = (i - 1) + 1)
      BY <1>3
    <2> QED
      BY <1>2, <2>1
  <1>6. \A j \in 1..Len(t) : j + 1 \in 1..Len(s) /\ t[j] = s[j + 1] /\ j + 1 # 1
    BY <1>2, <1>3
  <1>7. OneEach(t) /\ Head(s).file \notin Changed(t) /\ Changed(s) = Changed(t) \cup {Head(s).file}
    <2>1. OneEach(t)
      <3> SUFFICES ASSUME NEW i \in 1..Len(t), NEW j \in 1..Len(t), t[i].file = t[j].file PROVE i = j
        BY DEF OneEach
      <3> QED
        BY <1>6 DEF OneEach
    <2>2. Head(s).file \notin Changed(t)
      BY <1>3, <1>6 DEF Changed, OneEach
    <2>3. Changed(s) = Changed(t) \cup {Head(s).file}
      <3>1. ASSUME NEW i \in 1..Len(s) PROVE s[i].file \in Changed(t) \cup {Head(s).file}
        BY <1>3, <1>5 DEF Changed
      <3>2. ASSUME NEW j \in 1..Len(t) PROVE t[j].file \in Changed(s)
        BY <1>6 DEF Changed
      <3>3. Head(s).file \in Changed(s)
        BY <1>3 DEF Changed
      <3> QED
        BY <3>1, <3>2, <3>3 DEF Changed
    <2> QED
      BY <2>1, <2>2, <2>3
  <1>8. ASSUME NEW f, NEW now, NEW c, Leaves(s, f, now, c)
        PROVE  Leaves(t, f, IF Head(s).file = f THEN Head(s).content ELSE now, c)
    <2>1. CASE f \notin Changed(s)
      BY <1>7, <1>8, <2>1 DEF Leaves, Changed
    <2>2. CASE f \in Changed(s)
      <3>1. PICK i \in 1..Len(s) : s[i].file = f /\ s[i].content = c
        BY <1>8, <2>2 DEF Leaves
      <3>2. CASE i = 1
        BY <1>3, <1>7, <3>1, <3>2 DEF Leaves
      <3>3. CASE i # 1
        <4>1. PICK j \in 1..Len(t) : t[j] = s[i]
          BY <1>5, <3>3
        <4> QED
          BY <3>1, <4>1 DEF Leaves
      <3> QED
        BY <3>2, <3>3
    <2> QED
      BY <2>1, <2>2
  <1> QED
    BY <1>2, <1>3, <1>4, <1>7, <1>8 DEF t

\* The change of f comes before that of g.
Precedes(changes, f, g) ==
    \A i, j \in 1..Len(changes) : changes[i].file = f /\ changes[j].file = g => i < j

LEMMA OrderedChanges ==
  ASSUME NEW s, NEW t, IsChanges(s), IsChanges(t), NEW f, NEW g
  PROVE  /\ Precedes(s, f, g) /\ f \notin Changed(t) => Precedes(s \o t, f, g)
         /\ Precedes(t, f, g) /\ {f, g} \cap Changed(s) = {} => Precedes(s \o t, f, g)
  <1> DEFINE both == s \o t
  <1>1. /\ Len(both) = Len(s) + Len(t) /\ Len(s) \in Nat /\ Len(t) \in Nat
        /\ \A i \in 1..Len(s) : both[i] = s[i]
        /\ \A i \in 1..Len(t) : both[Len(s) + i] = t[i]
    BY MoreChanges
  <1> HIDE DEF both
  <1>2. \A i \in 1..Len(both) : \/ i \in 1..Len(s) /\ both[i] = s[i]
                                \/ i - Len(s) \in 1..Len(t) /\ both[i] = t[i - Len(s)]
    <2> TAKE i \in 1..Len(both)
    <2>1. CASE i <= Len(s)
      BY <1>1, <2>1
    <2>2. CASE ~ (i <= Len(s))
      <3>1. i - Len(s) \in 1..Len(t) /\ i = Len(s) + (i - Len(s))
        BY <1>1, <2>2
      <3> QED
        BY <1>1, <3>1
    <2> QED
      BY <2>1, <2>2
  <1>3. ASSUME Precedes(s, f, g), f \notin Changed(t) PROVE Precedes(both, f, g)
    <2> SUFFICES ASSUME NEW i \in 1..Len(both), NEW j \in 1..Len(both), both[i].file = f, both[j].file = g
                 PROVE  i < j
      BY DEF Precedes
    <2>1. i \in 1..Len(s) /\ both[i] = s[i]
      BY <1>2, <1>3 DEF Changed
    <2> QED
      BY <1>1, <1>2, <1>3, <2>1 DEF Precedes
  <1>4. ASSUME Precedes(t, f, g), {f, g} \cap Changed(s) = {} PROVE Precedes(both, f, g)
    <2> SUFFICES ASSUME NEW i \in 1..Len(both), NEW j \in 1..Len(both), both[i].file = f, both[j].file = g
                 PROVE  i < j
      BY DEF Precedes
    <2>1. i - Len(s) \in 1..Len(t) /\ both[i] = t[i - Len(s)] /\ j - Len(s) \in 1..Len(t) /\ both[j] = t[j - Len(s)]
      BY <1>2, <1>4 DEF Changed
    <2>2. i - Len(s) < j - Len(s)
      BY <1>4, <2>1 DEF Precedes
    <2> QED
      BY <1>1, <2>2
  <1> QED
    BY <1>3, <1>4 DEF both

\* A part of a publication: its files, each once.
IsPart(s, files) == IsChanges(s) /\ OneEach(s) /\ Changed(s) = files

\* The changes give a file this content, whatever it holds.
Sets(changes, f, content) == \A now : Leaves(changes, f, now, content)

LEMMA JoinedParts ==
  ASSUME NEW s, NEW t, NEW F, NEW G, IsPart(s, F), IsPart(t, G), F \cap G = {}
  PROVE  /\ IsPart(s \o t, F \cup G)
         /\ \A f, c : f \notin G /\ Sets(s, f, c) => Sets(s \o t, f, c)
         /\ \A f, c : f \in G /\ Sets(t, f, c) => Sets(s \o t, f, c)
         /\ \A f, g : Precedes(s, f, g) /\ f \notin G => Precedes(s \o t, f, g)
         /\ \A f, g : Precedes(t, f, g) /\ f \notin F /\ g \notin F => Precedes(s \o t, f, g)
  <1>1. IsChanges(s) /\ IsChanges(t) /\ OneEach(s) /\ OneEach(t) /\ Changed(s) = F /\ Changed(t) = G
    BY DEF IsPart
  <1>2. ASSUME NEW f, NEW g
        PROVE  /\ Precedes(s, f, g) /\ f \notin G => Precedes(s \o t, f, g)
               /\ Precedes(t, f, g) /\ f \notin F /\ g \notin F => Precedes(s \o t, f, g)
    BY <1>1, OrderedChanges
  <1>3. IsPart(s \o t, F \cup G)
    BY <1>1, MoreChanges DEF IsPart
  <1>4. /\ \A f, now, c : f \notin G /\ Leaves(s, f, now, c) => Leaves(s \o t, f, now, c)
        /\ \A f, now, c : f \in G /\ Leaves(t, f, now, c) => Leaves(s \o t, f, now, c)
    BY <1>1, MoreChanges
  <1>5. ASSUME NEW f, NEW c
        PROVE  /\ f \notin G /\ Sets(s, f, c) => Sets(s \o t, f, c)
               /\ f \in G /\ Sets(t, f, c) => Sets(s \o t, f, c)
    BY <1>4 DEF Sets
  <1> QED
    BY <1>2, <1>3, <1>5

LEMMA WriteIsPart ==
  ASSUME NEW f, NEW c
  PROVE  /\ IsPart(WriteTo(f, c), {f}) /\ Sets(WriteTo(f, c), f, Whole(c))
         /\ IsPart(Unlink(f), {f}) /\ Sets(Unlink(f), f, Null)
         /\ \A g, h : g # h => Precedes(WriteTo(f, c), g, h) /\ Precedes(Unlink(f), g, h)
  <1>1. IsPart(WriteTo(f, c), {f}) /\ Sets(WriteTo(f, c), f, Whole(c))
    BY OneChange DEF IsPart, WriteTo, Sets
  <1>2. IsPart(Unlink(f), {f}) /\ Sets(Unlink(f), f, Null)
    BY OneChange DEF IsPart, Unlink, Sets
  <1>3. \A g, h : g # h => Precedes(WriteTo(f, c), g, h) /\ Precedes(Unlink(f), g, h)
    BY DEF Precedes, WriteTo, Unlink
  <1> QED
    BY <1>1, <1>2, <1>3

\* One more file at the end.
LEMMA OneMorePart ==
  ASSUME NEW s, NEW F, IsPart(s, F), NEW t, NEW f, IsPart(t, {f}), f \notin F,
         NEW c, Sets(t, f, c)
  PROVE  /\ IsPart(s \o t, F \cup {f}) /\ Sets(s \o t, f, c)
         /\ \A g, d : g # f /\ Sets(s, g, d) => Sets(s \o t, g, d)
         /\ \A g, h : g # f /\ Precedes(s, g, h) => Precedes(s \o t, g, h)
         /\ \A g : g # f => Precedes(s \o t, g, f)
  <1>1. F \cap {f} = {}
    OBVIOUS
  <1>2. /\ IsPart(s \o t, F \cup {f})
        /\ \A g, d : g \notin {f} /\ Sets(s, g, d) => Sets(s \o t, g, d)
        /\ \A g, d : g \in {f} /\ Sets(t, g, d) => Sets(s \o t, g, d)
        /\ \A g, h : Precedes(s, g, h) /\ g \notin {f} => Precedes(s \o t, g, h)
    BY <1>1, JoinedParts
  <1>3. \A g : Precedes(s, g, f)
    BY DEF IsPart, Precedes, Changed
  <1> QED
    BY <1>2, <1>3

LEMMA LookupPart ==
  ASSUME NEW o, NEW C
  PROVE  LET s == LookupChanges(o, C)
         IN  /\ Precedes(s, "lookup", "oldLookup")
             /\ \/ IsPart(s, {}) /\ "none" \in DOMAIN C.lookup /\ ~ o.removeLookup
                \/ /\ IsPart(s, {"lookup", "oldLookup"})
                   /\ Sets(s, "oldLookup", Null)
                   /\ \/ "none" \notin DOMAIN C.lookup /\ Sets(s, "lookup", Whole(C.lookup))
                      \/ /\ "none" \in DOMAIN C.lookup /\ o.removeLookup
                         /\ Sets(s, "lookup", Null)
  <1> DEFINE s == LookupChanges(o, C)
  <1>1. CASE "none" \notin DOMAIN C.lookup
    <2>1. IsPart(WriteTo("lookup", C.lookup), {"lookup"}) /\ IsPart(Unlink("oldLookup"), {"oldLookup"})
          /\ Sets(WriteTo("lookup", C.lookup), "lookup", Whole(C.lookup))
          /\ Sets(Unlink("oldLookup"), "oldLookup", Null)
      BY WriteIsPart
    <2>2. s = WriteTo("lookup", C.lookup) \o Unlink("oldLookup")
      BY <1>1 DEF LookupChanges
    <2>3. "oldLookup" \notin {"lookup"} /\ {"lookup"} \cup {"oldLookup"} = {"lookup", "oldLookup"}
      OBVIOUS
    <2> DEFINE l == WriteTo("lookup", C.lookup)
    <2> HIDE DEF s
    <2>4. /\ IsPart(l \o Unlink("oldLookup"), {"lookup"} \cup {"oldLookup"})
          /\ Sets(l \o Unlink("oldLookup"), "oldLookup", Null)
          /\ \A g, d : g # "oldLookup" /\ Sets(l, g, d) => Sets(l \o Unlink("oldLookup"), g, d)
          /\ \A g : g # "oldLookup" => Precedes(l \o Unlink("oldLookup"), g, "oldLookup")
      BY <2>1, <2>3, OneMorePart
    <2>5. /\ IsPart(s, {"lookup", "oldLookup"})
          /\ Sets(s, "oldLookup", Null)
          /\ Sets(s, "lookup", Whole(C.lookup))
          /\ Precedes(s, "lookup", "oldLookup")
      BY <2>1, <2>2, <2>3, <2>4
    <2> QED
      BY <1>1, <2>5 DEF s
  <1>2. CASE "none" \in DOMAIN C.lookup /\ o.removeLookup
    <2>1. IsPart(Unlink("lookup"), {"lookup"}) /\ IsPart(Unlink("oldLookup"), {"oldLookup"})
          /\ Sets(Unlink("lookup"), "lookup", Null)
          /\ Sets(Unlink("oldLookup"), "oldLookup", Null)
      BY WriteIsPart
    <2>2. s = Unlink("lookup") \o Unlink("oldLookup")
      BY <1>2 DEF LookupChanges
    <2>3. "oldLookup" \notin {"lookup"} /\ {"lookup"} \cup {"oldLookup"} = {"lookup", "oldLookup"}
      OBVIOUS
    <2> DEFINE l == Unlink("lookup")
    <2> HIDE DEF s
    <2>4. /\ IsPart(l \o Unlink("oldLookup"), {"lookup"} \cup {"oldLookup"})
          /\ Sets(l \o Unlink("oldLookup"), "oldLookup", Null)
          /\ \A g, d : g # "oldLookup" /\ Sets(l, g, d) => Sets(l \o Unlink("oldLookup"), g, d)
          /\ \A g : g # "oldLookup" => Precedes(l \o Unlink("oldLookup"), g, "oldLookup")
      BY <2>1, <2>3, OneMorePart
    <2>5. /\ IsPart(s, {"lookup", "oldLookup"})
          /\ Sets(s, "oldLookup", Null)
          /\ Sets(s, "lookup", Null)
          /\ Precedes(s, "lookup", "oldLookup")
      BY <2>1, <2>2, <2>3, <2>4
    <2> QED
      BY <1>2, <2>5 DEF s
  <1>3. CASE "none" \in DOMAIN C.lookup /\ ~ o.removeLookup
    <2>1. s = <<>>
      BY <1>3 DEF LookupChanges
    <2> QED
      BY <1>3, <2>1, NoChanges DEF IsPart, Precedes
  <1> QED
    BY <1>1, <1>2, <1>3

ConfigNames == {"json", "hcl", "data", "dataHcl"}
LEMMA ConfigNamesDiffer ==
  ASSUME NEW o
  PROVE  /\ ConfigFile(o) \in ConfigNames /\ StaleConfigFile(o) \in ConfigNames /\ ConfigFile(o) # StaleConfigFile(o)
         /\ ~ o.dataLane => {ConfigFile(o), StaleConfigFile(o)} = {"json", "hcl"}
         /\ o.dataLane => {ConfigFile(o), StaleConfigFile(o)} = {"data", "dataHcl"}
  BY DEF ConfigFile, StaleConfigFile, ConfigFileIn, ConfigNames

LEMMA DerivedChanges ==
  ASSUME NEW o, NEW items
  PROVE  LET s == WriteDerivedTransformArtifact(o, items)
         IN  /\ IsPart(s, {StaleConfigFile(o), ConfigFile(o)})
             /\ Sets(s, StaleConfigFile(o), Null)
             /\ Sets(s, ConfigFile(o), Whole(items))
  <1> DEFINE a == Unlink(StaleConfigFile(o))
             b == WriteTo(ConfigFile(o), items)
  <1>1. /\ IsPart(a, {StaleConfigFile(o)}) /\ Sets(a, StaleConfigFile(o), Null)
        /\ IsPart(b, {ConfigFile(o)}) /\ Sets(b, ConfigFile(o), Whole(items))
    BY WriteIsPart
  <1>2. ConfigFile(o) \notin {StaleConfigFile(o)}
    BY ConfigNamesDiffer
  <1> HIDE DEF a, b
  <1>3. /\ IsPart(a \o b, {StaleConfigFile(o)} \cup {ConfigFile(o)})
        /\ Sets(a \o b, ConfigFile(o), Whole(items))
        /\ \A g, d : g # ConfigFile(o) /\ Sets(a, g, d) => Sets(a \o b, g, d)
    BY <1>1, <1>2, OneMorePart
  <1>4. {StaleConfigFile(o)} \cup {ConfigFile(o)} = {StaleConfigFile(o), ConfigFile(o)}
    OBVIOUS
  <1> QED
    BY <1>1, <1>2, <1>3, <1>4 DEF WriteDerivedTransformArtifact, a, b

\* What a publication of a resource leaves in its files, and which file comes before which.
LEMMA ResourceChanges ==
  ASSUME NEW tr, NEW type, NEW o, NEW C, ~ o.dataLane
  PROVE  LET s == PublishCompiledTransformArtifacts(tr, type, o, C)
             begins == tr[type].moves = Null /\ C.moves # {}
         IN  /\ IsChanges(s) /\ OneEach(s)
             /\ Sets(s, ConfigFile(o), Whole(C.config))
             /\ Sets(s, StaleConfigFile(o), Null)
             /\ Sets(s, "imports", Whole(C.imports))
             /\ begins => Sets(s, "moves", Whole(C.moves))
             /\ ~ begins => "moves" \notin Changed(s)
             /\ Precedes(s, "moves", "imports") /\ Precedes(s, "lookup", "oldLookup")
             /\ \A g \in {"lookup", "oldLookup"} : \A d : Sets(LookupChanges(o, C), g, d) => Sets(s, g, d)
             /\ Changed(s) \cap {"lookup", "oldLookup"} = Changed(LookupChanges(o, C))
             /\ Changed(s) \subseteq LaneFiles
  <1> DEFINE begins == tr[type].moves = Null /\ C.moves # {}
             L == LookupChanges(o, C)
             cfg == ConfigFile(o)
             old == StaleConfigFile(o)
             M == IF begins THEN WriteTo("moves", C.moves) ELSE <<>>
             p1 == L \o M
             p2 == p1 \o Unlink(old)
             p3 == p2 \o WriteTo(cfg, C.config)
             p4 == p3 \o Unlink("bindings")
             s == p4 \o WriteTo("imports", C.imports)
             Lk == {"lookup", "oldLookup"}
  <1>1. PICK F : F \in SUBSET Lk /\ IsPart(L, F) /\ Precedes(L, "lookup", "oldLookup")
    <2>1. {} \in SUBSET Lk /\ Lk \in SUBSET Lk
      OBVIOUS
    <2> QED
      BY <2>1, LookupPart
  <1>2. cfg \in {"json", "hcl"} /\ old \in {"json", "hcl"} /\ cfg # old
    BY ConfigNamesDiffer
  <1>3. PICK G : /\ G \in SUBSET {"moves"} /\ IsPart(M, G) /\ (begins <=> G = {"moves"})
                 /\ begins => Sets(M, "moves", Whole(C.moves))
    <2>1. CASE begins
      BY <2>1, WriteIsPart
    <2>2. CASE ~ begins
      BY <2>2, NoChanges DEF IsPart
    <2> QED
      BY <2>1, <2>2
  <1>4. /\ IsPart(Unlink(old), {old}) /\ Sets(Unlink(old), old, Null)
        /\ IsPart(WriteTo(cfg, C.config), {cfg}) /\ Sets(WriteTo(cfg, C.config), cfg, Whole(C.config))
        /\ IsPart(Unlink("bindings"), {"bindings"}) /\ Sets(Unlink("bindings"), "bindings", Null)
        /\ IsPart(WriteTo("imports", C.imports), {"imports"})
        /\ Sets(WriteTo("imports", C.imports), "imports", Whole(C.imports))
    BY WriteIsPart
  <1>5. s = PublishCompiledTransformArtifacts(tr, type, o, C)
    BY DEF PublishCompiledTransformArtifacts
  <1> HIDE DEF L, M, begins, cfg, old
  <1>6. /\ IsPart(p1, F \cup G) /\ Precedes(p1, "lookup", "oldLookup")
        /\ begins => Sets(p1, "moves", Whole(C.moves))
        /\ \A g \in Lk : \A d : Sets(L, g, d) => Sets(p1, g, d)
    <2>1. F \cap G = {} /\ \A g \in Lk : g \notin G
      BY <1>1, <1>3
    <2>2. /\ IsPart(p1, F \cup G)
          /\ \A f, c : f \notin G /\ Sets(L, f, c) => Sets(p1, f, c)
          /\ \A f, c : f \in G /\ Sets(M, f, c) => Sets(p1, f, c)
          /\ \A f, g : Precedes(L, f, g) /\ f \notin G => Precedes(p1, f, g)
      BY <1>1, <1>3, <2>1, JoinedParts
    <2> QED
      BY <1>1, <1>3, <2>1, <2>2
  <1> HIDE DEF p1
  <1>7. /\ IsPart(p2, F \cup G \cup {old}) /\ Sets(p2, old, Null)
        /\ \A g, d : g # old /\ Sets(p1, g, d) => Sets(p2, g, d)
        /\ \A g, h : g # old /\ Precedes(p1, g, h) => Precedes(p2, g, h)
    <2>1. old \notin F \cup G /\ IsPart(p1, F \cup G)
      BY <1>1, <1>2, <1>3, <1>6
    <2>2. IsPart(Unlink(old), {old}) /\ Sets(Unlink(old), old, Null)
      BY <1>4
    <2> QED
      BY <2>1, <2>2, OneMorePart
  <1> HIDE DEF p2
  <1>8. /\ IsPart(p3, F \cup G \cup {old} \cup {cfg}) /\ Sets(p3, cfg, Whole(C.config))
        /\ \A g, d : g # cfg /\ Sets(p2, g, d) => Sets(p3, g, d)
        /\ \A g, h : g # cfg /\ Precedes(p2, g, h) => Precedes(p3, g, h)
    <2>1. cfg \notin F \cup G \cup {old}
      BY <1>1, <1>2, <1>3
    <2> QED
      BY <1>4, <1>7, <2>1, OneMorePart
  <1> HIDE DEF p3
  <1>9. /\ IsPart(p4, F \cup G \cup {old} \cup {cfg} \cup {"bindings"})
        /\ \A g, d : g # "bindings" /\ Sets(p3, g, d) => Sets(p4, g, d)
        /\ \A g, h : g # "bindings" /\ Precedes(p3, g, h) => Precedes(p4, g, h)
    <2>1. "bindings" \notin F \cup G \cup {old} \cup {cfg}
      BY <1>1, <1>2, <1>3
    <2> QED
      BY <1>4, <1>8, <2>1, OneMorePart
  <1> HIDE DEF p4
  <1>10. /\ IsPart(s, F \cup G \cup {old} \cup {cfg} \cup {"bindings"} \cup {"imports"})
         /\ Sets(s, "imports", Whole(C.imports))
         /\ \A g, d : g # "imports" /\ Sets(p4, g, d) => Sets(s, g, d)
         /\ \A g, h : g # "imports" /\ Precedes(p4, g, h) => Precedes(s, g, h)
         /\ \A g : g # "imports" => Precedes(s, g, "imports")
    <2>1. "imports" \notin F \cup G \cup {old} \cup {cfg} \cup {"bindings"}
      BY <1>1, <1>2, <1>3
    <2> QED
      BY <1>4, <1>9, <2>1, OneMorePart
  <1> HIDE DEF s
  <1>11. /\ Sets(s, cfg, Whole(C.config))
         /\ Sets(s, old, Null)
         /\ begins => Sets(s, "moves", Whole(C.moves))
         /\ \A g \in Lk : \A d : Sets(L, g, d) => Sets(s, g, d)
    BY <1>2, <1>6, <1>7, <1>8, <1>9, <1>10
  <1>12. Precedes(s, "moves", "imports") /\ Precedes(s, "lookup", "oldLookup")
    BY <1>2, <1>6, <1>7, <1>8, <1>9, <1>10
  <1>13. /\ IsChanges(s) /\ OneEach(s) /\ Changed(s) = F \cup G \cup {old} \cup {cfg} \cup {"bindings"} \cup {"imports"}
         /\ Changed(L) = F
    BY <1>1, <1>10 DEF IsPart
  <1>14. ~ begins => "moves" \notin Changed(s)
    BY <1>1, <1>2, <1>3, <1>13
  <1>15. Changed(s) \cap Lk = Changed(L) /\ Changed(s) \subseteq LaneFiles
    BY <1>1, <1>2, <1>3, <1>13 DEF LaneFiles
  <1> QED
    BY <1>5, <1>10, <1>11, <1>12, <1>13, <1>14, <1>15 DEF begins, L, cfg, old, Lk

\* What a publication of a data referent leaves in its files.
LEMMA DataReferentChanges ==
  ASSUME NEW tr, NEW type, NEW o, NEW C, o.dataLane
  PROVE  LET s == PublishCompiledTransformArtifacts(tr, type, o, C)
         IN  /\ IsChanges(s) /\ OneEach(s)
             /\ Sets(s, ConfigFile(o), Whole(C.config)) /\ Sets(s, StaleConfigFile(o), Null)
             /\ Sets(s, "imports", Null) /\ Sets(s, "json", Null)
             /\ Precedes(s, "lookup", "oldLookup")
             /\ \A g \in {"lookup", "oldLookup"} : \A d : Sets(LookupChanges(o, C), g, d) => Sets(s, g, d)
             /\ Changed(s) \cap {"lookup", "oldLookup"} = Changed(LookupChanges(o, C))
             /\ Changed(s) \subseteq LaneFiles
  <1> DEFINE L == LookupChanges(o, C)
             cfg == ConfigFile(o)
             old == StaleConfigFile(o)
             p1 == Unlink("imports") \o Unlink("moves")
             p2 == p1 \o L
             p3 == p2 \o Unlink(old)
             p4 == p3 \o Unlink("json")
             p5 == p4 \o Unlink("hcl")
             p6 == p5 \o WriteTo(cfg, C.config)
             s == p6 \o Unlink("bindings")
             Lk == {"lookup", "oldLookup"}
             Im == {"imports", "moves"}
  <1>1. PICK F : F \in SUBSET Lk /\ IsPart(L, F) /\ Precedes(L, "lookup", "oldLookup")
    <2>1. {} \in SUBSET Lk /\ Lk \in SUBSET Lk
      OBVIOUS
    <2> QED
      BY <2>1, LookupPart
  <1>2. cfg \in {"data", "dataHcl"} /\ old \in {"data", "dataHcl"} /\ cfg # old
    BY ConfigNamesDiffer
  <1>3. /\ IsPart(Unlink("imports"), {"imports"}) /\ Sets(Unlink("imports"), "imports", Null)
        /\ IsPart(Unlink("moves"), {"moves"}) /\ Sets(Unlink("moves"), "moves", Null)
        /\ IsPart(Unlink(old), {old}) /\ Sets(Unlink(old), old, Null)
        /\ IsPart(Unlink("json"), {"json"}) /\ Sets(Unlink("json"), "json", Null)
        /\ IsPart(Unlink("hcl"), {"hcl"}) /\ Sets(Unlink("hcl"), "hcl", Null)
        /\ IsPart(WriteTo(cfg, C.config), {cfg}) /\ Sets(WriteTo(cfg, C.config), cfg, Whole(C.config))
        /\ IsPart(Unlink("bindings"), {"bindings"}) /\ Sets(Unlink("bindings"), "bindings", Null)
    BY WriteIsPart
  <1>4. s = PublishCompiledTransformArtifacts(tr, type, o, C)
    BY DEF PublishCompiledTransformArtifacts
  <1> HIDE DEF L, cfg, old
  <1>5. IsPart(p1, Im) /\ Sets(p1, "imports", Null)
    <2>1. "moves" \notin {"imports"} /\ {"imports"} \cup {"moves"} = Im
      OBVIOUS
    <2>2. /\ IsPart(p1, {"imports"} \cup {"moves"})
          /\ \A g, d : g # "moves" /\ Sets(Unlink("imports"), g, d) => Sets(p1, g, d)
      BY <1>3, <2>1, OneMorePart
    <2> QED
      BY <1>3, <2>1, <2>2
  <1> HIDE DEF p1
  <1>6. /\ IsPart(p2, Im \cup F) /\ Sets(p2, "imports", Null)
        /\ Precedes(p2, "lookup", "oldLookup")
        /\ \A g \in Lk : \A d : Sets(L, g, d) => Sets(p2, g, d)
    <2>1. Im \cap F = {} /\ "imports" \notin F /\ "lookup" \notin Im /\ "oldLookup" \notin Im
      BY <1>1
    <2>2. /\ IsPart(p2, Im \cup F)
          /\ \A f, c : f \notin F /\ Sets(p1, f, c) => Sets(p2, f, c)
          /\ \A f, c : f \in F /\ Sets(L, f, c) => Sets(p2, f, c)
          /\ \A f, g : Precedes(L, f, g) /\ f \notin Im /\ g \notin Im => Precedes(p2, f, g)
      BY <1>1, <1>5, <2>1, JoinedParts
    <2>3. ASSUME NEW g, NEW d, g \notin F, Sets(L, g, d) PROVE FALSE
      <3>1. Changed(L) = F
        BY <1>1 DEF IsPart
      <3>2. \A now : now = d
        BY <2>3, <3>1 DEF Sets, Leaves, Changed
      <3>3. 0 = d /\ 1 = d
        BY <3>2
      <3> QED
        BY <3>3
    <2> QED
      BY <1>1, <1>5, <2>1, <2>2, <2>3
  <1> HIDE DEF p2
  <1>7. /\ IsPart(p3, Im \cup F \cup {old}) /\ Sets(p3, old, Null)
        /\ \A g, d : g # old /\ Sets(p2, g, d) => Sets(p3, g, d)
        /\ \A g, h : g # old /\ Precedes(p2, g, h) => Precedes(p3, g, h)
    <2>1. old \notin Im \cup F /\ IsPart(Unlink(old), {old}) /\ Sets(Unlink(old), old, Null)
      BY <1>1, <1>2, <1>3
    <2> QED
      BY <1>6, <2>1, OneMorePart
  <1> HIDE DEF p3
  <1>8. /\ IsPart(p4, Im \cup F \cup {old} \cup {"json"}) /\ Sets(p4, "json", Null)
        /\ \A g, d : g # "json" /\ Sets(p3, g, d) => Sets(p4, g, d)
        /\ \A g, h : g # "json" /\ Precedes(p3, g, h) => Precedes(p4, g, h)
    <2>1. /\ "json" \notin Im \cup F \cup {old}
          /\ IsPart(Unlink("json"), {"json"}) /\ Sets(Unlink("json"), "json", Null)
      BY <1>1, <1>2, <1>3
    <2> QED
      BY <1>7, <2>1, OneMorePart
  <1> HIDE DEF p4
  <1>9. /\ IsPart(p5, Im \cup F \cup {old} \cup {"json"} \cup {"hcl"})
        /\ \A g, d : g # "hcl" /\ Sets(p4, g, d) => Sets(p5, g, d)
        /\ \A g, h : g # "hcl" /\ Precedes(p4, g, h) => Precedes(p5, g, h)
    <2>1. /\ "hcl" \notin Im \cup F \cup {old} \cup {"json"}
          /\ IsPart(Unlink("hcl"), {"hcl"}) /\ Sets(Unlink("hcl"), "hcl", Null)
      BY <1>1, <1>2, <1>3
    <2> QED
      BY <1>8, <2>1, OneMorePart
  <1> HIDE DEF p5
  <1>10. /\ IsPart(p6, Im \cup F \cup {old} \cup {"json"} \cup {"hcl"} \cup {cfg})
         /\ Sets(p6, cfg, Whole(C.config))
         /\ \A g, d : g # cfg /\ Sets(p5, g, d) => Sets(p6, g, d)
         /\ \A g, h : g # cfg /\ Precedes(p5, g, h) => Precedes(p6, g, h)
    <2>1. /\ cfg \notin Im \cup F \cup {old} \cup {"json"} \cup {"hcl"}
          /\ IsPart(WriteTo(cfg, C.config), {cfg}) /\ Sets(WriteTo(cfg, C.config), cfg, Whole(C.config))
      BY <1>1, <1>2, <1>3
    <2> QED
      BY <1>9, <2>1, OneMorePart
  <1> HIDE DEF p6
  <1>11. /\ IsPart(s, Im \cup F \cup {old} \cup {"json"} \cup {"hcl"} \cup {cfg} \cup {"bindings"})
         /\ \A g, d : g # "bindings" /\ Sets(p6, g, d) => Sets(s, g, d)
         /\ \A g, h : g # "bindings" /\ Precedes(p6, g, h) => Precedes(s, g, h)
    <2>1. /\ "bindings" \notin Im \cup F \cup {old} \cup {"json"} \cup {"hcl"} \cup {cfg}
          /\ IsPart(p6, Im \cup F \cup {old} \cup {"json"} \cup {"hcl"} \cup {cfg})
      BY <1>1, <1>2, <1>10
    <2>2. IsPart(Unlink("bindings"), {"bindings"}) /\ Sets(Unlink("bindings"), "bindings", Null)
      BY <1>3
    <2> QED
      BY <2>1, <2>2, OneMorePart DEF s
  <1> HIDE DEF s
  <1>12. /\ Sets(s, cfg, Whole(C.config)) /\ Sets(s, old, Null) /\ Sets(s, "imports", Null) /\ Sets(s, "json", Null)
         /\ \A g \in Lk : \A d : Sets(L, g, d) => Sets(s, g, d)
    BY <1>2, <1>6, <1>7, <1>8, <1>9, <1>10, <1>11
  <1>13. Precedes(s, "lookup", "oldLookup")
    BY <1>2, <1>6, <1>7, <1>8, <1>9, <1>10, <1>11
  <1>14. /\ IsChanges(s) /\ OneEach(s) /\ Changed(L) = F
         /\ Changed(s) = Im \cup F \cup {old} \cup {"json"} \cup {"hcl"} \cup {cfg} \cup {"bindings"}
    BY <1>1, <1>11 DEF IsPart
  <1>15. Changed(s) \cap Lk = Changed(L) /\ Changed(s) \subseteq LaneFiles
    BY <1>1, <1>2, <1>14 DEF LaneFiles
  <1> QED
    BY <1>4, <1>12, <1>13, <1>14, <1>15 DEF L, cfg, old, Lk

\* What is known of a compilation that is not refused.
LEMMA CompiledShape ==
  ASSUME NEW tr, NEW type, NEW o, NEW r, ~ HasFailed(CompileTransformArtifacts(tr, type, o, r))
  PROVE  LET C == CompileTransformArtifacts(tr, type, o, r)
             maps == LookupKeyMaps(tr, o.context.references)
             since == MovesSince(tr[type].imports, C.imports)
         IN  /\ C.lookup = CompileLookup(o, r) /\ ~ HasFailed(C.lookup) /\ ~ Strands(tr, type, C.config, C.lookup)
             /\ o.dataLane => C.config = r.items
             /\ ~ o.dataLane =>
                   /\ ~ HasFailed(since) /\ C.moves = since.moves
                   /\ tr[type].moves = Null \/ C.moves = {} \/ tr[type].moves = Whole(C.moves)
                   /\ "none" \in DOMAIN C.lookup /\ o.removeLookup => TokenDependents(tr, type) = {}
                   /\ ~ HasFailed(maps)
                   /\ C.config = IF o.hcl THEN r.items ELSE WithTokens(r.items, type, o.context, maps.maps)
  <1> DEFINE C == CompileTransformArtifacts(tr, type, o, r)
             maps == LookupKeyMaps(tr, o.context.references)
             fresh == CompileLookup(o, r)
             rendered == RenderTransformImports(r.originals, o.template)
             since == MovesSince(tr[type].imports, rendered.imports)
             items == IF o.hcl THEN r.items ELSE WithTokens(r.items, type, o.context, maps.maps)
             compiled == CompileConfig(tr, type, o, r, fresh, maps)
  <1>1. C = CompileWith(tr, type, o, r, fresh, rendered)
    BY DEF CompileTransformArtifacts
  <1>2. ~ HasFailed(fresh)
    BY <1>1 DEF CompileWith
  <1>3. \A w : HasFailed(Failed(w))
    BY DEF HasFailed, Failed
  <1> HIDE DEF C, maps, fresh, rendered
  <1>4. CASE o.dataLane
    <2>1. C = IF Strands(tr, type, r.items, fresh) THEN Failed("stranded") ELSE [lookup |-> fresh, config |-> r.items]
      BY <1>1, <1>2, <1>4 DEF CompileWith
    <2>2. C = [lookup |-> fresh, config |-> r.items] /\ ~ Strands(tr, type, r.items, fresh)
      BY <1>3, <2>1 DEF C
    <2> QED
      BY <1>2, <1>4, <2>2 DEF C, fresh
  <1>5. CASE ~ o.dataLane
    <2>1. C = CompileResource(tr, type, o, r, fresh, rendered, since)
      BY <1>1, <1>2, <1>5 DEF CompileWith
    <2>2. /\ ~ ("none" \in DOMAIN fresh /\ o.removeLookup /\ TokenDependents(tr, type) # {})
          /\ ~ HasFailed(since)
          /\ ~ (tr[type].moves # Null /\ since.moves # {} /\ tr[type].moves # Whole(since.moves))
          /\ C = Assembled(fresh, rendered.imports, since.moves, compiled)
      BY <1>3, <2>1 DEF CompileResource, C, maps
    <2>3. ~ HasFailed(compiled) /\ C = [lookup |-> fresh, config |-> compiled.config, imports |-> rendered.imports, moves |-> since.moves]
      BY <2>2 DEF Assembled, C
    <2>4. ~ HasFailed(maps) /\ compiled = AcceptedConfig(tr, type, o, r, fresh, items, maps.maps)
      BY <2>3 DEF CompileConfig
    <2>5. ~ Strands(tr, type, items, fresh) /\ compiled = [config |-> items]
      BY <1>3, <2>3, <2>4 DEF AcceptedConfig
    <2> HIDE DEF items, compiled, since
    <2>6. /\ C.lookup = fresh /\ C.config = items /\ C.imports = rendered.imports /\ C.moves = since.moves
      BY <2>3, <2>5
    <2> QED
      BY <1>2, <1>5, <2>2, <2>4, <2>5, <2>6 DEF C, fresh, maps, items, since
  <1> QED
    BY <1>4, <1>5

\* An order of two changes is kept when the first change is made.
LEMMA FirstOfOrdered ==
  ASSUME NEW s, IsChanges(s), s # <<>>, OneEach(s), NEW f, NEW g, f # g, Precedes(s, f, g)
  PROVE  Precedes(Tail(s), f, g) /\ (Head(s).file = g => f \notin Changed(s))
  <1>1. /\ Len(Tail(s)) \in Nat /\ Len(s) = Len(Tail(s)) + 1 /\ Head(s) = s[1]
        /\ \A i \in 1..Len(Tail(s)) : Tail(s)[i] = s[i + 1]
    BY FirstChange
  <1>2. Precedes(Tail(s), f, g)
    <2> SUFFICES ASSUME NEW i \in 1..Len(Tail(s)), NEW j \in 1..Len(Tail(s)), Tail(s)[i].file = f, Tail(s)[j].file = g
                 PROVE  i < j
      BY DEF Precedes
    <2>1. i + 1 \in 1..Len(s) /\ j + 1 \in 1..Len(s) /\ s[i + 1].file = f /\ s[j + 1].file = g
      BY <1>1
    <2>2. i + 1 < j + 1
      BY <2>1 DEF Precedes
    <2> QED
      BY <2>2
  <1>3. ASSUME Head(s).file = g, NEW i \in 1..Len(s), s[i].file = f PROVE FALSE
    <2>1. 1 \in 1..Len(s) /\ s[1].file = g
      BY <1>1, <1>3
    <2>2. i < 1
      BY <1>3, <2>1 DEF Precedes
    <2> QED
      BY <1>1, <2>2
  <1> QED
    BY <1>2, <1>3 DEF Changed

-----------------------------------------------------------------------------
(* The lanes: the batch *)

AtType == lane.pc \in {"gate", "load", "compile", "publish"}
LaneShapes ==
    /\ DOMAIN lane = DOMAIN IdleLane
    /\ lane.at \in 0..Len(LaneOrder) /\ lane.selected \subseteq DOMAIN LaneTypes
    /\ AtType => lane.at > 0 /\ LaneType \in lane.selected /\ lane.result \in PullResults[LaneType]
    /\ DOMAIN tree = DOMAIN LaneTypes /\ \A t \in DOMAIN tree : DOMAIN tree[t] = LaneFiles
    /\ DOMAIN published = DOMAIN LaneTypes

\* The selected types the batch has come to are accounted for, but for the one it is at.
TypesPassed == {LaneOrder[i] : i \in {j \in DOMAIN LaneOrder : j <= lane.at}} \cap lane.selected
StandsPublished(t) ==
    /\ tree[t][ConfigFile(LaneTypes[t])] = Whole(published[t])
    /\ tree[t][StaleConfigFile(LaneTypes[t])] = Null
LaneAccounts ==
    lane.pc \in {"next", "done"} \/ AtType =>
        /\ lane.processed \cup lane.skipped \cup lane.failed = TypesPassed \ (IF AtType THEN {LaneType} ELSE {})
        /\ lane.processed \cap lane.failed = {}
        /\ lane.skipped \cap (lane.processed \cup lane.failed) = {}
        /\ LaneAt("done") => lane.selected \subseteq TypesPassed
        /\ \A t \in lane.processed : StandsPublished(t)

\* The changes still to be made publish the configuration, and they write the moves that
\* follow from new imports before those imports.
Now(f) == tree[LaneType][f]
EvidencePending(new) ==
    /\ Leaves(lane.changes, "imports", Now("imports"), Whole(new)) /\ Precedes(lane.changes, "moves", "imports")
    /\ Now("imports") # Null =>
          /\ Now("imports")[2] # Null
          /\ LET moves == DeriveImportMoves(Now("imports")[2], new).moves
             IN  moves = {} \/ Leaves(lane.changes, "moves", Now("moves"), Whole(moves))
LanePublishes ==
    LaneAt("publish") =>
        /\ IsChanges(lane.changes) /\ OneEach(lane.changes) /\ Changed(lane.changes) \subseteq LaneFiles
        /\ Leaves(lane.changes, ConfigFile(LaneOpts), Now(ConfigFile(LaneOpts)), Whole(lane.config))
        /\ Leaves(lane.changes, StaleConfigFile(LaneOpts), Now(StaleConfigFile(LaneOpts)), Null)
        /\ "imports" \in Changed(lane.changes) =>
              \/ Leaves(lane.changes, "imports", Now("imports"), Null)
              \/ \E new : EvidencePending(new)

LaneInv == LaneShapes /\ LaneAccounts /\ LanePublishes

LEMMA OrderOfLanes ==
  /\ Len(LaneOrder) \in Nat /\ DOMAIN LaneOrder = 1..Len(LaneOrder)
  /\ \A i \in DOMAIN LaneOrder : LaneOrder[i] \in DOMAIN LaneTypes
  /\ \A i, j \in DOMAIN LaneOrder : LaneOrder[i] = LaneOrder[j] => i = j
  BY LaneAssumption DEF IsInjective

LEMMA FirstIndex ==
  ASSUME NEW S \in SUBSET Nat, S # {}
  PROVE  \E i \in S : \A j \in S : i <= j
  <1>1. PICK i \in S : \A j \in S : ~ <<j, i>> \in OpToRel(<, Nat)
    BY NatLessThanWellFounded, WFMin
  <1>2. \A j \in S : ~ j < i
    BY <1>1 DEF OpToRel
  <1> QED
    BY <1>2

LEMMA LaneInitInv == LaneInit => LaneInv
  <1> SUFFICES ASSUME LaneInit PROVE LaneInv
    OBVIOUS
  <1>1. lane = IdleLane /\ lane.pc = "idle" /\ lane.at = 0 /\ lane.selected = {}
    BY DEF LaneInit, IdleLane
  <1>2. LaneShapes
    BY <1>1, OrderOfLanes, LaneAssumption DEF LaneShapes, LaneInit, AtType
  <1> QED
    BY <1>1, <1>2 DEF LaneInv, LaneAccounts, LanePublishes, AtType, LaneAt

\* Nothing but the files and the record of the type at hand may have changed.
OthersKept ==
    /\ DOMAIN tree' = DOMAIN tree /\ DOMAIN published' = DOMAIN published
    /\ \A t \in DOMAIN tree : DOMAIN tree'[t] = DOMAIN tree[t]
    /\ \A t \in DOMAIN tree : t # LaneType => tree'[t] = tree[t] /\ published'[t] = published[t]

LEMMA AtTypeFacts ==
  ASSUME LaneInv, AtType
  PROVE  /\ LaneType \in DOMAIN LaneTypes /\ LaneType \in TypesPassed
         /\ lane.processed \cup lane.skipped \cup lane.failed = TypesPassed \ {LaneType}
         /\ lane.processed \cap lane.failed = {} /\ lane.skipped \cap (lane.processed \cup lane.failed) = {}
         /\ LaneType \notin lane.processed \cup lane.skipped \cup lane.failed
         /\ \A t \in lane.processed : t \in DOMAIN LaneTypes /\ t # LaneType /\ StandsPublished(t)
  <1>1. lane.at \in DOMAIN LaneOrder /\ LaneType \in lane.selected /\ lane.selected \subseteq DOMAIN LaneTypes
    BY OrderOfLanes DEF LaneInv, LaneShapes, LaneType
  <1>2. LaneType \in TypesPassed /\ TypesPassed \subseteq DOMAIN LaneTypes
    BY <1>1, OrderOfLanes DEF TypesPassed, LaneType
  <1>3. /\ lane.processed \cup lane.skipped \cup lane.failed = TypesPassed \ {LaneType}
        /\ lane.processed \cap lane.failed = {} /\ lane.skipped \cap (lane.processed \cup lane.failed) = {}
        /\ \A t \in lane.processed : StandsPublished(t)
    BY DEF LaneInv, LaneAccounts
  <1> QED
    BY <1>1, <1>2, <1>3

\* A type is left: it is failed or processed, and the next is looked for.
LEMMA LeavingKeeps ==
  ASSUME LaneInv, AtType, OthersKept,
         DOMAIN lane' = DOMAIN lane, lane'.pc = "next", lane'.at = lane.at, lane'.selected = lane.selected,
         lane'.skipped = lane.skipped,
         \/ lane'.failed = lane.failed \cup {LaneType} /\ lane'.processed = lane.processed
         \/ /\ lane'.processed = lane.processed \cup {LaneType} /\ lane'.failed = lane.failed
            /\ StandsPublished(LaneType)'
            /\ LaneType' = LaneType
  PROVE  LaneInv'
  <1>1. LaneShapes'
    BY DEF LaneShapes, LaneInv, AtType, OthersKept
  <1>2. TypesPassed' = TypesPassed /\ ~ AtType' /\ ~ LaneAt("done")'
    BY DEF TypesPassed, AtType, LaneAt
  <1>3. \A t \in lane.processed : StandsPublished(t)'
    <2> SUFFICES ASSUME NEW t \in lane.processed PROVE StandsPublished(t)'
      OBVIOUS
    <2>1. t \in DOMAIN tree /\ t # LaneType /\ StandsPublished(t)
      BY AtTypeFacts DEF LaneInv, LaneShapes
    <2> QED
      BY <2>1 DEF OthersKept, StandsPublished
  <1>4. LaneAccounts'
    <2>1. CASE lane'.failed = lane.failed \cup {LaneType} /\ lane'.processed = lane.processed
      BY <1>2, <1>3, <2>1, AtTypeFacts DEF LaneAccounts
    <2>2. CASE /\ lane'.processed = lane.processed \cup {LaneType} /\ lane'.failed = lane.failed
               /\ StandsPublished(LaneType)' /\ LaneType' = LaneType
      <3>1. \A t \in lane'.processed : StandsPublished(t)'
        <4> SUFFICES ASSUME NEW t \in lane'.processed PROVE StandsPublished(t)'
          OBVIOUS
        <4>1. t \in lane.processed \/ t = LaneType'
          BY <2>2
        <4> QED
          BY <1>3, <2>2, <4>1
      <3>2. /\ (lane.processed \cup {LaneType}) \cup lane.skipped \cup lane.failed = TypesPassed
            /\ (lane.processed \cup {LaneType}) \cap lane.failed = {}
            /\ lane.skipped \cap ((lane.processed \cup {LaneType}) \cup lane.failed) = {}
        BY AtTypeFacts
      <3> QED
        BY <1>2, <2>2, <3>1, <3>2 DEF LaneAccounts
    <2> QED
      BY <2>1, <2>2
  <1>5. LanePublishes'
    BY DEF LanePublishes, LaneAt
  <1> QED
    BY <1>1, <1>4, <1>5 DEF LaneInv

LEMMA TypeFailsKeeps ==
  ASSUME LaneInv, AtType, OthersKept, TypeFails
  PROVE  LaneInv'
  <1>1. /\ DOMAIN lane' = DOMAIN lane /\ lane'.pc = "next" /\ lane'.at = lane.at /\ lane'.selected = lane.selected
        /\ lane'.skipped = lane.skipped /\ lane'.failed = lane.failed \cup {LaneType}
        /\ lane'.processed = lane.processed
    BY DEF TypeFails, NextType, LaneInv, LaneShapes, IdleLane
  <1> QED
    BY <1>1, LeavingKeeps

\* The batch stays at its type and writes nothing.
LEMMA StayingKeeps ==
  ASSUME LaneInv, AtType, UNCHANGED <<tree, published>>, AtType', LanePublishes',
         DOMAIN lane' = DOMAIN lane, lane'.at = lane.at, lane'.selected = lane.selected, lane'.result = lane.result,
         lane'.skipped = lane.skipped, lane'.failed = lane.failed, lane'.processed = lane.processed
  PROVE  LaneInv'
  <1>1. LaneType' = LaneType /\ TypesPassed' = TypesPassed
    BY DEF LaneType, TypesPassed
  <1>2. LaneShapes'
    BY <1>1 DEF LaneShapes, LaneInv
  <1>3. \A t \in lane.processed : StandsPublished(t)'
    BY AtTypeFacts DEF StandsPublished
  <1>4. ~ LaneAt("done")'
    BY DEF AtType, LaneAt
  <1>5. LaneAccounts'
    BY <1>1, <1>3, <1>4, AtTypeFacts DEF LaneAccounts
  <1> QED
    BY <1>2, <1>5 DEF LaneInv

\* The whole of the invariant but the changes pending, when the batch and its files are kept.
LEMMA LaneStutterKeeps ==
  ASSUME LaneInv, UNCHANGED <<tree, lane, published>>
  PROVE  LaneInv'
  BY DEF LaneInv, LaneShapes, AtType, LaneType, LaneAccounts, TypesPassed, StandsPublished, LaneAt,
         LanePublishes, LaneOpts, Now, EvidencePending

LEMMA StartLaneKeeps ==
  ASSUME LaneInv, NEW kind, NEW selected \in SUBSET DOMAIN LaneTypes, NEW check, StartLane(kind, selected, check)
  PROVE  LaneInv'
  <1>1. /\ DOMAIN lane' = DOMAIN IdleLane /\ lane'.pc = "next" /\ lane'.at = 0 /\ lane'.selected = selected
        /\ lane'.processed = {} /\ lane'.skipped = {} /\ lane'.failed = {}
    BY DEF StartLane, IdleLane
  <1>2. ~ AtType' /\ ~ LaneAt("done")' /\ ~ LaneAt("publish")'
    BY <1>1 DEF AtType, LaneAt
  <1>3. TypesPassed' = {}
    BY <1>1, OrderOfLanes DEF TypesPassed
  <1>4. LaneShapes'
    BY <1>1, <1>2, OrderOfLanes DEF LaneShapes, LaneInv, StartLane
  <1>5. LaneAccounts'
    BY <1>1, <1>2, <1>3 DEF LaneAccounts
  <1> QED
    BY <1>2, <1>4, <1>5 DEF LaneInv, LanePublishes

LEMMA ReadLaneInputKeeps ==
  ASSUME LaneInv, ReadLaneInput
  PROVE  LaneInv'
  <1> DEFINE todo == {i \in DOMAIN LaneOrder : i > lane.at /\ LaneOrder[i] \in lane.selected}
             at == CHOOSE i \in todo : \A j \in todo : i <= j
             t == LaneOrder[at]
  <1>0. /\ lane.pc = "next" /\ ~ AtType /\ DOMAIN lane = DOMAIN IdleLane
        /\ UNCHANGED <<tree, published>> /\ lane.at \in 0..Len(LaneOrder) /\ lane.selected \subseteq DOMAIN LaneTypes
        /\ lane.processed \cup lane.skipped \cup lane.failed = TypesPassed
        /\ lane.processed \cap lane.failed = {} /\ lane.skipped \cap (lane.processed \cup lane.failed) = {}
        /\ \A u \in lane.processed : StandsPublished(u)
    BY DEF ReadLaneInput, LaneAt, AtType, LaneInv, LaneShapes, LaneAccounts
  <1>1. /\ \A u : StandsPublished(u)' <=> StandsPublished(u)
        /\ DOMAIN tree' = DOMAIN LaneTypes /\ \A u \in DOMAIN tree' : DOMAIN tree'[u] = LaneFiles
        /\ DOMAIN published' = DOMAIN LaneTypes
    BY <1>0 DEF StandsPublished, LaneInv, LaneShapes
  <1>2. CASE todo = {}
    <2>1. lane' = [lane EXCEPT !.pc = "done"]
      BY <1>0, <1>2 DEF ReadLaneInput
    <2>2. lane.selected \subseteq TypesPassed
      <3>1. ASSUME NEW u \in lane.selected PROVE u \in TypesPassed
        <4>1. PICK i \in DOMAIN LaneOrder : LaneOrder[i] = u
          BY <1>0, LaneAssumption DEF Range
        <4>2. i <= lane.at
          BY <1>0, <1>2, <4>1, OrderOfLanes
        <4> QED
          BY <4>1, <4>2 DEF TypesPassed
      <3> QED
        BY <3>1
    <2> QED
      BY <1>0, <1>1, <2>1, <2>2
      DEF LaneInv, LaneShapes, LaneAccounts, LanePublishes, LaneAt, AtType, TypesPassed, IdleLane
  <1>3. CASE todo # {}
    <2>1. at \in todo /\ \A j \in todo : at <= j
      <3>1. todo \in SUBSET Nat
        BY OrderOfLanes
      <3> HIDE DEF todo
      <3> QED
        BY <1>3, <3>1, FirstIndex
    <2> HIDE DEF at
    <2>2. at \in DOMAIN LaneOrder /\ at > lane.at /\ at \in 1..Len(LaneOrder) /\ t \in lane.selected
      BY <2>1, OrderOfLanes
    <2>3. {LaneOrder[i] : i \in {j \in DOMAIN LaneOrder : j <= at}} \cap lane.selected = TypesPassed \cup {t}
      <3>1. ASSUME NEW i \in DOMAIN LaneOrder, i <= at, LaneOrder[i] \in lane.selected
            PROVE  i <= lane.at \/ i = at
        <4>1. CASE i > lane.at
          <5>1. at <= i
            BY <2>1, <3>1, <4>1
          <5> QED
            BY <2>2, <3>1, <5>1, OrderOfLanes
        <4>2. CASE ~ (i > lane.at)
          BY <1>0, <4>2, OrderOfLanes
        <4> QED
          BY <4>1, <4>2
      <3>2. \A i \in DOMAIN LaneOrder : i <= lane.at => i <= at
        BY <1>0, <2>2, OrderOfLanes
      <3>3. at <= at
        BY <2>2
      <3> QED
        BY <2>2, <3>1, <3>2, <3>3 DEF TypesPassed
    <2>4. t \notin TypesPassed
      <3> SUFFICES ASSUME NEW i \in DOMAIN LaneOrder, i <= lane.at, LaneOrder[i] = t PROVE FALSE
        BY DEF TypesPassed
      <3>1. i = at
        BY <2>2, OrderOfLanes
      <3> QED
        BY <1>0, <2>2, <3>1
    <2>5. PICK r \in PullResults[t] :
            lane' = CASE r.status = "absent" -> [lane EXCEPT !.at = at, !.skipped = @ \cup {t}]
                      [] r.status = "unreadable" /\ lane.kind = "adopt" -> [lane EXCEPT !.at = at, !.failed = @ \cup {t}]
                      [] r.status = "unreadable" -> [lane EXCEPT !.at = at, !.pc = "aborted"]
                      [] OTHER -> [lane EXCEPT !.at = at, !.result = r,
                                               !.pc = IF lane.kind = "adopt" THEN "gate" ELSE "compile"]
      BY <1>3 DEF ReadLaneInput, at
    <2>6. CASE \/ lane' = [lane EXCEPT !.at = at, !.skipped = @ \cup {t}]
               \/ lane' = [lane EXCEPT !.at = at, !.failed = @ \cup {t}]
      <3>1. /\ DOMAIN lane' = DOMAIN IdleLane /\ lane'.pc = "next" /\ lane'.at = at /\ lane'.selected = lane.selected
            /\ lane'.processed = lane.processed
            /\ \/ lane'.skipped = lane.skipped \cup {t} /\ lane'.failed = lane.failed
               \/ lane'.skipped = lane.skipped /\ lane'.failed = lane.failed \cup {t}
        BY <1>0, <2>6 DEF IdleLane
      <3>2. TypesPassed' = TypesPassed \cup {t} /\ ~ AtType' /\ ~ LaneAt("done")' /\ ~ LaneAt("publish")'
        BY <2>3, <3>1 DEF TypesPassed, AtType, LaneAt
      <3>3. LaneShapes'
        BY <1>0, <1>1, <2>2, <3>1, <3>2 DEF LaneShapes
      <3>4. LaneAccounts'
        <4>1. /\ lane'.processed \cup lane'.skipped \cup lane'.failed = TypesPassed \cup {t}
              /\ lane'.processed \cap lane'.failed = {}
              /\ lane'.skipped \cap (lane'.processed \cup lane'.failed) = {}
          BY <1>0, <2>4, <3>1
        <4> QED
          BY <1>0, <1>1, <3>1, <3>2, <4>1 DEF LaneAccounts
      <3> QED
        BY <3>2, <3>3, <3>4 DEF LaneInv, LanePublishes
    <2>7. CASE lane' = [lane EXCEPT !.at = at, !.pc = "aborted"]
      <3>1. /\ DOMAIN lane' = DOMAIN IdleLane /\ lane'.pc = "aborted" /\ lane'.at = at /\ lane'.selected = lane.selected
        BY <1>0, <2>7 DEF IdleLane
      <3>2. ~ AtType' /\ ~ LaneAt("done")' /\ ~ LaneAt("publish")' /\ ~ LaneAt("next")'
        BY <3>1 DEF AtType, LaneAt
      <3>3. LaneShapes'
        BY <1>0, <1>1, <2>2, <3>1, <3>2 DEF LaneShapes
      <3> QED
        BY <3>2, <3>3 DEF LaneInv, LanePublishes, LaneAccounts, LaneAt
    <2>8. CASE lane' = [lane EXCEPT !.at = at, !.result = r, !.pc = IF lane.kind = "adopt" THEN "gate" ELSE "compile"]
      <3>1. /\ DOMAIN lane' = DOMAIN IdleLane /\ lane'.pc \in {"gate", "compile"} /\ lane'.at = at
            /\ lane'.selected = lane.selected /\ lane'.result = r /\ lane'.processed = lane.processed
            /\ lane'.skipped = lane.skipped /\ lane'.failed = lane.failed
        BY <1>0, <2>8 DEF IdleLane
      <3>2. /\ TypesPassed' = TypesPassed \cup {t} /\ AtType' /\ ~ LaneAt("done")' /\ ~ LaneAt("publish")' /\ LaneType' = t
        BY <2>3, <3>1 DEF TypesPassed, AtType, LaneAt, LaneType
      <3>3. LaneShapes'
        BY <1>0, <1>1, <2>2, <2>5, <3>1, <3>2, OrderOfLanes DEF LaneShapes
      <3>4. LaneAccounts'
        <4>1. (TypesPassed \cup {t}) \ {t} = TypesPassed
          BY <2>4
        <4> QED
          BY <1>0, <1>1, <2>4, <3>1, <3>2, <4>1 DEF LaneAccounts
      <3> QED
        BY <3>2, <3>3, <3>4 DEF LaneInv, LanePublishes
    <2> QED
      BY <2>5, <2>6, <2>7, <2>8
  <1> QED
    BY <1>2, <1>3

LEMMA AdoptGateKeeps ==
  ASSUME LaneInv, AdoptGate \/ LoadAdopted
  PROVE  LaneInv'
  <1>1. AtType /\ UNCHANGED <<tree, published>> /\ DOMAIN lane = DOMAIN IdleLane
    BY DEF AdoptGate, LoadAdopted, AtType, LaneAt, LaneInv, LaneShapes
  <1>2. OthersKept
    BY <1>1 DEF OthersKept
  <1>3. TypeFails \/ lane' = [lane EXCEPT !.pc = "compile"] \/ lane' = [lane EXCEPT !.pc = "load"]
    BY DEF AdoptGate, LoadAdopted
  <1>4. CASE lane' = [lane EXCEPT !.pc = "compile"] \/ lane' = [lane EXCEPT !.pc = "load"]
    <2>1. /\ DOMAIN lane' = DOMAIN lane /\ lane'.pc \in {"compile", "load"} /\ lane'.at = lane.at
          /\ lane'.selected = lane.selected /\ lane'.result = lane.result /\ lane'.skipped = lane.skipped
          /\ lane'.failed = lane.failed /\ lane'.processed = lane.processed
      BY <1>1, <1>4 DEF IdleLane
    <2>2. AtType' /\ LanePublishes'
      BY <2>1 DEF AtType, LaneAt, LanePublishes
    <2> QED
      BY <1>1, <2>1, <2>2, StayingKeeps
  <1> QED
    BY <1>1, <1>2, <1>3, <1>4, TypeFailsKeeps

LEMMA CompileLaneKeeps ==
  ASSUME LaneInv, CompileLane
  PROVE  LaneInv'
  <1> DEFINE compiled == IF LaneOpts.derived THEN [config |-> lane.result.items]
                         ELSE CompileTransformArtifacts(tree, LaneType, LaneOpts, lane.result)
             changes == IF LaneOpts.derived THEN WriteDerivedTransformArtifact(LaneOpts, compiled.config)
                        ELSE PublishCompiledTransformArtifacts(tree, LaneType, LaneOpts, compiled)
  <1>1. AtType /\ UNCHANGED <<tree, published>> /\ DOMAIN lane = DOMAIN IdleLane
    BY DEF CompileLane, AtType, LaneAt, LaneInv, LaneShapes
  <1>2. OthersKept
    BY <1>1 DEF OthersKept
  <1>3. TypeFails \/ (~ HasFailed(compiled) /\ PublishNext(compiled))
    BY DEF CompileLane
  <1>4. CASE ~ HasFailed(compiled) /\ PublishNext(compiled)
    <2>1. lane' = [lane EXCEPT !.pc = "publish", !.config = compiled.config, !.changes = changes]
      BY <1>4 DEF PublishNext
    <2> HIDE DEF compiled, changes
    <2>2. /\ DOMAIN lane' = DOMAIN lane /\ lane'.pc = "publish" /\ lane'.at = lane.at
          /\ lane'.selected = lane.selected /\ lane'.result = lane.result /\ lane'.skipped = lane.skipped
          /\ lane'.failed = lane.failed /\ lane'.processed = lane.processed
          /\ lane'.config = compiled.config /\ lane'.changes = changes
      BY <1>1, <2>1 DEF IdleLane
    <2>3. AtType' /\ LaneType' = LaneType /\ LaneOpts' = LaneOpts
      BY <2>2 DEF AtType, LaneType, LaneOpts
    <2>4. \A f : Now(f)' = Now(f)
      BY <1>1, <2>3 DEF Now
    <2>5. /\ IsChanges(changes) /\ OneEach(changes) /\ Changed(changes) \subseteq LaneFiles
          /\ Sets(changes, ConfigFile(LaneOpts), Whole(compiled.config))
          /\ Sets(changes, StaleConfigFile(LaneOpts), Null)
          /\ "imports" \in Changed(changes) =>
                \/ Sets(changes, "imports", Null)
                \/ \E new :
                    /\ Sets(changes, "imports", Whole(new)) /\ Precedes(changes, "moves", "imports")
                    /\ Now("imports") # Null =>
                          /\ Now("imports")[2] # Null
                          /\ LET moves == DeriveImportMoves(Now("imports")[2], new).moves
                             IN  moves = {} \/ Leaves(changes, "moves", Now("moves"), Whole(moves))
      <3>1. CASE LaneOpts.derived
        <4>1. changes = WriteDerivedTransformArtifact(LaneOpts, compiled.config)
          BY <3>1 DEF changes
        <4>2. /\ IsPart(changes, {StaleConfigFile(LaneOpts), ConfigFile(LaneOpts)})
              /\ Sets(changes, ConfigFile(LaneOpts), Whole(compiled.config))
              /\ Sets(changes, StaleConfigFile(LaneOpts), Null)
          BY <4>1, DerivedChanges
        <4>3. {StaleConfigFile(LaneOpts), ConfigFile(LaneOpts)} \subseteq LaneFiles \ {"imports"}
          BY ConfigNamesDiffer DEF LaneFiles, ConfigNames
        <4> QED
          BY <4>2, <4>3 DEF IsPart
      <3>2. CASE ~ LaneOpts.derived /\ LaneOpts.dataLane
        <4>1. changes = PublishCompiledTransformArtifacts(tree, LaneType, LaneOpts, compiled)
          BY <3>2 DEF changes
        <4> QED
          BY <3>2, <4>1, DataReferentChanges
      <3>3. CASE ~ LaneOpts.derived /\ ~ LaneOpts.dataLane
        <4>1. changes = PublishCompiledTransformArtifacts(tree, LaneType, LaneOpts, compiled)
          BY <3>3 DEF changes
        <4>2. compiled = CompileTransformArtifacts(tree, LaneType, LaneOpts, lane.result)
          BY <3>3 DEF compiled
        <4>3. /\ ~ HasFailed(MovesSince(tree[LaneType].imports, compiled.imports))
              /\ compiled.moves = MovesSince(tree[LaneType].imports, compiled.imports).moves
              /\ tree[LaneType].moves = Null \/ compiled.moves = {} \/ tree[LaneType].moves = Whole(compiled.moves)
          BY <1>4, <3>3, <4>2, CompiledShape
        <4> DEFINE begins == tree[LaneType].moves = Null /\ compiled.moves # {}
        <4>4. /\ IsChanges(changes) /\ OneEach(changes) /\ Changed(changes) \subseteq LaneFiles
              /\ Sets(changes, ConfigFile(LaneOpts), Whole(compiled.config))
              /\ Sets(changes, StaleConfigFile(LaneOpts), Null)
              /\ Sets(changes, "imports", Whole(compiled.imports)) /\ Precedes(changes, "moves", "imports")
              /\ begins => Sets(changes, "moves", Whole(compiled.moves))
              /\ ~ begins => "moves" \notin Changed(changes)
          BY <3>3, <4>1, ResourceChanges
        <4>5. ASSUME Now("imports") # Null
              PROVE  /\ Now("imports")[2] # Null
                     /\ LET moves == DeriveImportMoves(Now("imports")[2], compiled.imports).moves
                        IN  moves = {} \/ Leaves(changes, "moves", Now("moves"), Whole(moves))
          <5>0. Now("imports")[2] # Null
            BY <4>3, <4>5 DEF MovesSince, Now, HasFailed, Failed
          <5>1. compiled.moves = DeriveImportMoves(Now("imports")[2], compiled.imports).moves
            BY <4>3, <4>5, <5>0 DEF MovesSince, Now
          <5>2. compiled.moves = {} \/ Leaves(changes, "moves", Now("moves"), Whole(compiled.moves))
            BY <4>3, <4>4 DEF Sets, Leaves, Now
          <5> QED
            BY <5>0, <5>1, <5>2
        <4> QED
          BY <4>4, <4>5
      <3> QED
        BY <3>1, <3>2, <3>3
    <2>6. LanePublishes'
      BY <2>2, <2>3, <2>4, <2>5 DEF LanePublishes, Sets, EvidencePending
    <2> QED
      BY <1>1, <2>2, <2>3, <2>6, StayingKeeps
  <1> QED
    BY <1>1, <1>2, <1>3, <1>4, TypeFailsKeeps

\* What making the first change does to the files of the type at hand.
ChangeMade ==
    /\ LaneAt("publish") /\ lane.changes # <<>>
    /\ tree' = [tree EXCEPT ![LaneType][Head(lane.changes).file] = Head(lane.changes).content]
    /\ lane' = [lane EXCEPT !.changes = Tail(@)]
    /\ UNCHANGED published

LEMMA ChangeMadeFacts ==
  ASSUME LaneInv, ChangeMade
  PROVE  LET head == Head(lane.changes)
         IN  /\ OthersKept /\ LaneType \in DOMAIN tree /\ head.file \in LaneFiles
             /\ \A f \in LaneFiles : tree'[LaneType][f] = IF head.file = f THEN head.content ELSE Now(f)
             /\ head.file \notin Changed(Tail(lane.changes))
             /\ Changed(lane.changes) = Changed(Tail(lane.changes)) \cup {head.file}
             /\ \A f, now, c : Leaves(lane.changes, f, now, c)
                   => Leaves(Tail(lane.changes), f, IF head.file = f THEN head.content ELSE now, c)
             /\ IsChanges(Tail(lane.changes)) /\ OneEach(Tail(lane.changes))
             /\ \A f, g : f # g /\ Precedes(lane.changes, f, g)
                   => Precedes(Tail(lane.changes), f, g) /\ (head.file = g => f \notin Changed(lane.changes))
  <1> DEFINE head == Head(lane.changes)
  <1>1. AtType /\ lane.changes # <<>>
    BY DEF ChangeMade, AtType, LaneAt
  <1>2. IsChanges(lane.changes) /\ OneEach(lane.changes) /\ Changed(lane.changes) \subseteq LaneFiles
    BY DEF LaneInv, LanePublishes, ChangeMade
  <1>3. /\ head.file \notin Changed(Tail(lane.changes))
        /\ Changed(lane.changes) = Changed(Tail(lane.changes)) \cup {head.file}
        /\ \A f, now, c : Leaves(lane.changes, f, now, c)
              => Leaves(Tail(lane.changes), f, IF head.file = f THEN head.content ELSE now, c)
        /\ IsChanges(Tail(lane.changes)) /\ OneEach(Tail(lane.changes))
    BY <1>1, <1>2, FirstChange
  <1>4. \A f, g : f # g /\ Precedes(lane.changes, f, g)
           => Precedes(Tail(lane.changes), f, g) /\ (head.file = g => f \notin Changed(lane.changes))
    BY <1>1, <1>2, FirstOfOrdered
  <1>5. LaneType \in DOMAIN tree /\ head.file \in LaneFiles /\ DOMAIN tree[LaneType] = LaneFiles
    BY <1>1, <1>2, <1>3, AtTypeFacts DEF LaneInv, LaneShapes
  <1>6. /\ DOMAIN tree' = DOMAIN tree
        /\ \A t \in DOMAIN tree : t # LaneType => tree'[t] = tree[t]
        /\ DOMAIN tree'[LaneType] = LaneFiles
        /\ \A f \in LaneFiles : tree'[LaneType][f] = IF head.file = f THEN head.content ELSE Now(f)
    BY <1>5 DEF ChangeMade, Now
  <1>7. OthersKept
    BY <1>5, <1>6 DEF OthersKept, ChangeMade
  <1> QED
    BY <1>3, <1>4, <1>5, <1>6, <1>7

LEMMA ChangeMadeKeeps ==
  ASSUME LaneInv, ChangeMade
  PROVE  LaneInv'
  <1> DEFINE head == Head(lane.changes)
             s == lane.changes
  <1>1. AtType /\ LaneAt("publish") /\ DOMAIN lane = DOMAIN IdleLane
    BY DEF ChangeMade, AtType, LaneAt, LaneInv, LaneShapes
  <1>2. /\ DOMAIN lane' = DOMAIN IdleLane /\ lane'.pc = "publish" /\ lane'.at = lane.at
        /\ lane'.selected = lane.selected /\ lane'.result = lane.result /\ lane'.skipped = lane.skipped
        /\ lane'.failed = lane.failed /\ lane'.processed = lane.processed
        /\ lane'.config = lane.config /\ lane'.changes = Tail(s)
    BY <1>1 DEF ChangeMade, LaneAt, IdleLane
  <1>3. AtType' /\ ~ LaneAt("done")' /\ LaneType' = LaneType /\ LaneOpts' = LaneOpts /\ TypesPassed' = TypesPassed
    BY <1>2 DEF AtType, LaneAt, LaneType, LaneOpts, TypesPassed
  <1>4. \A f \in LaneFiles : tree'[LaneType][f] = IF head.file = f THEN head.content ELSE Now(f)
    BY ChangeMadeFacts
  <1>5. OthersKept
    BY ChangeMadeFacts
  <1>6. LaneShapes'
    BY <1>1, <1>2, <1>3, <1>5 DEF LaneShapes, LaneInv, OthersKept
  <1>7. \A t \in lane.processed : StandsPublished(t)'
    <2> SUFFICES ASSUME NEW t \in lane.processed PROVE StandsPublished(t)'
      OBVIOUS
    <2>1. t \in DOMAIN tree /\ t # LaneType /\ StandsPublished(t)
      BY <1>1, AtTypeFacts DEF LaneInv, LaneShapes
    <2> QED
      BY <1>5, <2>1 DEF OthersKept, StandsPublished
  <1>8. LaneAccounts'
    BY <1>1, <1>2, <1>3, <1>7, AtTypeFacts DEF LaneAccounts
  <1>9. /\ ConfigFile(LaneOpts) \in LaneFiles /\ StaleConfigFile(LaneOpts) \in LaneFiles
        /\ "imports" \in LaneFiles /\ "moves" \in LaneFiles
    BY ConfigNamesDiffer DEF LaneFiles, ConfigNames
  <1>10. \A f \in LaneFiles : \A c : Leaves(s, f, Now(f), c) => Leaves(Tail(s), f, tree'[LaneType][f], c)
    BY <1>4, ChangeMadeFacts
  <1>11. /\ IsChanges(s) /\ OneEach(s) /\ Changed(s) \subseteq LaneFiles
         /\ Leaves(s, ConfigFile(LaneOpts), Now(ConfigFile(LaneOpts)), Whole(lane.config))
         /\ Leaves(s, StaleConfigFile(LaneOpts), Now(StaleConfigFile(LaneOpts)), Null)
         /\ "imports" \in Changed(s) =>
               Leaves(s, "imports", Now("imports"), Null) \/ \E new : EvidencePending(new)
    BY <1>1 DEF LaneInv, LanePublishes
  <1>12. /\ Leaves(Tail(s), ConfigFile(LaneOpts), tree'[LaneType][ConfigFile(LaneOpts)], Whole(lane.config))
         /\ Leaves(Tail(s), StaleConfigFile(LaneOpts), tree'[LaneType][StaleConfigFile(LaneOpts)], Null)
    BY <1>9, <1>10, <1>11
  <1>13. ASSUME "imports" \in Changed(Tail(s))
         PROVE  Leaves(Tail(s), "imports", tree'[LaneType]["imports"], Null) \/ \E new : EvidencePending(new)'
    <2>1. head.file # "imports" /\ "imports" \in Changed(s) /\ tree'[LaneType]["imports"] = Now("imports")
      BY <1>4, <1>9, <1>13, ChangeMadeFacts
    <2>2. CASE Leaves(s, "imports", Now("imports"), Null)
      BY <1>9, <1>10, <2>2
    <2>3. CASE \E new : EvidencePending(new)
      <3>1. PICK new : EvidencePending(new)
        BY <2>3
      <3>2. Leaves(Tail(s), "imports", tree'[LaneType]["imports"], Whole(new)) /\ Precedes(Tail(s), "moves", "imports")
        BY <1>9, <1>10, <3>1, ChangeMadeFacts DEF EvidencePending
      <3>3. \A c : Leaves(s, "moves", Now("moves"), c) => Leaves(Tail(s), "moves", tree'[LaneType]["moves"], c)
        BY <1>9, <1>10
      <3>4. EvidencePending(new)'
        BY <1>2, <1>3, <2>1, <3>1, <3>2, <3>3 DEF EvidencePending, Now
      <3> QED
        BY <3>4
    <2> QED
      BY <1>11, <2>1, <2>2, <2>3
  <1>14. LanePublishes'
    <2>1. IsChanges(Tail(s)) /\ OneEach(Tail(s)) /\ Changed(Tail(s)) \subseteq LaneFiles
      BY <1>11, ChangeMadeFacts
    <2>2. \A f : Now(f)' = tree'[LaneType][f]
      BY <1>3 DEF Now
    <2> QED
      BY <1>2, <1>3, <1>12, <1>13, <2>1, <2>2 DEF LanePublishes
  <1> QED
    BY <1>6, <1>8, <1>14 DEF LaneInv

\* What a file holds after a change of the type at hand, whatever is written.
LEMMA OneFile ==
  ASSUME LaneInv, NEW t \in DOMAIN tree, NEW f \in LaneFiles, NEW c, tree' = [tree EXCEPT ![t][f] = c]
  PROVE  /\ DOMAIN tree' = DOMAIN tree /\ \A u \in DOMAIN tree : DOMAIN tree'[u] = DOMAIN tree[u]
         /\ \A u \in DOMAIN tree, g \in LaneFiles :
               tree'[u][g] = IF u = t /\ g = f THEN c ELSE tree[u][g]
  BY DEF LaneInv, LaneShapes

\* A write that is cut short leaves something of one file of the type at hand.
LEMMA CutShortFacts ==
  ASSUME LaneInv, LaneAt("publish"), CutShort
  PROVE  LET head == Head(lane.changes)
         IN  /\ AtType /\ lane.changes # <<>> /\ LaneType \in DOMAIN tree /\ head.file \in LaneFiles
             /\ \E left \in Remains(head) : tree' = [tree EXCEPT ![LaneType][head.file] = left]
             /\ DOMAIN tree' = DOMAIN tree /\ \A u \in DOMAIN tree : DOMAIN tree'[u] = DOMAIN tree[u]
             /\ \A u \in DOMAIN tree, g \in LaneFiles :
                   u # LaneType \/ g # head.file => tree'[u][g] = tree[u][g]
             /\ \A u \in DOMAIN tree : u # LaneType => tree'[u] = tree[u]
  <1> DEFINE head == Head(lane.changes)
  <1>1. AtType /\ lane.changes # <<>>
    BY DEF AtType, LaneAt, CutShort
  <1>2. IsChanges(lane.changes) /\ OneEach(lane.changes) /\ Changed(lane.changes) \subseteq LaneFiles
    BY DEF LaneInv, LanePublishes
  <1>3. LaneType \in DOMAIN tree /\ head.file \in LaneFiles
    BY <1>1, <1>2, FirstChange, AtTypeFacts DEF LaneInv, LaneShapes
  <1>4. PICK left \in Remains(head) : tree' = [tree EXCEPT ![LaneType][head.file] = left]
    BY DEF CutShort
  <1>5. DOMAIN tree' = DOMAIN tree /\ \A u \in DOMAIN tree : DOMAIN tree'[u] = DOMAIN tree[u]
    BY <1>3, <1>4 DEF LaneInv, LaneShapes
  <1>6. \A u \in DOMAIN tree, g \in LaneFiles : u # LaneType \/ g # head.file => tree'[u][g] = tree[u][g]
    BY <1>3, <1>4 DEF LaneInv, LaneShapes
  <1>7. \A u \in DOMAIN tree : u # LaneType => tree'[u] = tree[u]
    BY <1>3, <1>4
  <1> QED
    BY <1>1, <1>3, <1>4, <1>5, <1>6, <1>7

LEMMA PublishChangeKeeps ==
  ASSUME LaneInv, PublishChange
  PROVE  LaneInv'
  <1>1. /\ AtType /\ LaneAt("publish") /\ UNCHANGED published
        /\ ChangeMade \/ (TypeFails /\ UNCHANGED tree) \/ (TypeFails /\ CutShort)
    BY DEF PublishChange, ChangeMade, AtType, LaneAt
  <1>2. UNCHANGED tree => OthersKept
    BY <1>1 DEF OthersKept
  <1>3. CutShort => OthersKept
    BY <1>1, CutShortFacts DEF OthersKept, LaneInv, LaneShapes
  <1> QED
    BY <1>1, <1>2, <1>3, ChangeMadeKeeps, TypeFailsKeeps

LEMMA PublishedLaneKeeps ==
  ASSUME LaneInv, PublishedLane
  PROVE  LaneInv'
  <1>1. AtType /\ LaneAt("publish") /\ lane.changes = <<>> /\ UNCHANGED tree /\ DOMAIN lane = DOMAIN IdleLane
    BY DEF PublishedLane, AtType, LaneAt, LaneInv, LaneShapes
  <1>2. LaneType \in DOMAIN published /\ published' = [published EXCEPT ![LaneType] = lane.config]
    BY <1>1, AtTypeFacts DEF PublishedLane, LaneInv, LaneShapes
  <1>3. OthersKept
    BY <1>1, <1>2 DEF OthersKept, LaneInv, LaneShapes
  <1>4. TypeFails \/ lane' = [NextType EXCEPT !.processed = @ \cup {LaneType}]
    BY DEF PublishedLane
  <1>5. CASE lane' = [NextType EXCEPT !.processed = @ \cup {LaneType}]
    <2>1. /\ DOMAIN lane' = DOMAIN lane /\ lane'.pc = "next" /\ lane'.at = lane.at /\ lane'.selected = lane.selected
          /\ lane'.skipped = lane.skipped /\ lane'.failed = lane.failed
          /\ lane'.processed = lane.processed \cup {LaneType}
      BY <1>1, <1>5 DEF NextType, IdleLane
    <2>2. LaneType' = LaneType
      BY <2>1 DEF LaneType
    <2>3. Now(ConfigFile(LaneOpts)) = Whole(lane.config) /\ Now(StaleConfigFile(LaneOpts)) = Null
      BY <1>1, NoChanges DEF LaneInv, LanePublishes, Leaves, Changed
    <2>4. StandsPublished(LaneType)'
      BY <1>1, <1>2, <2>2, <2>3 DEF StandsPublished, Now, LaneOpts
    <2> QED
      BY <1>1, <1>3, <2>1, <2>2, <2>4, LeavingKeeps
  <1> QED
    BY <1>1, <1>3, <1>4, <1>5, TypeFailsKeeps

\* Between batches the invariant asks for nothing but the shapes.
LEMMA BetweenBatches ==
  ASSUME LaneInv, lane' = IdleLane, UNCHANGED published,
         DOMAIN tree' = DOMAIN tree, \A t \in DOMAIN tree : DOMAIN tree'[t] = DOMAIN tree[t]
  PROVE  LaneInv'
  <1>1. lane'.pc = "idle" /\ DOMAIN lane' = DOMAIN IdleLane /\ lane'.at = 0 /\ lane'.selected = {}
    BY DEF IdleLane
  <1>2. LaneShapes'
    BY <1>1, OrderOfLanes DEF LaneShapes, LaneInv, AtType
  <1> QED
    BY <1>1, <1>2 DEF LaneInv, LaneAccounts, LanePublishes, LaneAt, AtType

LEMMA EndLaneKeeps ==
  ASSUME LaneInv, EndLane
  PROVE  LaneInv'
  BY BetweenBatches DEF EndLane

LEMMA KillLaneKeeps ==
  ASSUME LaneInv, KillLane
  PROVE  LaneInv'
  <1>1. AtType /\ lane' = IdleLane /\ UNCHANGED published
    BY DEF KillLane, AtType, LaneAt
  <1>2. CASE UNCHANGED tree
    BY <1>1, <1>2, BetweenBatches
  <1>3. CASE CutShort
    BY <1>1, <1>3, CutShortFacts, BetweenBatches DEF KillLane
  <1> QED
    BY <1>2, <1>3 DEF KillLane

LEMMA ResolveMovesKeeps ==
  ASSUME LaneInv, NEW t \in DOMAIN LaneTypes, ResolveMoves(t)
  PROVE  LaneInv'
  <1>1. lane.pc = "idle" /\ UNCHANGED <<lane, published>> /\ ~ AtType
    BY DEF ResolveMoves, LaneAt, AtType
  <1>2. DOMAIN tree' = DOMAIN tree /\ \A u \in DOMAIN tree : DOMAIN tree'[u] = DOMAIN tree[u]
    BY DEF ResolveMoves, LaneInv, LaneShapes
  <1>3. LaneShapes'
    BY <1>1, <1>2 DEF LaneShapes, LaneInv, AtType
  <1> QED
    BY <1>1, <1>3 DEF LaneInv, LaneAccounts, LanePublishes, LaneAt, AtType

LEMMA LaneStepKeeps ==
  ASSUME LaneInv, [LaneNext]_lnvars
  PROVE  LaneInv'
  <1>1. CASE UNCHANGED lnvars
    BY <1>1, LaneStutterKeeps DEF lnvars
  <1>2. ASSUME NEW t \in Transitions, BeginTransition(t) \/ AcknowledgeTransition(t) PROVE LaneInv'
    BY <1>2, LaneStutterKeeps DEF BeginTransition, AcknowledgeTransition
  <1>3. CASE \E kind \in {"transform", "adopt"}, s \in (SUBSET DOMAIN LaneTypes) \ {{}}, c \in BOOLEAN :
                StartLane(kind, s, c)
    BY <1>3, StartLaneKeeps
  <1>4. CASE \E t \in DOMAIN LaneTypes : ResolveMoves(t)
    BY <1>4, ResolveMovesKeeps
  <1> QED
    BY <1>1, <1>2, <1>3, <1>4, ReadLaneInputKeeps, AdoptGateKeeps, CompileLaneKeeps, PublishChangeKeeps,
       PublishedLaneKeeps, EndLaneKeeps, KillLaneKeeps DEF LaneNext

LEMMA AlwaysLaneInv == LaneInit /\ [][LaneNext]_lnvars => []LaneInv
  BY LaneInitInv, LaneStepKeeps, PTL

\* A batch that ended has accounted once for each selected type, and what it processed is
\* what is on disk, under one name (RunTransformBatch, RunAdoptBatch).
THEOREM LanesAccount == LaneInit /\ [][LaneNext]_lnvars => []BatchAccounts
  <1>1. LaneInv => BatchAccounts
    <2> SUFFICES ASSUME LaneInv, LaneAt("done") PROVE BatchAccounts
      BY DEF BatchAccounts
    <2>1. lane.pc = "done" /\ ~ AtType
      BY DEF LaneAt, AtType
    <2>2. /\ lane.processed \cup lane.skipped \cup lane.failed = TypesPassed /\ lane.selected \subseteq TypesPassed
          /\ lane.processed \cap lane.failed = {} /\ lane.skipped \cap (lane.processed \cup lane.failed) = {}
          /\ \A t \in lane.processed : StandsPublished(t)
      BY <2>1 DEF LaneInv, LaneAccounts
    <2>3. TypesPassed = lane.selected
      BY <2>2 DEF TypesPassed
    <2> QED
      BY <2>2, <2>3 DEF BatchAccounts, StandsPublished
  <1> QED
    BY <1>1, AlwaysLaneInv, PTL

\* What the changes leave a file with is what the first of them gives it, if it is its file.
LEMMA FirstContent ==
  ASSUME NEW s, IsChanges(s), s # <<>>, OneEach(s), NEW now, NEW c, Leaves(s, Head(s).file, now, c)
  PROVE  Head(s).content = c
  <1>1. Head(s).file \notin Changed(Tail(s)) /\ Leaves(Tail(s), Head(s).file, Head(s).content, c)
    BY FirstChange
  <1> QED
    BY <1>1 DEF Leaves, Changed

\* When the imports are the next change, the moves that follow from it are on disk.
LEMMA EvidenceThere ==
  ASSUME LaneInv, LaneAt("publish"), lane.changes # <<>>, Head(lane.changes).file = "imports",
         Head(lane.changes).content # Null, Now("imports") # Null
  PROVE  /\ Now("imports")[2] # Null
         /\ LET moves == DeriveImportMoves(Now("imports")[2], Head(lane.changes).content[2]).moves
            IN  moves = {} \/ Now("moves") = Whole(moves)
  <1> DEFINE s == lane.changes
             head == Head(s)
  <1>1. /\ IsChanges(s) /\ OneEach(s)
        /\ "imports" \in Changed(s) =>
              Leaves(s, "imports", Now("imports"), Null) \/ \E new : EvidencePending(new)
    BY DEF LaneInv, LanePublishes
  <1>2. "imports" \in Changed(s)
    BY <1>1, FirstChange
  <1>3. \A now, c : Leaves(s, "imports", now, c) => head.content = c
    BY <1>1, FirstContent
  <1>4. PICK new : EvidencePending(new)
    BY <1>1, <1>2, <1>3
  <1>5. head.content[2] = new
    BY <1>3, <1>4 DEF EvidencePending, Whole
  <1>6. "moves" \notin Changed(s)
    BY <1>1, <1>4, FirstOfOrdered DEF EvidencePending
  <1>7. \A c : Leaves(s, "moves", Now("moves"), c) => Now("moves") = c
    BY <1>6 DEF Leaves, Changed
  <1> QED
    BY <1>4, <1>5, <1>7 DEF EvidencePending

\* Imports are never written over, in whole or in part, before the moves that follow are on
\* disk, whatever fails or is killed and however a batch is begun again; and imports that
\* cannot be read stay (PublishCompiledTransformArtifacts, ParseGeneratedImports).
THEOREM MovesAreWrittenFirst == LaneInit /\ [][LaneNext]_lnvars => EvidenceComesFirst
  <1> DEFINE Replaced(t) ==
               LET old == tree[t].imports new == tree'[t].imports
               IN  old # Null /\ new # Null /\ new # old
                   => /\ old[2] # Null
                      /\ LET moves == DeriveImportMoves(old[2], Head(lane.changes).content[2]).moves
                         IN  moves = {} \/ tree'[t].moves = Whole(moves)
  <1>1. ASSUME LaneInv, LaneNext, NEW t \in DOMAIN tree PROVE Replaced(t)
    <2>0. "imports" \in LaneFiles /\ "moves" \in LaneFiles
      BY DEF LaneFiles
    <2>1. CASE UNCHANGED tree
      BY <2>1
    <2>2. CASE ChangeMade \/ (LaneAt("publish") /\ CutShort)
      <3> DEFINE head == Head(lane.changes)
      <3>1. LaneAt("publish") /\ lane.changes # <<>>
        BY <2>2 DEF ChangeMade, CutShort
      <3>2. t # LaneType \/ head.file # "imports" => tree'[t].imports = tree[t].imports
        BY <1>1, <2>0, <2>2, ChangeMadeFacts, CutShortFacts DEF OthersKept, Now
      <3>3. head.file = "imports" => tree'[LaneType].moves = Now("moves")
        BY <1>1, <2>0, <2>2, ChangeMadeFacts, CutShortFacts DEF Now
      <3>4. t = LaneType /\ head.file = "imports" /\ tree'[t].imports # Null => head.content # Null
        BY <1>1, <2>0, <2>2, ChangeMadeFacts DEF CutShort, Remains
      <3>5. CASE t = LaneType /\ head.file = "imports"
        <4> SUFFICES ASSUME tree[t].imports # Null, tree'[t].imports # Null PROVE Replaced(t)
          OBVIOUS
        <4>1. Now("imports") = tree[t].imports /\ head.content # Null
          BY <3>4, <3>5 DEF Now
        <4> QED
          BY <1>1, <3>1, <3>3, <3>5, <4>1, EvidenceThere
      <3> QED
        BY <3>2, <3>5
    <2>4. CASE \E u \in DOMAIN LaneTypes : ResolveMoves(u)
      <3>1. PICK u \in DOMAIN LaneTypes : ResolveMoves(u)
        BY <2>4
      <3>2. tree' = [tree EXCEPT ![u]["moves"] = Null] /\ u \in DOMAIN tree
        BY <1>1, <3>1 DEF ResolveMoves, LaneInv, LaneShapes
      <3>3. tree'[t].imports = tree[t].imports
        BY <1>1, <2>0, <3>2, OneFile
      <3> QED
        BY <3>3
    <2> QED
      BY <1>1, <2>1, <2>2, <2>4
      DEF LaneNext, StartLane, ReadLaneInput, AdoptGate, LoadAdopted, CompileLane, PublishChange, PublishedLane,
          EndLane, KillLane, BeginTransition, AcknowledgeTransition, ChangeMade
  <1>2. ASSUME UNCHANGED lnvars, NEW t \in DOMAIN tree PROVE Replaced(t)
    BY <1>2 DEF lnvars
  <1>3. LaneInv /\ [LaneNext]_lnvars => [\A t \in DOMAIN tree : Replaced(t)]_lnvars
    BY <1>1, <1>2
  <1> QED
    BY <1>3, AlwaysLaneInv, PTL DEF EvidenceComesFirst

-----------------------------------------------------------------------------
(* The lanes: the references *)

LEMMA LastOfIsMember ==
  ASSUME NEW K, K \subseteq Range(NameOrder), K # {}
  PROVE  LastOf(K) \in K
  <1> DEFINE n == Len(NameOrder)
             S == {i \in 1..n : NameOrder[i] \in K}
             P(k) == \A j \in K \ {k} : Before(j, k)
  <1>1. n \in Nat /\ DOMAIN NameOrder = 1..n
    BY ValuesAssumption
  <1>2. \A k \in K : \E i \in S : NameOrder[i] = k
    BY <1>1 DEF Range
  <1>3. PICK i \in S : \A j \in S : j <= i
    <2> DEFINE D == {n - i : i \in S}
    <2>1. D \in SUBSET Nat /\ D # {}
      BY <1>1, <1>2
    <2>2. PICK d \in D : \A e \in D : d <= e
      <3> HIDE DEF D
      <3> QED
        BY <2>1, FirstIndex
    <2>3. PICK i \in S : d = n - i
      OBVIOUS
    <2>4. \A j \in S : j <= i
      <3> SUFFICES ASSUME NEW j \in S PROVE j <= i
        OBVIOUS
      <3>1. n - j \in D
        OBVIOUS
      <3>2. n - i <= n - j
        BY <2>2, <2>3, <3>1
      <3> QED
        BY <1>1, <3>2
    <2> QED
      BY <2>4
  <1>4. P(NameOrder[i]) /\ NameOrder[i] \in K
    <2>1. ASSUME NEW k \in K \ {NameOrder[i]} PROVE Before(k, NameOrder[i])
      <3>1. PICK m \in S : NameOrder[m] = k
        BY <1>2
      <3>2. m < i /\ m \in DOMAIN NameOrder /\ i \in DOMAIN NameOrder
        BY <1>1, <1>3, <3>1
      <3> QED
        BY <3>1, <3>2 DEF Before
    <2> QED
      BY <2>1
  <1>5. LastOf(K) = CHOOSE k \in K : P(k)
    BY DEF LastOf
  <1> QED
    BY <1>4, <1>5

\* The sidecar of what was fetched reads back with the keys it was made of, each with an identity.
LEMMA FreshLookup ==
  ASSUME NEW t, t \in DOMAIN LaneTypes, NEW r, r \in Fetched(t), ~ HasFailed(CompileLookup(LaneTypes[t], r)),
         LaneTypes[t].nameField # Null
  PROVE  LET fresh == CompileLookup(LaneTypes[t], r)
             read == ParseLookupSidecar(fresh)
         IN  /\ fresh \in CompiledLookups(t) /\ "none" \notin DOMAIN fresh
             /\ DOMAIN read.idByKey = DOMAIN fresh.idByKey
             /\ Range(read.keyById) \subseteq DOMAIN read.idByKey
  <1> DEFINE o == LaneTypes[t]
             fresh == CompileLookup(o, r)
             merged == [k \in DOMAIN r.items |-> r.items[k] @@ (IF k \in DOMAIN r.originals THEN r.originals[k] ELSE <<>>)]
             ids == IdentitiesIn(merged, "id")
             spaces == IF o.dataLane THEN {} ELSE o.spaces
             alternates == [f \in spaces |-> SpaceOf(IdentitiesIn(merged, f))]
  <1>1. fresh = LookupOf(merged, o.nameField, o.dataLane, spaces)
    BY DEF CompileLookup, RenderTransformLookup
  <1>2. \A w : HasFailed(Failed(w))
    BY DEF HasFailed, Failed
  <1>3. fresh = LookupRecord(merged, SpaceOf(ids), alternates, o.nameField)
    BY <1>1, <1>2 DEF LookupOf
  <1> HIDE DEF alternates, ids, merged, fresh
  <1>4. /\ "idByKey" \in DOMAIN fresh /\ "none" \notin DOMAIN fresh
        /\ fresh.idByKey = ids /\ fresh.keyById = KeysOf(ids)
    BY <1>3 DEF LookupRecord, SpaceOf
  <1>5. fresh \in CompiledLookups(t)
    BY <1>4 DEF CompiledLookups, fresh
  <1>6. ids # Null /\ \A k \in DOMAIN ids : ids[k] # ""
    <2>1. fresh.idByKey # Null /\ "" \notin Range(fresh.idByKey)
      BY <1>5, ReferenceAssumption
    <2> QED
      BY <1>4, <2>1 DEF Range
  <1>7. DOMAIN ids \subseteq Range(NameOrder)
    <2>1. DOMAIN r.items \subseteq Range(NameOrder)
      BY ReferenceAssumption
    <2> QED
      BY <2>1 DEF IdentitiesIn, ids, merged
  <1>8. DOMAIN Mapped(ids) = DOMAIN ids
    BY <1>6 DEF Mapped
  <1>9. ASSUME NEW x \in Range(Mapped(KeysOf(ids))) PROVE x \in DOMAIN ids
    <2>1. CASE KeysOf(ids) = Null
      BY <1>9, <2>1 DEF Mapped, Range
    <2>2. CASE KeysOf(ids) # Null
      <3>1. PICK i \in Range(ids) : x = LastOf({k \in DOMAIN ids : ids[k] = i})
        BY <1>9, <2>2 DEF Mapped, Range, KeysOf
      <3>2. {k \in DOMAIN ids : ids[k] = i} # {}
        BY <3>1 DEF Range
      <3>3. x \in {k \in DOMAIN ids : ids[k] = i}
        BY <1>7, <3>1, <3>2, LastOfIsMember
      <3> QED
        BY <3>3
    <2> QED
      BY <2>1, <2>2
  <1>10. /\ ParseLookupSidecar(fresh).idByKey = Mapped(ids)
         /\ ParseLookupSidecar(fresh).keyById = Mapped(KeysOf(ids))
    BY <1>4, <1>6 DEF ParseLookupSidecar
  <1> QED
    BY <1>4, <1>5, <1>8, <1>9, <1>10 DEF fresh

LEMMA KnownLookupsAreSound ==
  ASSUME NEW l \in KnownLookups
  PROVE  /\ Whole(l) # Null /\ ParseLookupSidecar(l) # Null /\ ~ IsTorn(Whole(l))
         /\ Range(ParseLookupSidecar(l).keyById) \subseteq DOMAIN ParseLookupSidecar(l).idByKey
  <1>1. Whole(l) # Null /\ ParseLookupSidecar(l) # Null /\ ~ IsTorn(Whole(l))
    BY ReferenceAssumption DEF IsTorn, Whole
  <1>2. CASE \E t \in DOMAIN LaneTypes : l \in CompiledLookups(t)
    <2>1. PICK t, r : t \in DOMAIN LaneTypes /\ r \in Fetched(t) /\
            l = CompileLookup(LaneTypes[t], r) /\ "idByKey" \in DOMAIN l
      BY <1>2 DEF CompiledLookups
    <2>2. LaneTypes[t].nameField # Null
      BY <2>1 DEF CompileLookup
    <2>3. ~ HasFailed(l)
      <3>1. l = LookupOf([k \in DOMAIN r.items |-> r.items[k] @@ (IF k \in DOMAIN r.originals THEN r.originals[k] ELSE <<>>)],
                         LaneTypes[t].nameField, LaneTypes[t].dataLane,
                         IF LaneTypes[t].dataLane THEN {} ELSE LaneTypes[t].spaces)
        BY <2>1, <2>2 DEF CompileLookup, RenderTransformLookup
      <3>2. \A w : "idByKey" \notin DOMAIN Failed(w)
        BY DEF Failed
      <3>3. \A m, c, a, n : ~ HasFailed(LookupRecord(m, c, a, n))
        BY DEF LookupRecord, HasFailed
      <3> QED
        BY <2>1, <3>1, <3>2, <3>3 DEF LookupOf
    <2> QED
      BY <1>1, <2>1, <2>2, <2>3, FreshLookup
  <1>3. CASE \E files \in LaneTrees : l \in SidecarsIn(files)
    <2>1. PICK files : files \in LaneTrees /\ l \in SidecarsIn(files)
      BY <1>3
    <2>2. Range(ParseLookupSidecar(l).keyById) \subseteq DOMAIN ParseLookupSidecar(l).idByKey
      BY <2>1, ReferenceAssumption
    <2> QED
      BY <1>1, <2>2
  <1>4. (\E t \in DOMAIN LaneTypes : l \in CompiledLookups(t)) \/ \E files \in LaneTrees : l \in SidecarsIn(files)
    BY DEF KnownLookups
  <1> QED
    BY <1>2, <1>3, <1>4

\* The sidecars of the tree, and the keys of a type its references name.
IsSidecar(d) == d = Null \/ IsTorn(d) \/ \E l \in KnownLookups : d = Whole(l)
SidecarsKnown == \A t \in DOMAIN tree : IsSidecar(tree[t].lookup) /\ IsSidecar(tree[t].oldLookup)
NamedKeys(type) ==
    {v[3] : v \in {w \in UNION {TokensOf(tree[t].json[2]) : t \in {u \in DOMAIN tree : tree[u].json # Null}} :
                      w[4] = "id" /\ w[2] = type}}

\* What a batch is about to write resolves, and what it does to the sidecar leaves every
\* reference to the type its key: the new sidecar has it, or nobody refers to the type.
ConfigPending == \A v \in TokensOf(lane.config) : v[4] = "id" => v[2] # LaneType /\ TokenResolves(tree, v)
LookupPending ==
    /\ "lookup" \in Changed(lane.changes) =>
          \/ Leaves(lane.changes, "lookup", Now("lookup"), Null) /\ NamedKeys(LaneType) = {}
          \/ \E l \in KnownLookups : /\ Leaves(lane.changes, "lookup", Now("lookup"), Whole(l))
                                     /\ NamedKeys(LaneType) \subseteq DOMAIN ParseLookupSidecar(l).idByKey
    /\ "oldLookup" \in Changed(lane.changes) =>
          /\ Leaves(lane.changes, "oldLookup", Now("oldLookup"), Null)
          /\ Precedes(lane.changes, "lookup", "oldLookup")
          /\ \/ "lookup" \in Changed(lane.changes) \/ Now("lookup") # Null \/ NamedKeys(LaneType) = {}
JsonPending ==
    "json" \in Changed(lane.changes) =>
        Leaves(lane.changes, "json", Now("json"), Null) \/ Leaves(lane.changes, "json", Now("json"), Whole(lane.config))
ReferencesPending == LaneAt("publish") => ConfigPending /\ LookupPending /\ JsonPending
ReferenceInv == LaneInv /\ SidecarsKnown /\ TokensResolve /\ ReferencesPending

LEMMA NamedByToken ==
  ASSUME NEW type
  PROVE  /\ \A t \in DOMAIN tree : tree[t].json # Null =>
               \A v \in TokensOf(tree[t].json[2]) : v[4] = "id" /\ v[2] = type => v[3] \in NamedKeys(type)
         /\ \A k \in NamedKeys(type) : \E t \in DOMAIN tree : tree[t].json # Null /\
               \E v \in TokensOf(tree[t].json[2]) : v[4] = "id" /\ v[2] = type /\ v[3] = k
  <1> DEFINE A == UNION {TokensOf(tree[t].json[2]) : t \in {u \in DOMAIN tree : tree[u].json # Null}}
  <1>1. \A v : v \in A <=> \E t \in DOMAIN tree : tree[t].json # Null /\ v \in TokensOf(tree[t].json[2])
    OBVIOUS
  <1> HIDE DEF A
  <1>2. NamedKeys(type) = {v[3] : v \in {w \in A : w[4] = "id" /\ w[2] = type}}
    BY DEF NamedKeys, A
  <1> QED
    BY <1>1, <1>2

\* What reading a known sidecar gives.
LEMMA SidecarRead ==
  ASSUME NEW files, NEW type, type \in DOMAIN files, IsSidecar(files[type].lookup), IsSidecar(files[type].oldLookup)
  PROVE  LET read == ResolveLookup(files, type)
         IN  \/ HasFailed(read)
             \/ read = [lookup |-> Null]
             \/ \E l \in KnownLookups : read = [lookup |-> ParseLookupSidecar(l)]
  <1> DEFINE kept == IF files[type].lookup # Null THEN files[type].lookup ELSE files[type].oldLookup
  <1>1. IsSidecar(kept)
    OBVIOUS
  <1>2. ResolveLookup(files, type) = IF kept = Null THEN [lookup |-> Null]
                                     ELSE IF IsTorn(kept) THEN Failed("lookup") ELSE [lookup |-> ParseLookupSidecar(kept[2])]
    BY DEF ResolveLookup
  <1> HIDE DEF kept
  <1>3. CASE \E l \in KnownLookups : kept = Whole(l)
    <2>1. PICK l \in KnownLookups : kept = Whole(l)
      BY <1>3
    <2>2. kept # Null /\ ~ IsTorn(kept) /\ kept[2] = l
      BY <2>1, KnownLookupsAreSound DEF Whole
    <2> QED
      BY <1>2, <2>2
  <1>4. HasFailed(Failed("lookup"))
    BY DEF HasFailed, Failed
  <1> QED
    BY <1>1, <1>2, <1>3, <1>4 DEF IsSidecar

LEMMA UnknownReferent ==
  ASSUME NEW files, NEW type, type \notin DOMAIN files
  PROVE  ResolveLookup(files, type) = [lookup |-> Null]
  BY DEF ResolveLookup

\* The key maps of a compilation are made of known sidecars.
LEMMA MapsAreKnown ==
  ASSUME SidecarsKnown, NEW references, ~ HasFailed(LookupKeyMaps(tree, references))
  PROVE  LET maps == LookupKeyMaps(tree, references).maps
         IN  /\ maps \in KnownMaps(references)
             /\ \A f \in DOMAIN references : \A k :
                   references[f].space = "id" /\ maps[f] # Null /\ k \in Range(maps[f]) =>
                      LET read == ResolveLookup(tree, references[f].referent)
                      IN  read.lookup # Null /\ k \in DOMAIN read.lookup.idByKey
  <1> DEFINE resolved(f) == ResolveLookup(tree, references[f].referent)
             maps == [f \in DOMAIN references |-> LookupKeyMap(resolved(f).lookup, references[f].space)]
  <1>1. /\ \A f \in DOMAIN references : ~ HasFailed(resolved(f))
        /\ LookupKeyMaps(tree, references).maps = maps
    BY DEF LookupKeyMaps, HasFailed, Failed
  <1>2. ASSUME NEW f \in DOMAIN references
        PROVE  \/ resolved(f) = [lookup |-> Null]
               \/ \E l \in KnownLookups : resolved(f) = [lookup |-> ParseLookupSidecar(l)]
    <2>1. CASE references[f].referent \in DOMAIN tree
      BY <1>1, <2>1, SidecarRead DEF SidecarsKnown
    <2>2. CASE references[f].referent \notin DOMAIN tree
      BY <2>2, UnknownReferent
    <2> QED
      BY <2>1, <2>2
  <1> HIDE DEF resolved
  <1>3. ASSUME NEW f \in DOMAIN references
        PROVE  LookupKeyMap(resolved(f).lookup, references[f].space)
                  \in {Null} \cup {LookupKeyMap(ParseLookupSidecar(l), references[g].space) :
                                     l \in KnownLookups, g \in DOMAIN references}
    <2>1. CASE resolved(f) = [lookup |-> Null]
      BY <2>1 DEF LookupKeyMap
    <2>2. CASE \E l \in KnownLookups : resolved(f) = [lookup |-> ParseLookupSidecar(l)]
      BY <2>2
    <2> QED
      BY <1>2, <2>1, <2>2
  <1>4. maps \in KnownMaps(references)
    BY <1>3 DEF KnownMaps
  <1>5. ASSUME NEW f \in DOMAIN references, NEW k, references[f].space = "id", maps[f] # Null, k \in Range(maps[f])
        PROVE  resolved(f).lookup # Null /\ k \in DOMAIN resolved(f).lookup.idByKey
    <2>1. CASE resolved(f) = [lookup |-> Null]
      BY <1>5, <2>1 DEF LookupKeyMap
    <2>2. CASE \E l \in KnownLookups : resolved(f) = [lookup |-> ParseLookupSidecar(l)]
      <3>1. PICK l \in KnownLookups : resolved(f) = [lookup |-> ParseLookupSidecar(l)]
        BY <2>2
      <3>2. maps[f] = ParseLookupSidecar(l).keyById /\ ParseLookupSidecar(l) # Null
        BY <1>5, <3>1, KnownLookupsAreSound DEF LookupKeyMap
      <3> QED
        BY <1>5, <3>1, <3>2, KnownLookupsAreSound
    <2> QED
      BY <1>2, <2>1, <2>2
  <1> QED
    BY <1>1, <1>4, <1>5 DEF resolved

\* A compilation that is not refused keeps every reference to its type.
LEMMA NothingStranded ==
  ASSUME SidecarsKnown, TokensResolve, NEW type, NEW items, NEW fresh, "none" \notin DOMAIN fresh,
         ~ Strands(tree, type, items, fresh)
  PROVE  NamedKeys(type) \subseteq DOMAIN fresh.idByKey
  <1> DEFINE committed == ResolveLookup(tree, type)
             dropped == IF committed.lookup = Null THEN {} ELSE DOMAIN committed.lookup.idByKey \ DOMAIN fresh.idByKey
  <1>1. /\ ~ HasFailed(committed)
        /\ \A t \in DOMAIN tree : \A v \in ConfigTokens(tree, t) : ~ (v[2] = type /\ v[3] \in dropped)
    BY DEF Strands, AssertNoLookupKeyStranding
  <1> SUFFICES ASSUME NEW k \in NamedKeys(type) PROVE k \in DOMAIN fresh.idByKey
    OBVIOUS
  <1>2. PICK t \in DOMAIN tree : tree[t].json # Null /\
               \E v \in TokensOf(tree[t].json[2]) : v[4] = "id" /\ v[2] = type /\ v[3] = k
    BY NamedByToken
  <1>3. PICK v \in TokensOf(tree[t].json[2]) : v[4] = "id" /\ v[2] = type /\ v[3] = k
    BY <1>2
  <1>4. v \in ConfigTokens(tree, t)
    BY <1>2 DEF ConfigTokens
  <1>5. TokenResolves(tree, v)
    BY <1>2, <1>3 DEF TokensResolve, TokensResolveIn
  <1>6. committed.lookup # Null /\ k \in DOMAIN committed.lookup.idByKey
    BY <1>1, <1>3, <1>5 DEF TokenResolves
  <1> QED
    BY <1>1, <1>3, <1>4, <1>6

LEMMA NoDependentsNoKeys ==
  ASSUME NEW type, TokenDependents(tree, type) = {}
  PROVE  NamedKeys(type) = {}
  <1> SUFFICES ASSUME NEW k \in NamedKeys(type) PROVE FALSE
    OBVIOUS
  <1>1. PICK t \in DOMAIN tree : tree[t].json # Null /\
               \E v \in TokensOf(tree[t].json[2]) : v[4] = "id" /\ v[2] = type /\ v[3] = k
    BY NamedByToken
  <1>2. \E v \in ConfigTokens(tree, t) : v[2] = type
    BY <1>1 DEF ConfigTokens
  <1> QED
    BY <1>2 DEF TokenDependents

\* A token that was made takes its key from the map of a reference to another type.
LEMMA SubstitutedTokens ==
  ASSUME NEW t, t \in DOMAIN LaneTypes, NEW r, r \in Fetched(t), NEW o, o = LaneTypes[t],
         NEW m, m \in KnownMaps(o.context.references),
         NEW v, v \in TokensOf(WithTokens(r.items, t, o.context, m)), v[4] = "id"
  PROVE  \E f \in DOMAIN m : /\ o.context.references[f].referent = v[2] /\ v[2] # t
                             /\ o.context.references[f].space = "id"
                             /\ m[f] # Null /\ v[3] \in Range(m[f])
  BY ReferenceAssumption

LEMMA CompiledReferences ==
  ASSUME ReferenceInv, CompileLane, ~ TypeFails
  PROVE  ReferencesPending'
  <1> DEFINE o == LaneOpts
             r == lane.result
             compiled == IF LaneOpts.derived THEN [config |-> lane.result.items]
                         ELSE CompileTransformArtifacts(tree, LaneType, LaneOpts, lane.result)
             changes == IF LaneOpts.derived THEN WriteDerivedTransformArtifact(LaneOpts, compiled.config)
                        ELSE PublishCompiledTransformArtifacts(tree, LaneType, LaneOpts, compiled)
             maps == LookupKeyMaps(tree, o.context.references)
  <1>1. /\ LaneAt("compile") /\ AtType /\ tree' = tree /\ DOMAIN lane = DOMAIN IdleLane
        /\ Projects(r) /\ ~ HasFailed(compiled) /\ PublishNext(compiled)
    BY DEF CompileLane, MayCompile, AtType, LaneAt, ReferenceInv, LaneInv, LaneShapes
  <1>2. /\ LaneType \in DOMAIN LaneTypes /\ r \in Fetched(LaneType) /\ o = LaneTypes[LaneType]
    BY <1>1, AtTypeFacts DEF Fetched, Projects, ReferenceInv, LaneInv, LaneShapes, LaneOpts
  <1>3. lane' = [lane EXCEPT !.pc = "publish", !.config = compiled.config, !.changes = changes]
    BY <1>1 DEF PublishNext
  <1> HIDE DEF compiled, changes, o, r, maps
  <1>4. lane'.config = compiled.config /\ lane'.changes = changes /\ lane'.at = lane.at /\ LaneType' = LaneType
    BY <1>1, <1>3 DEF IdleLane, LaneType
  <1>5. \A f : Now(f)' = Now(f)
    BY <1>1, <1>4 DEF Now
  <1>6. NamedKeys(LaneType)' = NamedKeys(LaneType)
    BY <1>1, <1>4 DEF NamedKeys
  <1>7. TokensOf(r.items) = {}
    BY <1>2, ReferenceAssumption
  <1>8. ~ o.derived => compiled = CompileTransformArtifacts(tree, LaneType, o, r)
    BY DEF compiled, o, r
  <1>9. ASSUME NEW v \in TokensOf(compiled.config), v[4] = "id"
        PROVE  v[2] # LaneType /\ TokenResolves(tree, v)
    <2>1. CASE o.derived
      BY <1>7, <1>9, <2>1 DEF compiled, o, r
    <2>2. CASE ~ o.derived /\ (o.dataLane \/ o.hcl)
      <3>1. compiled.config = r.items
        <4>1. o.dataLane => compiled.config = r.items
          BY <1>1, <1>8, <2>2, CompiledShape
        <4>2. ~ o.dataLane => compiled.config = IF o.hcl THEN r.items ELSE WithTokens(r.items, LaneType, o.context, maps.maps)
          BY <1>1, <1>8, <2>2, CompiledShape DEF maps
        <4> QED
          BY <2>2, <4>1, <4>2
      <3> QED
        BY <1>7, <1>9, <3>1
    <2>3. CASE ~ o.derived /\ ~ o.dataLane /\ ~ o.hcl
      <3>1. ~ HasFailed(maps) /\ compiled.config = WithTokens(r.items, LaneType, o.context, maps.maps)
        BY <1>1, <1>8, <2>3, CompiledShape DEF maps
      <3>2. /\ maps.maps \in KnownMaps(o.context.references)
            /\ \A f \in DOMAIN o.context.references : \A k :
                  o.context.references[f].space = "id" /\ maps.maps[f] # Null /\ k \in Range(maps.maps[f]) =>
                      LET read == ResolveLookup(tree, o.context.references[f].referent)
                      IN  read.lookup # Null /\ k \in DOMAIN read.lookup.idByKey
        BY <3>1, MapsAreKnown DEF ReferenceInv, maps
      <3>3. PICK f \in DOMAIN maps.maps :
                /\ o.context.references[f].referent = v[2] /\ v[2] # LaneType
                /\ o.context.references[f].space = "id"
                /\ maps.maps[f] # Null /\ v[3] \in Range(maps.maps[f])
        <4>1. v \in TokensOf(WithTokens(r.items, LaneType, o.context, maps.maps))
          BY <1>9, <3>1
        <4> QED
          BY <1>2, <1>9, <3>2, <4>1, SubstitutedTokens
      <3>4. f \in DOMAIN o.context.references
        BY <3>2, <3>3 DEF KnownMaps
      <3> QED
        BY <3>2, <3>3, <3>4 DEF TokenResolves
    <2> QED
      BY <2>1, <2>2, <2>3
  <1>10. ConfigPending'
    BY <1>1, <1>4, <1>9 DEF ConfigPending
  <1>11. /\ "lookup" \in Changed(changes) =>
              \/ Leaves(changes, "lookup", Now("lookup"), Null) /\ NamedKeys(LaneType) = {}
              \/ \E l \in KnownLookups : /\ Leaves(changes, "lookup", Now("lookup"), Whole(l))
                                         /\ NamedKeys(LaneType) \subseteq DOMAIN ParseLookupSidecar(l).idByKey
         /\ "oldLookup" \in Changed(changes) =>
              /\ Leaves(changes, "oldLookup", Now("oldLookup"), Null)
              /\ Precedes(changes, "lookup", "oldLookup") /\ "lookup" \in Changed(changes)
    <2>1. CASE o.derived
      <3>1. IsPart(changes, {StaleConfigFile(o), ConfigFile(o)})
        BY <2>1, DerivedChanges DEF changes, o
      <3> QED
        BY <3>1, ConfigNamesDiffer DEF IsPart, ConfigNames
    <2>2. CASE ~ o.derived
      <3> DEFINE L == LookupChanges(o, compiled)
      <3>1. changes = PublishCompiledTransformArtifacts(tree, LaneType, o, compiled)
        BY <2>2 DEF changes, o
      <3>2. /\ compiled.lookup = CompileLookup(o, r) /\ ~ HasFailed(compiled.lookup)
            /\ ~ Strands(tree, LaneType, compiled.config, compiled.lookup)
        BY <1>1, <1>8, <2>2, CompiledShape
      <3>3. /\ Precedes(changes, "lookup", "oldLookup")
            /\ \A g \in {"lookup", "oldLookup"} : \A d : Sets(L, g, d) => Sets(changes, g, d)
            /\ Changed(changes) \cap {"lookup", "oldLookup"} = Changed(L)
        <4>1. CASE o.dataLane
          BY <3>1, <4>1, DataReferentChanges
        <4>2. CASE ~ o.dataLane
          BY <3>1, <4>2, ResourceChanges
        <4> QED
          BY <4>1, <4>2
      <3> HIDE DEF L
      <3>4. \/ Changed(L) = {}
            \/ /\ Changed(L) = {"lookup", "oldLookup"} /\ Sets(L, "oldLookup", Null)
               /\ \/ "none" \notin DOMAIN compiled.lookup /\ Sets(L, "lookup", Whole(compiled.lookup))
                  \/ "none" \in DOMAIN compiled.lookup /\ o.removeLookup /\ Sets(L, "lookup", Null)
        BY LookupPart DEF L, IsPart
      <3>5. CASE Changed(L) = {}
        BY <3>3, <3>5
      <3>6. ASSUME Changed(L) = {"lookup", "oldLookup"}, Sets(L, "oldLookup", Null)
            PROVE  /\ Leaves(changes, "oldLookup", Now("oldLookup"), Null)
                   /\ Precedes(changes, "lookup", "oldLookup") /\ "lookup" \in Changed(changes)
        BY <3>3, <3>6 DEF Sets
      <3>7. CASE "none" \notin DOMAIN compiled.lookup /\ Sets(L, "lookup", Whole(compiled.lookup))
        <4>1. Leaves(changes, "lookup", Now("lookup"), Whole(compiled.lookup))
          BY <3>3, <3>7 DEF Sets
        <4>2. NamedKeys(LaneType) \subseteq DOMAIN compiled.lookup.idByKey
          BY <3>2, <3>7, NothingStranded DEF ReferenceInv
        <4>3. o.nameField # Null
          BY <3>2, <3>7 DEF CompileLookup
        <4>4. /\ compiled.lookup \in CompiledLookups(LaneType)
              /\ DOMAIN ParseLookupSidecar(compiled.lookup).idByKey = DOMAIN compiled.lookup.idByKey
          BY <1>2, <3>2, <4>3, FreshLookup
        <4>5. compiled.lookup \in KnownLookups
          BY <1>2, <4>4 DEF KnownLookups
        <4> QED
          BY <3>4, <3>5, <3>6, <4>1, <4>2, <4>4, <4>5
      <3>8. CASE "none" \in DOMAIN compiled.lookup /\ o.removeLookup /\ Sets(L, "lookup", Null)
        <4>1. Leaves(changes, "lookup", Now("lookup"), Null)
          BY <3>3, <3>8 DEF Sets
        <4>2. o.nameField = Null
          BY <1>2, <3>2, <3>8, FreshLookup
        <4>3. ~ o.dataLane
          BY <1>2, <4>2, ReferenceAssumption
        <4>4. TokenDependents(tree, LaneType) = {}
          BY <1>1, <1>8, <2>2, <3>8, <4>3, CompiledShape
        <4>5. NamedKeys(LaneType) = {}
          BY <4>4, NoDependentsNoKeys
        <4> QED
          BY <3>4, <3>5, <3>6, <4>1, <4>5
      <3> QED
        BY <3>4, <3>5, <3>7, <3>8
    <2> QED
      BY <2>1, <2>2
  <1>12. LookupPending'
    BY <1>4, <1>5, <1>6, <1>11 DEF LookupPending
  <1>13. "json" \in Changed(changes) =>
            Leaves(changes, "json", Now("json"), Null) \/ Leaves(changes, "json", Now("json"), Whole(compiled.config))
    <2>1. CASE o.derived
      <3>1. /\ IsPart(changes, {StaleConfigFile(o), ConfigFile(o)})
            /\ Sets(changes, StaleConfigFile(o), Null) /\ Sets(changes, ConfigFile(o), Whole(compiled.config))
        BY <2>1, DerivedChanges DEF changes, o
      <3> QED
        BY <3>1 DEF IsPart, Sets
    <2>2. CASE ~ o.derived /\ o.dataLane
      <3>1. Sets(changes, "json", Null)
        BY <2>2, DataReferentChanges DEF changes, o
      <3> QED
        BY <3>1 DEF Sets
    <2>3. CASE ~ o.derived /\ ~ o.dataLane
      <3>1. Sets(changes, StaleConfigFile(o), Null) /\ Sets(changes, ConfigFile(o), Whole(compiled.config))
        BY <2>3, ResourceChanges DEF changes, o
      <3>2. "json" \in {ConfigFile(o), StaleConfigFile(o)}
        BY <2>3, ConfigNamesDiffer
      <3> QED
        BY <3>1, <3>2 DEF Sets
    <2> QED
      BY <2>1, <2>2, <2>3
  <1>14. JsonPending'
    BY <1>4, <1>5, <1>13 DEF JsonPending
  <1> QED
    BY <1>10, <1>12, <1>14 DEF ReferencesPending

LEMMA ResolvesByLookup ==
  ASSUME NEW files, NEW v, NEW w, ResolveLookup(files, v[2]) = ResolveLookup(w, v[2])
  PROVE  TokenResolves(files, v) <=> TokenResolves(w, v)
  BY DEF TokenResolves

\* One file of the type at hand is written: what may be written so that references resolve.
LEMMA WrittenFile ==
  ASSUME ReferenceInv, AtType, NEW f \in LaneFiles, NEW c, tree' = [tree EXCEPT ![LaneType][f] = c],
         f = "json" => c = Null \/ \A v \in TokensOf(c[2]) : v[4] = "id" => v[2] # LaneType /\ TokenResolves(tree, v),
         f = "lookup" => \/ c # Null /\ IsTorn(c)
                         \/ c = Null /\ NamedKeys(LaneType) = {}
                         \/ \E l \in KnownLookups : /\ c = Whole(l)
                                                    /\ NamedKeys(LaneType) \subseteq DOMAIN ParseLookupSidecar(l).idByKey,
         f = "oldLookup" => c = Null /\ (Now("lookup") # Null \/ NamedKeys(LaneType) = {})
  PROVE  /\ SidecarsKnown' /\ TokensResolve'
         /\ \A v : v[2] # LaneType => (TokenResolves(tree', v) <=> TokenResolves(tree, v))
         /\ \A t \in DOMAIN tree : tree'[t].json # Null =>
               \A v \in TokensOf(tree'[t].json[2]) : v[4] = "id" /\ v[2] = LaneType => v[3] \in NamedKeys(LaneType)
  <1>0. LaneType \in DOMAIN tree /\ LaneInv
    BY AtTypeFacts DEF ReferenceInv, LaneInv, LaneShapes
  <1>1. /\ DOMAIN tree' = DOMAIN tree
        /\ \A u \in DOMAIN tree, g \in LaneFiles : tree'[u][g] = IF u = LaneType /\ g = f THEN c ELSE tree[u][g]
    BY <1>0 DEF LaneInv, LaneShapes
  <1>2. "json" \in LaneFiles /\ "lookup" \in LaneFiles /\ "oldLookup" \in LaneFiles
    BY DEF LaneFiles
  <1>3. SidecarsKnown'
    <2> SUFFICES ASSUME NEW t \in DOMAIN tree, NEW g \in {"lookup", "oldLookup"} PROVE IsSidecar(tree'[t][g])
      BY <1>1 DEF SidecarsKnown
    <2>1. CASE t = LaneType /\ g = f
      BY <1>1, <1>2, <2>1 DEF IsSidecar
    <2>2. CASE ~ (t = LaneType /\ g = f)
      BY <1>1, <1>2, <2>2 DEF ReferenceInv, SidecarsKnown
    <2> QED
      BY <2>1, <2>2
  <1>4. ASSUME NEW type, type # LaneType \/ f \notin {"lookup", "oldLookup"}
        PROVE  ResolveLookup(tree', type) = ResolveLookup(tree, type)
    <2>1. type \in DOMAIN tree => tree'[type].lookup = tree[type].lookup /\ tree'[type].oldLookup = tree[type].oldLookup
      BY <1>1, <1>2, <1>4
    <2> QED
      BY <1>1, <2>1 DEF ResolveLookup
  <1>5. ASSUME NEW v, v[2] # LaneType PROVE TokenResolves(tree', v) <=> TokenResolves(tree, v)
    BY <1>4, <1>5, ResolvesByLookup
  <1>6. ASSUME NEW v, v[2] = LaneType, v[3] \in NamedKeys(LaneType), TokenResolves(tree, v) PROVE TokenResolves(tree', v)
    <2>1. CASE f \notin {"lookup", "oldLookup"}
      BY <1>4, <1>6, <2>1, ResolvesByLookup
    <2>2. CASE f = "lookup"
      <3>1. tree'[LaneType].lookup = c
        BY <1>0, <1>1, <1>2, <2>2
      <3>2. CASE c # Null /\ IsTorn(c)
        <4>1. ResolveLookup(tree', LaneType) = Failed("lookup")
          BY <1>0, <1>1, <3>1, <3>2 DEF ResolveLookup
        <4> QED
          BY <1>6, <4>1 DEF TokenResolves, HasFailed, Failed
      <3>3. CASE \E l \in KnownLookups : /\ c = Whole(l)
                                         /\ NamedKeys(LaneType) \subseteq DOMAIN ParseLookupSidecar(l).idByKey
        <4>1. PICK l \in KnownLookups : c = Whole(l) /\ NamedKeys(LaneType) \subseteq DOMAIN ParseLookupSidecar(l).idByKey
          BY <3>3
        <4>2. c # Null /\ ~ IsTorn(c) /\ c[2] = l /\ ParseLookupSidecar(l) # Null
          BY <4>1, KnownLookupsAreSound DEF Whole
        <4>3. ResolveLookup(tree', LaneType) = [lookup |-> ParseLookupSidecar(l)]
          BY <1>0, <1>1, <3>1, <4>2 DEF ResolveLookup
        <4> QED
          BY <1>6, <4>1, <4>2, <4>3 DEF TokenResolves
      <3> QED
        BY <1>6, <2>2, <3>2, <3>3
    <2>3. CASE f = "oldLookup"
      <3>1. tree'[LaneType].lookup = tree[LaneType].lookup /\ tree[LaneType].lookup # Null
        BY <1>0, <1>1, <1>2, <1>6, <2>3 DEF Now
      <3>2. ResolveLookup(tree', LaneType) = ResolveLookup(tree, LaneType)
        BY <1>1, <3>1 DEF ResolveLookup
      <3> QED
        BY <1>6, <3>2, ResolvesByLookup
    <2> QED
      BY <2>1, <2>2, <2>3
  <1>7. ASSUME NEW t \in DOMAIN tree, tree'[t].json # Null, NEW v \in TokensOf(tree'[t].json[2]), v[4] = "id"
        PROVE  /\ TokenResolves(tree', v)
               /\ v[2] = LaneType => v[3] \in NamedKeys(LaneType)
    <2>1. CASE t = LaneType /\ f = "json"
      <3>1. c # Null /\ v \in TokensOf(c[2])
        BY <1>1, <1>2, <1>7, <2>1
      <3> QED
        BY <1>5, <1>7, <2>1, <3>1
    <2>2. CASE ~ (t = LaneType /\ f = "json")
      <3>1. tree[t].json # Null /\ v \in TokensOf(tree[t].json[2])
        BY <1>1, <1>2, <1>7, <2>2
      <3>2. TokenResolves(tree, v)
        BY <1>7, <3>1 DEF ReferenceInv, TokensResolve, TokensResolveIn
      <3>3. v[2] = LaneType => v[3] \in NamedKeys(LaneType)
        BY <1>7, <3>1, NamedByToken
      <3> QED
        BY <1>5, <1>6, <3>2, <3>3
    <2> QED
      BY <2>1, <2>2
  <1>8. TokensResolve'
    BY <1>1, <1>7 DEF TokensResolve, TokensResolveIn
  <1> QED
    BY <1>3, <1>5, <1>7, <1>8

LEMMA ReferencesInit == LaneInit => ReferenceInv
  <1> SUFFICES ASSUME LaneInit PROVE ReferenceInv
    OBVIOUS
  <1>1. LaneInv /\ tree \in LaneTrees /\ lane.pc = "idle"
    BY LaneInitInv DEF LaneInit, IdleLane
  <1>2. TokensResolve
    BY <1>1, ReferenceAssumption DEF TokensResolve
  <1>3. SidecarsKnown
    <2> SUFFICES ASSUME NEW t \in DOMAIN tree, NEW f \in {"lookup", "oldLookup"} PROVE IsSidecar(tree[t][f])
      BY DEF SidecarsKnown
    <2>1. tree[t][f] = Null \/ IsTorn(tree[t][f]) \/ tree[t][f] = Whole(tree[t][f][2])
      <3>1. \A files \in LaneTrees : \A u \in DOMAIN files : \A g \in {"lookup", "oldLookup"} :
               files[u][g] = Null \/ IsTorn(files[u][g]) \/ files[u][g] = Whole(files[u][g][2])
        BY ReferenceAssumption, ZenonT(60)
      <3>2. \A u \in DOMAIN tree : \A g \in {"lookup", "oldLookup"} :
               tree[u][g] = Null \/ IsTorn(tree[u][g]) \/ tree[u][g] = Whole(tree[u][g][2])
        BY <1>1, <3>1
      <3> QED
        BY <3>2
    <2>2. tree[t][f] # Null /\ ~ IsTorn(tree[t][f]) => tree[t][f][2] \in SidecarsIn(tree)
      BY DEF SidecarsIn
    <2>3. \A l \in SidecarsIn(tree) : l \in KnownLookups
      BY <1>1 DEF KnownLookups
    <2> QED
      BY <2>1, <2>2, <2>3 DEF IsSidecar
  <1> QED
    BY <1>1, <1>2, <1>3 DEF ReferenceInv, ReferencesPending, LaneAt

\* No file that references or sidecars are read from is changed, and nothing is about to be.
LEMMA QuietKeeps ==
  ASSUME ReferenceInv, LaneInv', ~ LaneAt("publish")', DOMAIN tree' = DOMAIN tree,
         \A t \in DOMAIN tree, f \in {"json", "lookup", "oldLookup"} : tree'[t][f] = tree[t][f]
  PROVE  ReferenceInv'
  <1>1. SidecarsKnown'
    BY DEF ReferenceInv, SidecarsKnown
  <1>2. ASSUME NEW v PROVE ResolveLookup(tree', v[2]) = ResolveLookup(tree, v[2])
    BY DEF ResolveLookup
  <1>3. ASSUME NEW v PROVE TokenResolves(tree', v) <=> TokenResolves(tree, v)
    BY <1>2, ResolvesByLookup
  <1>4. TokensResolve'
    BY <1>3 DEF ReferenceInv, TokensResolve, TokensResolveIn
  <1> QED
    BY <1>1, <1>4 DEF ReferenceInv, ReferencesPending

LEMMA ChangeKeepsReferences ==
  ASSUME ReferenceInv, ChangeMade, LaneInv'
  PROVE  ReferenceInv'
  <1> DEFINE s == lane.changes
             head == Head(s)
             f == head.file
             c == head.content
             TokenKeys == NamedKeys(LaneType)
  <1>1. LaneAt("publish") /\ AtType /\ s # <<>> /\ DOMAIN lane = DOMAIN IdleLane /\ LaneInv
    BY DEF ChangeMade, AtType, LaneAt, ReferenceInv, LaneInv, LaneShapes
  <1>2. ConfigPending /\ LookupPending /\ JsonPending /\ IsChanges(s) /\ OneEach(s)
    BY <1>1 DEF ReferenceInv, ReferencesPending, LaneInv, LanePublishes
  <1>3. f \in LaneFiles /\ LaneType \in DOMAIN tree /\ f \notin Changed(Tail(s)) /\ Changed(s) = Changed(Tail(s)) \cup {f}
    BY <1>1, ChangeMadeFacts
  <1>4. \A now, d : Leaves(s, f, now, d) => c = d
    BY <1>1, <1>2, FirstContent
  <1>5. lane'.config = lane.config /\ lane'.changes = Tail(s) /\ LaneType' = LaneType /\ LaneAt("publish")'
    BY <1>1 DEF ChangeMade, IdleLane, LaneType, LaneAt
  <1>6. tree' = [tree EXCEPT ![LaneType][f] = c]
    BY DEF ChangeMade
  <1>7. \A g \in LaneFiles : tree'[LaneType][g] = IF f = g THEN c ELSE Now(g)
    BY <1>1, ChangeMadeFacts
  <1>8. \A g \in LaneFiles : \A d : Leaves(s, g, Now(g), d) => Leaves(Tail(s), g, tree'[LaneType][g], d)
    BY <1>1, <1>7, ChangeMadeFacts
  <1>9. "json" \in LaneFiles /\ "lookup" \in LaneFiles /\ "oldLookup" \in LaneFiles
    BY DEF LaneFiles
  <1> HIDE DEF s, head, f, c, TokenKeys
  <1>10. f = "json" => c = Null \/ \A v \in TokensOf(c[2]) : v[4] = "id" => v[2] # LaneType /\ TokenResolves(tree, v)
    <2> SUFFICES ASSUME f = "json", c # Null PROVE c[2] = lane.config
      BY <1>2 DEF ConfigPending
    <2>1. c = Whole(lane.config)
      BY <1>2, <1>3, <1>4 DEF JsonPending, s
    <2> QED
      BY <2>1 DEF Whole
  <1>11. f = "lookup" => \/ c = Null /\ TokenKeys = {}
                         \/ \E l \in KnownLookups : c = Whole(l) /\ TokenKeys \subseteq DOMAIN ParseLookupSidecar(l).idByKey
    BY <1>2, <1>3, <1>4 DEF LookupPending, s, TokenKeys
  <1>12. f = "oldLookup" => c = Null /\ (Now("lookup") # Null \/ TokenKeys = {})
    <2> SUFFICES ASSUME f = "oldLookup" PROVE c = Null /\ (Now("lookup") # Null \/ TokenKeys = {})
      OBVIOUS
    <2>1. /\ Leaves(s, "oldLookup", Now("oldLookup"), Null) /\ Precedes(s, "lookup", "oldLookup")
          /\ "lookup" \in Changed(s) \/ Now("lookup") # Null \/ TokenKeys = {}
      BY <1>2, <1>3 DEF LookupPending, s, TokenKeys
    <2>2. "lookup" \notin Changed(s)
      BY <1>1, <2>1, ChangeMadeFacts DEF s, f, head
    <2> QED
      BY <1>4, <2>1, <2>2
  <1>13. /\ SidecarsKnown' /\ TokensResolve'
         /\ \A v : v[2] # LaneType => (TokenResolves(tree', v) <=> TokenResolves(tree, v))
         /\ \A t \in DOMAIN tree : tree'[t].json # Null =>
               \A v \in TokensOf(tree'[t].json[2]) : v[4] = "id" /\ v[2] = LaneType => v[3] \in TokenKeys
    BY <1>1, <1>3, <1>6, <1>10, <1>11, <1>12, WrittenFile DEF TokenKeys
  <1>14. DOMAIN tree' = DOMAIN tree
    BY <1>1, ChangeMadeFacts DEF OthersKept
  <1>15. NamedKeys(LaneType)' \subseteq TokenKeys
    <2> SUFFICES ASSUME NEW k \in NamedKeys(LaneType)' PROVE k \in TokenKeys
      OBVIOUS
    <2>1. k \in UNION {{v[3] : v \in {w \in TokensOf(tree'[t].json[2]) : w[4] = "id" /\ w[2] = LaneType}} :
                          t \in {u \in DOMAIN tree : tree'[u].json # Null}}
      BY <1>5, <1>14 DEF NamedKeys
    <2> QED
      BY <1>13, <2>1
  <1>16. ConfigPending'
    BY <1>2, <1>5, <1>13 DEF ConfigPending
  <1>17. \A g : Now(g)' = tree'[LaneType][g]
    BY <1>5 DEF Now
  <1>18. JsonPending'
    BY <1>2, <1>3, <1>5, <1>8, <1>9, <1>17 DEF JsonPending, s
  <1>19. LookupPending'
    <2>1. ASSUME "lookup" \in Changed(Tail(s))
          PROVE  \/ Leaves(Tail(s), "lookup", tree'[LaneType]["lookup"], Null) /\ NamedKeys(LaneType)' = {}
                 \/ \E l \in KnownLookups : /\ Leaves(Tail(s), "lookup", tree'[LaneType]["lookup"], Whole(l))
                                            /\ NamedKeys(LaneType)' \subseteq DOMAIN ParseLookupSidecar(l).idByKey
      <3>1. \/ Leaves(s, "lookup", Now("lookup"), Null) /\ TokenKeys = {}
            \/ \E l \in KnownLookups : /\ Leaves(s, "lookup", Now("lookup"), Whole(l))
                                       /\ TokenKeys \subseteq DOMAIN ParseLookupSidecar(l).idByKey
        BY <1>2, <1>3, <2>1 DEF LookupPending, s, TokenKeys
      <3> QED
        BY <1>8, <1>9, <1>15, <3>1
    <2>2. ASSUME "oldLookup" \in Changed(Tail(s))
          PROVE  /\ Leaves(Tail(s), "oldLookup", tree'[LaneType]["oldLookup"], Null)
                 /\ Precedes(Tail(s), "lookup", "oldLookup")
                 /\ \/ "lookup" \in Changed(Tail(s)) \/ tree'[LaneType]["lookup"] # Null \/ NamedKeys(LaneType)' = {}
      <3>1. /\ Leaves(s, "oldLookup", Now("oldLookup"), Null) /\ Precedes(s, "lookup", "oldLookup")
            /\ "lookup" \in Changed(s) \/ Now("lookup") # Null \/ TokenKeys = {}
        BY <1>2, <1>3, <2>2 DEF LookupPending, s, TokenKeys
      <3>2. Precedes(Tail(s), "lookup", "oldLookup")
        BY <1>1, <3>1, ChangeMadeFacts DEF s
      <3>3. "lookup" \in Changed(Tail(s)) \/ tree'[LaneType]["lookup"] # Null \/ TokenKeys = {}
        <4>1. CASE f = "lookup"
          <5>1. c # Null \/ TokenKeys = {}
            BY <1>11, <4>1, KnownLookupsAreSound
          <5> QED
            BY <1>7, <1>9, <4>1, <5>1
        <4>2. CASE f # "lookup"
          BY <1>3, <1>7, <1>9, <3>1, <4>2
        <4> QED
          BY <4>1, <4>2
      <3> QED
        BY <1>8, <1>9, <1>15, <3>1, <3>2, <3>3
    <2> QED
      BY <1>5, <1>17, <2>1, <2>2 DEF LookupPending
  <1> QED
    BY <1>13, <1>16, <1>18, <1>19 DEF ReferenceInv, ReferencesPending

LEMMA CutKeepsReferences ==
  ASSUME ReferenceInv, LaneAt("publish"), CutShort, ~ LaneAt("publish")', LaneInv'
  PROVE  ReferenceInv'
  <1> DEFINE s == lane.changes
             f == Head(s).file
  <1>1. AtType /\ LaneInv /\ s # <<>>
    BY CutShortFacts DEF ReferenceInv
  <1>2. PICK left \in Remains(Head(s)) : tree' = [tree EXCEPT ![LaneType][f] = left]
    BY DEF CutShort
  <1>3. ASSUME Head(s).content # Null, NEW rest, left = Torn(rest),
               f \in {"json", "hcl", "data", "dataHcl"} => rest \in {<<>>, lane.config},
               f \notin {"json", "hcl", "data", "dataHcl", "imports"} => rest = <<>>
        PROVE  ReferenceInv'
    <2>1. ConfigPending /\ LookupPending /\ JsonPending /\ IsChanges(s) /\ OneEach(s) /\ Changed(s) \subseteq LaneFiles
      BY <1>1 DEF ReferenceInv, ReferencesPending, LaneInv, LanePublishes
    <2>2. f \in Changed(s) /\ f \in LaneFiles
      BY <1>1, <2>1, FirstChange
    <2>3. \A now, d : Leaves(s, f, now, d) => Head(s).content = d
      BY <1>1, <2>1, FirstContent
    <2> HIDE DEF s, f
    <2>4. f # "oldLookup"
      BY <1>3, <2>1, <2>2, <2>3 DEF LookupPending, s
    <2>5. f = "lookup" => Torn(rest) # Null /\ IsTorn(Torn(rest))
      BY <1>3, ReferenceAssumption DEF IsTorn, Torn
    <2>6. f = "json" => \A v \in TokensOf(Torn(rest)[2]) : v[4] = "id" => v[2] # LaneType /\ TokenResolves(tree, v)
      <3> SUFFICES ASSUME f = "json" PROVE \A v \in TokensOf(rest) : v[4] = "id" => v[2] # LaneType /\ TokenResolves(tree, v)
        BY DEF Torn
      <3>1. rest = <<>> \/ rest = lane.config
        BY <1>3
      <3> QED
        BY <2>1, <3>1, ReferenceAssumption DEF ConfigPending
    <2>7. SidecarsKnown' /\ TokensResolve'
      BY <1>1, <1>2, <1>3, <2>2, <2>4, <2>5, <2>6, WrittenFile
    <2> QED
      BY <2>7 DEF ReferenceInv, ReferencesPending
  <1> HIDE DEF s, f
  <1> QED
    BY <1>2, <1>3 DEF Remains, f

LEMMA ReferenceStepKeeps ==
  ASSUME ReferenceInv, [LaneNext]_lnvars
  PROVE  ReferenceInv'
  <1>1. LaneInv /\ LaneInv'
    BY LaneStepKeeps DEF ReferenceInv
  <1>2. CASE UNCHANGED <<tree, lane>>
    <2>1. ~ LaneAt("publish") => ReferenceInv'
      BY <1>1, <1>2, <2>1, QuietKeeps DEF LaneAt
    <2>2. LaneAt("publish") => ReferenceInv'
      BY <1>1, <1>2 DEF ReferenceInv, SidecarsKnown, TokensResolve, ReferencesPending, LaneAt, ConfigPending,
           LookupPending, JsonPending, Now, NamedKeys, LaneType
    <2> QED
      BY <2>1, <2>2
  <1>3. CASE UNCHANGED tree /\ ~ LaneAt("publish")'
    BY <1>1, <1>3, QuietKeeps
  <1>4. TypeFails => ~ LaneAt("publish")'
    BY <1>1 DEF TypeFails, NextType, LaneAt, LaneInv, LaneShapes, IdleLane
  <1>5. CASE CompileLane
    <2>1. UNCHANGED tree
      BY <1>5 DEF CompileLane
    <2>2. CASE ~ TypeFails
      BY <1>1, <1>5, <2>1, <2>2, CompiledReferences DEF ReferenceInv, SidecarsKnown, TokensResolve
    <2> QED
      BY <1>3, <1>4, <2>1, <2>2
  <1>6. CASE PublishChange
    <2>1. LaneAt("publish") /\ (ChangeMade \/ (TypeFails /\ (UNCHANGED tree \/ CutShort)))
      BY <1>6 DEF PublishChange, ChangeMade
    <2> QED
      BY <1>1, <1>3, <1>4, <2>1, ChangeKeepsReferences, CutKeepsReferences
  <1>7. CASE \E t \in DOMAIN LaneTypes : ResolveMoves(t)
    <2>1. PICK t \in DOMAIN LaneTypes : ResolveMoves(t)
      BY <1>7
    <2>2. /\ DOMAIN tree' = DOMAIN tree /\ ~ LaneAt("publish")'
          /\ \A u \in DOMAIN tree, f \in {"json", "lookup", "oldLookup"} : tree'[u][f] = tree[u][f]
      BY <1>1, <2>1 DEF ResolveMoves, LaneInv, LaneShapes, LaneAt
    <2> QED
      BY <1>1, <2>2, QuietKeeps
  <1>8. CASE KillLane
    <2>1. LaneAt("publish") /\ ~ LaneAt("publish")' /\ (UNCHANGED tree \/ CutShort)
      BY <1>8 DEF KillLane, LaneAt, IdleLane
    <2> QED
      BY <1>1, <1>3, <2>1, CutKeepsReferences
  <1>9. ASSUME ReadLaneInput \/ AdoptGate \/ LoadAdopted \/ PublishedLane \/ EndLane
        PROVE  UNCHANGED tree /\ ~ LaneAt("publish")'
    <2>1. DOMAIN lane = DOMAIN IdleLane
      BY <1>1 DEF LaneInv, LaneShapes
    <2>2. CASE ReadLaneInput
      <3> DEFINE todo == {i \in DOMAIN LaneOrder : i > lane.at /\ LaneOrder[i] \in lane.selected}
                 at == CHOOSE i \in todo : \A j \in todo : i <= j
      <3>1. CASE todo = {}
        BY <2>1, <2>2, <3>1 DEF ReadLaneInput, LaneAt, IdleLane
      <3>2. CASE todo # {}
        <4>1. /\ UNCHANGED tree /\ lane.pc = "next"
              /\ \E r \in PullResults[LaneOrder[at]] :
                    lane' = CASE r.status = "absent" -> [lane EXCEPT !.at = at, !.skipped = @ \cup {LaneOrder[at]}]
                              [] r.status = "unreadable" /\ lane.kind = "adopt" ->
                                     [lane EXCEPT !.at = at, !.failed = @ \cup {LaneOrder[at]}]
                              [] r.status = "unreadable" -> [lane EXCEPT !.at = at, !.pc = "aborted"]
                              [] OTHER -> [lane EXCEPT !.at = at, !.result = r,
                                                       !.pc = IF lane.kind = "adopt" THEN "gate" ELSE "compile"]
          BY <2>2, <3>2 DEF ReadLaneInput, LaneAt
        <4>2. PICK r \in PullResults[LaneOrder[at]] :
                    lane' = CASE r.status = "absent" -> [lane EXCEPT !.at = at, !.skipped = @ \cup {LaneOrder[at]}]
                              [] r.status = "unreadable" /\ lane.kind = "adopt" ->
                                     [lane EXCEPT !.at = at, !.failed = @ \cup {LaneOrder[at]}]
                              [] r.status = "unreadable" -> [lane EXCEPT !.at = at, !.pc = "aborted"]
                              [] OTHER -> [lane EXCEPT !.at = at, !.result = r,
                                                       !.pc = IF lane.kind = "adopt" THEN "gate" ELSE "compile"]
          BY <4>1
        <4> HIDE DEF todo, at
        <4>3. lane'.pc # "publish"
          <5>1. CASE r.status = "absent"
            BY <2>1, <4>1, <4>2, <5>1 DEF IdleLane
          <5>2. CASE r.status = "unreadable" /\ lane.kind = "adopt"
            BY <2>1, <4>1, <4>2, <5>2 DEF IdleLane
          <5>3. CASE r.status = "unreadable" /\ lane.kind # "adopt"
            BY <2>1, <4>1, <4>2, <5>3 DEF IdleLane
          <5>4. CASE r.status \notin {"absent", "unreadable"}
            BY <2>1, <4>1, <4>2, <5>4 DEF IdleLane
          <5> QED
            BY <5>1, <5>2, <5>3, <5>4
        <4> QED
          BY <4>1, <4>3 DEF LaneAt
      <3> QED
        BY <3>1, <3>2
    <2>3. CASE AdoptGate \/ LoadAdopted
      BY <1>4, <2>1, <2>3 DEF AdoptGate, LoadAdopted, LaneAt, IdleLane
    <2>4. CASE PublishedLane
      BY <1>4, <2>1, <2>4 DEF PublishedLane, NextType, LaneAt, IdleLane
    <2>5. CASE EndLane
      BY <2>5 DEF EndLane, LaneAt, IdleLane
    <2> QED
      BY <1>9, <2>2, <2>3, <2>4, <2>5
  <1>10. ASSUME NEW kind, NEW selected, NEW check, StartLane(kind, selected, check)
         PROVE  UNCHANGED tree /\ ~ LaneAt("publish")'
    BY <1>10 DEF StartLane, LaneAt, IdleLane
  <1>11. ASSUME NEW t, BeginTransition(t) \/ AcknowledgeTransition(t) PROVE UNCHANGED <<tree, lane>>
    BY <1>11 DEF BeginTransition, AcknowledgeTransition
  <1> QED
    BY <1>2, <1>3, <1>5, <1>6, <1>7, <1>8, <1>9, <1>10, <1>11 DEF LaneNext, lnvars

LEMMA AlwaysReferenceInv == LaneInit /\ [][LaneNext]_lnvars => []ReferenceInv
  BY ReferencesInit, ReferenceStepKeeps, PTL

\* Whatever is killed, failed or run again, a reference a lane wrote resolves as long as the
\* sidecar of its referent can be read, and a batch accounts for what it was given (the
\* stranding and retirement guards, and the order in which a type's files are written).
THEOREM LanesAlwaysKeepTheirWord == LaneInit /\ [][LaneNext]_lnvars => []LanesKeepTheirWord
  <1>1. ReferenceInv => TokensResolve
    BY DEF ReferenceInv
  <1> QED
    BY <1>1, AlwaysReferenceInv, LanesAccount, PTL DEF LanesKeepTheirWord
=============================================================================
