------------------------------ MODULE HttpTransport ------------------------------
(* httptransport/transport.go and collectors/retry.go: one transport shared by the      *)
(* workers of a fetch. A request is tried again while the server answers 429, an        *)
(* attempt follows redirects by itself, the cookie jar is shared, the owner may close   *)
(* the transport and the parent context may be cancelled at any moment. A round trip    *)
(* always ends, in an answer or in the attempt's timeout.                               *)
EXTENDS Integers, FiniteSets, Sequences, Absent

CONSTANTS
    Callers,          \* the workers
    Origins,          \* scheme, host and port, as one value
    HostOf,           \* HostOf[o]: the host of an origin, all that the jar looks at
    Domains,          \* what the Domain attribute of a cookie may name
    Under,            \* Under[d]: the hosts of a domain
    HttpRequests,     \* the requests a worker may make
    MaxHttpRetries,   \* CollectorMaxRetries
    MaxRedirects      \* the hops an attempt may follow

ASSUME HttpAssumption ==
    /\ HostOf \in [Origins -> {HostOf[o] : o \in Origins}]
    /\ Null \notin {HostOf[o] : o \in Origins}
    /\ Under \in [Domains -> SUBSET {HostOf[o] : o \in Origins}]
    /\ MaxHttpRetries \in Nat /\ MaxRedirects \in Nat
    /\ \A r \in HttpRequests :
          /\ r.origin \in Origins
          /\ {r.auth, r.cookie, r.body} \subseteq BOOLEAN

VARIABLES
    http,     \* closed by its owner, cancelled by the parent context
    jar,      \* jar[s]: the host that gave the session cookie the jar holds for s
    calls,    \* calls[c]: the request a worker is making
    wire      \* history: wire[c] is what c sent last, and under which circumstances
htvars == <<http, jar, calls, wire>>

NoCall == [pc |-> "idle", request |-> Null, attempt |-> 0, redirect |-> 0, target |-> Null,
           auth |-> FALSE, cookie |-> FALSE, body |-> FALSE,
           admitted |-> Null, answer |-> Null, result |-> Null]
Hosts == {HostOf[o] : o \in Origins}
\* What a cookie is kept for: the host that set it, or the domain its attribute names.
Scopes == Hosts \union Domains
CallEnds(c, result) == calls' = [calls EXCEPT ![c].pc = "done", ![c].result = result,
                                              ![c].answer = Null]
CallAt(c, pc) == calls[c].pc = pc

(* What a server may answer, with or without a session cookie for a host or a domain. A *)
(* redirect whose location is missing, malformed or of another scheme leads nowhere;    *)
(* broken stands for a failed dial and for the timeout.                                 *)
Answers == [kind : {"ok", "limited"}, session : Scopes \union {Null}]
             \union [kind : {"broken", "invalid", "tooLarge"}, session : {Null}]
             \union [kind : {"redirect"}, session : Scopes \union {Null},
                     to : Origins \union {Null},
                     replays : BOOLEAN]   \* 307 and 308 would send the body again

----------------------------------------------------------------------------------
Request(c, r) ==
    /\ CallAt(c, "idle")
    /\ calls' = [calls EXCEPT ![c] = [NoCall EXCEPT !.pc = "admit", !.request = r]]
    /\ UNCHANGED <<http, jar, wire>>

\* Every attempt looks again: a retry that slept through Close must not go on.
Admitted(c) == ~http.closed

\* One round of the retry loop, and requestOnce up to its first hop.
Admit(c) ==
    /\ CallAt(c, "admit")
    /\ IF http.cancelled THEN CallEnds(c, "cancelled")
       ELSE IF ~Admitted(c) THEN CallEnds(c, "closed")
       ELSE LET r == calls[c].request IN
            calls' = [calls EXCEPT ![c] =
                [@ EXCEPT !.pc = "send", !.redirect = 0, !.target = r.origin,
                          !.auth = r.auth, !.cookie = r.cookie,
                          !.body = r.body, !.admitted = ~http.closed]]
    /\ UNCHANGED <<http, jar, wire>>

(* cookiejar.New(nil): without a list of public suffixes a Domain attribute is honoured *)
(* for every host under it, to set the cookie and to be sent it; without the attribute  *)
(* the host is alone.                                                                   *)
Covers(s, host) == IF s \in Domains THEN host \in Under[s] ELSE host = s
Kept(a, host) ==
    IF a.session # Null /\ Covers(a.session, host) THEN [jar EXCEPT ![a.session] = host] ELSE jar

\* A cookie header of the caller keeps the jar's cookies off the request.
SendsSessions(c) ==
    IF calls[c].cookie THEN {}
    ELSE {s \in Scopes : jar[s] # Null /\ Covers(s, HostOf[calls[c].target])}

\* A hop looks at the parent context only: those of an attempt go on after Close.
Send(c) ==
    /\ CallAt(c, "send")
    /\ IF http.cancelled THEN CallEnds(c, "cancelled") /\ UNCHANGED wire
       ELSE IF calls[c].redirect > MaxRedirects
            THEN CallEnds(c, "redirectLimit") /\ UNCHANGED wire
       ELSE /\ calls' = [calls EXCEPT ![c].pc = "sent"]
            /\ wire' = [wire EXCEPT ![c] =
                 [home |-> calls[c].request.origin, to |-> calls[c].target,
                  auth |-> calls[c].auth, cookie |-> calls[c].cookie,
                  sessions |-> {[of |-> s, by |-> jar[s]] : s \in SendsSessions(c)},
                  body |-> calls[c].body, first |-> calls[c].redirect = 0,
                  admitted |-> calls[c].admitted, cancelled |-> http.cancelled]]
    /\ UNCHANGED <<http, jar>>

Answer(c, a) ==
    /\ CallAt(c, "sent")
    /\ calls' = [calls EXCEPT ![c].pc = "answered", ![c].answer = a]
    /\ UNCHANGED <<http, jar, wire>>

\* Mutant: only another host takes the credentials off, not another scheme or port.
HostOnly(next, target) == HostOf[next] = HostOf[target]

SameOrigin(next, target) == next = target

\* Mutant: a hop restarts the count of the attempt's redirects.
RestartedHop(call, a) ==
    LET stays == SameOrigin(a.to, call.target)
    IN  [call EXCEPT !.pc = "send", !.answer = Null, !.redirect = 0, !.target = a.to,
                     !.auth = @ /\ stays, !.cookie = @ /\ stays, !.body = FALSE]

\* The next hop keeps no body; an origin that the caller never named gets no credentials.
NextHop(call, a) ==
    LET stays == SameOrigin(a.to, call.target)
    IN  [call EXCEPT !.pc = "send", !.answer = Null, !.redirect = @ + 1, !.target = a.to,
                     !.auth = @ /\ stays, !.cookie = @ /\ stays, !.body = FALSE]

(* The answer as requestOnce and the retry loop judge it; the session it carries enters *)
(* the jar first, even when the answer is then refused.                                 *)
Judge(c) ==
    LET call == calls[c]
        a == call.answer
    IN  /\ CallAt(c, "answered")
        /\ jar' = IF http.cancelled THEN jar ELSE Kept(a, HostOf[call.target])
        /\ CASE http.cancelled -> CallEnds(c, "cancelled")
             [] ~http.cancelled /\ a.kind \in {"broken", "invalid", "tooLarge"} -> CallEnds(c, a.kind)
             [] ~http.cancelled /\ a.kind = "ok" -> CallEnds(c, "answered")
             [] ~http.cancelled /\ a.kind = "limited" ->
                  IF call.attempt = MaxHttpRetries THEN CallEnds(c, "answered")
                  ELSE calls' = [calls EXCEPT ![c].pc = "sleeping", ![c].answer = Null]
             [] ~http.cancelled /\ a.kind = "redirect" ->
                  IF (a.replays /\ call.body) \/ a.to = Null
                  THEN CallEnds(c, "refused")
                  ELSE calls' = [calls EXCEPT ![c] = NextHop(call, a)]
        /\ UNCHANGED <<http, wire>>

\* The delay is over, or the cancelled context ended it early.
Wake(c) ==
    /\ CallAt(c, "sleeping")
    /\ IF http.cancelled THEN CallEnds(c, "cancelled")
       ELSE calls' = [calls EXCEPT ![c].pc = "admit", ![c].attempt = @ + 1]
    /\ UNCHANGED <<http, jar, wire>>

\* The worker takes the result and may make its next request.
Return(c) ==
    /\ CallAt(c, "done")
    /\ calls' = [calls EXCEPT ![c] = NoCall]
    /\ wire' = [wire EXCEPT ![c] = Null]
    /\ UNCHANGED <<http, jar>>

Close ==
    /\ ~http.closed
    /\ http' = [http EXCEPT !.closed = TRUE]
    /\ UNCHANGED <<jar, calls, wire>>

CancelParent ==
    /\ ~http.cancelled
    /\ http' = [http EXCEPT !.cancelled = TRUE]
    /\ UNCHANGED <<jar, calls, wire>>

HttpInit ==
    /\ http = [closed |-> FALSE, cancelled |-> FALSE]
    /\ jar = [s \in Scopes |-> Null] /\ calls = [c \in Callers |-> NoCall] /\ wire = [c \in Callers |-> Null]

CallStep(c) == Admit(c) \/ Send(c) \/ (\E a \in Answers : Answer(c, a)) \/ Judge(c) \/ Wake(c)

HttpNext ==
    \/ \E c \in Callers : (\E r \in HttpRequests : Request(c, r)) \/ CallStep(c) \/ Return(c)
    \/ Close \/ CancelParent

HttpSpec == HttpInit /\ [][HttpNext]_htvars

\* A round trip is bounded by its timeout and a sleep by its delay.
HttpFairness == \A c \in Callers : WF_htvars(CallStep(c))
----------------------------------------------------------------------------------
Sent == {wire[c] : c \in Callers} \ {Null}

(* No attempt is started by a transport that is already closed, retries that slept      *)
(* through Close included; what is sent after it are the hops of attempts that were     *)
(* under way. Once the parent context is cancelled nothing is sent at all (Request,     *)
(* requestOnce, Close).                                                                 *)
ShutdownIsQuiet == \A w \in Sent : w.admitted /\ ~w.cancelled

(* What a request carries stays where it was meant to go, over any chain of redirects   *)
(* and retries: the bearer token and a cookie header of the caller reach the origin of  *)
(* the request only and a body is sent by the first hop of an attempt only. A session   *)
(* goes to the host that gave it, and to another only when both are of the domain it    *)
(* was given for (sameOrigin, stripHeaders, the jar).                                   *)
CredentialsStayHome ==
    \A w \in Sent :
        /\ (w.auth \/ w.cookie) => w.to = w.home
        /\ w.body => w.first
        /\ \A k \in w.sessions :
              \/ k.by = HostOf[w.to]
              \/ k.of \in Domains /\ {k.by, HostOf[w.to]} \subseteq Under[k.of]

\* What the transport promises its callers besides an answer: no attempt begins after a
\* close and nothing is sent after a cancellation; tokens, caller's cookies and bodies stay
\* at the origin they were given for and sessions in their host or domain, through every
\* retry and redirect (Request, requestOnce).
RequestsAreSafe == ShutdownIsQuiet /\ CredentialsStayHome

\* Every request comes back, whatever the servers answer (the retry and redirect bounds).
RequestsEnd == \A c \in Callers : CallAt(c, "admit") ~> CallAt(c, "done")
=============================================================================
