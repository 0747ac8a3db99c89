-------------------------------- MODULE Sasl --------------------------------
(***************************************************************************)
(* SASL authentication of librdkafka: the choice of a provider when the    *)
(* client is created, the exchanges of PLAIN, SCRAM, OAUTHBEARER and Cyrus *)
(* (rdkafka_sasl*.c) on the connection of a broker thread, and the tokens  *)
(* of OAUTHBEARER, which a timer of the main thread, the application and   *)
(* the connections share.  The functions of the digests are free: two      *)
(* values are equal when they were computed alike.                         *)
(*                                                                         *)
(* An uncommented definition just above another one is a faulty variant of *)
(* it, under which one of the properties fails.                            *)
(***************************************************************************)
EXTENDS Integers, Sequences, FiniteSets, SequencesExt

CONSTANTS Plans,        \* configurations of client, broker and application
          None,
          IntWrap,      \* the values of an int, 2^32 in the code
          Second,       \* clock ticks of a second, 1000 (ms) in the code
          DefaultLife,  \* lifeSeconds if not configured, 3600
          FailDelay,    \* ticks until a failed refresh is tried again
          MaxIter,      \* iterations of SCRAM a client accepts, 1000000
          MaxRounds,    \* bound: messages of Cyrus a broker answers
          MaxNow        \* bound on the clock

VARIABLE s

(* s.plan             what does not change                                  *)
(* s.rk               the client: "none", "running", "failed", "terminated" *)
(* s.h                rk_sasl.handle of OAUTHBEARER                         *)
(* s.now              the wall clock                                        *)
(* s.rep              refresh ops in rk_rep                                 *)
(* s.owes             callbacks and events the application did not answer   *)
(* s.errs             authentication errors raised for the application      *)
(* s.asked            a refresh was enqueued since the token last changed   *)
(* s.reqs, s.sets     refreshes enqueued, tokens and failures set           *)
(* s.c                the connection: st, its SASL state fsm (with complete *)
(*                    of PLAIN and Cyrus), frames to (out) and from (in)    *)
(*                    the broker, what framed_recv() read of a frame        *)
(* s.srv              the broker's side of the exchange                     *)
(* s.conns            connection attempts                                   *)
vars == <<s>>

Idle == [st |-> "try", fsm |-> None, out |-> <<>>, in |-> <<>>, rd |-> "none"]

Init ==
  \E p \in Plans :
    s = [mod |-> "Sasl", plan |-> p, rk |-> "none", h |-> None, now |-> 1, rep |-> 0, owes |-> 0,
         errs |-> 0, asked |-> FALSE, reqs |-> 0, sets |-> 0, c |-> Idle, srv |-> None, conns |-> 0]

AsInt(n) == ((n + IntWrap \div 2) % IntWrap) - IntWrap \div 2

-----------------------------------------------------------------------------
(* Tokens of OAUTHBEARER.                                                  *)

EnqueueRefresh(x) ==
  [x EXCEPT !.h.enq = x.now, !.rep = @ + 1, !.reqs = @ + 1, !.asked = TRUE]

EnqueueIfNecessaryOnce(x) ==
  IF x.h.after < x.now /\ x.h.enq < x.h.after THEN EnqueueRefresh(x) ELSE x

\* The timer enqueues one refresh for a token that is due.
EnqueueIfNecessary(x) ==
  IF x.h.after < x.now /\ x.h.enq <= x.h.after THEN EnqueueRefresh(x) ELSE x

\* check_oauthbearer_extension_key(): letters only, and not the reserved key.
ExtensionKeyOk(k) == k \notin {"auth", "", "other"}

\* check_oauthbearer_extension_value(), of values and of the token.
ExtensionValueOk(v) == v # "other"

\* A refused token leaves everything as it is.
TokenRefused(x, tok) ==
  \/ x.h = None
  \/ tok.life <= x.now
  \/ ~ExtensionValueOk(tok.val)
  \/ \E i \in DOMAIN tok.ext : ~ExtensionKeyOk(tok.ext[i][1]) \/ ~ExtensionValueOk(tok.ext[i][2])

\* A refresh is due after 80% of what is left of the token's life.
SetToken(x, tok) ==
  IF TokenRefused(x, tok) THEN x
  ELSE [x EXCEPT !.h.token = tok, !.h.life = tok.life, !.h.errstr = None,
                 !.h.after = x.now + (8 * (tok.life - x.now)) \div 10,
                 !.sets = @ + 1, !.asked = FALSE]

SetTokenFailureAtOnce(x, e) ==
  [x EXCEPT !.h.errstr = e, !.errs = IF x.h.errstr # e THEN @ + 1 ELSE @,
            !.sets = @ + 1, !.asked = FALSE]

\* The token is kept, as it may have some life left.  An error is raised if it
\* is not the one before.
SetTokenFailure(x, e) ==
  IF x.h = None THEN x
  ELSE [x EXCEPT !.h.errstr = e, !.errs = IF x.h.errstr # e THEN @ + 1 ELSE @,
                 !.h.after = x.now + FailDelay, !.sets = @ + 1, !.asked = FALSE]

-----------------------------------------------------------------------------
(* The builtin refresh callback, which makes an unsecured token from       *)
(* sasl.oauthbearer.config: a list of entries k=v.  A value is a text, ""  *)
(* if empty, "quote" if it holds one; that of scope is a list of texts.    *)

NothingParsed ==
  [principalClaimName |-> None, principal |-> None, scopeClaimName |-> None, scope |-> None,
   life |-> 0, ext |-> <<>>, err |-> FALSE]

\* parse_ujws_config(): the first entry that is wrong ends it.  Only the text
\* entries may not come twice.
ParseEntry(r, e) ==
  IF r.err THEN r
  ELSE CASE e.k \in {"principalClaimName", "principal", "scopeClaimName"} ->
              IF r[e.k] # None \/ e.v = "" THEN [r EXCEPT !.err = TRUE] ELSE [r EXCEPT ![e.k] = e.v]
         [] e.k = "scope" ->
              IF r.scope # None \/ e.v = <<>> THEN [r EXCEPT !.err = TRUE] ELSE [r EXCEPT !.scope = e.v]
         [] e.k = "lifeSeconds" ->
              IF e.v # "int" \/ e.n <= 0 \/ e.n >= IntWrap \div 2
              THEN [r EXCEPT !.err = TRUE] ELSE [r EXCEPT !.life = e.n]
         [] e.k = "extension_" ->
              IF e.name = "" THEN [r EXCEPT !.err = TRUE] ELSE [r EXCEPT !.ext = Append(@, <<e.name, e.v>>)]
         [] OTHER -> [r EXCEPT !.err = TRUE]

ParseConfig(cfg) == FoldLeft(ParseEntry, NothingParsed, cfg)

OrElse(v, default) == IF v = None THEN default ELSE v

\* create_jws_compact_serialization(): empty and repeated scopes are left out.
Claims(r, now) ==
  LET scopes == SelectSeq(OrElse(r.scope, <<>>), LAMBDA e : e # "")
      first == SelectSeq([i \in DOMAIN scopes |-> i], LAMBDA i : \A j \in 1..(i - 1) : scopes[j] # scopes[i])
  IN [claim |-> OrElse(r.principalClaimName, "sub"), principal |-> r.principal, iat |-> now,
      exp |-> now + r.life * Second, scope |-> [i \in DOMAIN first |-> scopes[first[i]]]]

Quoted(v) == v # None /\ v = "quote"

UnsecuredTokenWide(cfg, now) ==
  LET r0 == ParseConfig(cfg)
      r == [r0 EXCEPT !.life = IF @ = 0 THEN DefaultLife ELSE @]
  IN IF cfg = <<>> \/ r.err \/ r.principal = None \/ Quoted(r.principal) THEN None
     ELSE [val |-> "jws", claims |-> Claims(r, now), life |-> now + r.life, ext |-> r.ext]

\* rd_kafka_oauthbearer_unsecured_token0(): the lifetime in ms is an int.
UnsecuredToken(cfg, now) ==
  LET r0 == ParseConfig(cfg)
      r == [r0 EXCEPT !.life = IF @ = 0 THEN DefaultLife ELSE @]
      quoted == \/ Quoted(r.principal) \/ Quoted(r.principalClaimName) \/ Quoted(r.scopeClaimName)
                \/ r.scope # None /\ \E i \in DOMAIN r.scope : r.scope[i] = "quote"
  IN IF cfg = <<>> \/ r.err \/ r.principal = None \/ quoted THEN None
     ELSE [val |-> "jws", claims |-> Claims(r, now), life |-> now + AsInt(r.life * Second), ext |-> r.ext]

\* What set_token() refuses is not a failure: its result is an error code and
\* is compared with -1.
RefreshUnsecured(x) ==
  LET tok == UnsecuredToken(x.plan.cfg, x.now) IN
  IF tok = None THEN SetTokenFailure(x, "config") ELSE SetToken(x, tok)

-----------------------------------------------------------------------------
(* The exchanges.  Every one returns the connection, with st "failed" when *)
(* the code returns -1; sent is FALSE if rd_kafka_sasl_send() fails.       *)

Failed(c) == [c EXCEPT !.st = "failed"]

Send(c, frame, sent) ==
  IF sent THEN [c EXCEPT !.out = Append(@, frame)] ELSE Failed(c)

Empty == [t |-> "empty"]

\* PLAIN: any response is a success.
PlainClientNew(x, sent) ==
  LET c == Send(x.c, [t |-> "plain", user |-> x.plan.user, pass |-> x.plan.pass], sent) IN
  [c EXCEPT !.fsm = [complete |-> sent]]

PlainRecv(c) == [c EXCEPT !.st = "up"]

(* SCRAM.                                                                  *)
HMAC(key, str) == <<"HMAC", key, str>>
H(str) == <<"H", str>>
Xor(a, b) == <<"xor", a, b>>

\* Hi(): one iteration at least.
Hi(str, salt, i) == <<"Hi", str, salt, IF i < 1 THEN 1 ELSE i>>

cnonce == <<"c">>

\* rd_kafka_sasl_safe_string(): what the first pass counts, and the second
\* writes.
SafeLen(str) == FoldLeft(LAMBDA n, ch : n + 1 + (IF ch \in {",", "="} THEN 1 ELSE 0), 0, str)

SafeString(str) ==
  FoldLeft(LAMBDA out, ch : out \o (CASE ch = "," -> <<"=", "2", "C">> [] ch = "=" -> <<"=", "3", "D">> [] OTHER -> <<ch>>),
           <<>>, str)

ScramClientFirst(x, sent) ==
  LET bare == [n |-> SafeString(x.plan.user), r |-> cnonce]
      c == Send(x.c, [t |-> "first", bare |-> bare], sent)
  IN [c EXCEPT !.fsm = [state |-> "server_first", bare |-> bare, sig |-> None]]

\* rd_kafka_sasl_scram_get_attr(): what a message has under a name.
Attr(f, name) == IF name \in DOMAIN f THEN f[name] ELSE None

\* rd_base64_decode(), of something that may not be Base64.
Decoded(v) == IF v = "invalid" THEN None ELSE v

\* The nonce goes on from the client's, and the iterations are read as an int.
ServerFirstOk(f) ==
  /\ f.t = "sfirst" /\ ~f.m
  /\ Attr(f, "r") # None /\ Len(f.r) > Len(cnonce) /\ IsPrefix(cnonce, f.r)
  /\ Attr(f, "salt") # None /\ Decoded(f.salt) # None
  /\ Attr(f, "i") # None /\ AsInt(f.i) <= MaxIter

\* rd_kafka_sasl_scram_build_client_final_message_wo_proof()
WithoutProof(nonce) == [c |-> "n,,", r |-> cnonce \o nonce]

ScramClientFinal(x, f, sent) ==
  LET wo == WithoutProof(f.r)
      SaltedPassword == Hi(x.plan.pass, f.salt, AsInt(f.i))
      ClientKey == HMAC(SaltedPassword, "Client Key")
      AuthMessage == <<x.c.fsm.bare, f, wo>>
      ServerSignature == HMAC(HMAC(SaltedPassword, "Server Key"), AuthMessage)
      ClientProof == Xor(ClientKey, HMAC(H(ClientKey), AuthMessage))
      c == Send(x.c, [t |-> "final", wo |-> wo, p |-> ClientProof], sent)
  IN [c EXCEPT !.fsm.state = "client_final", !.fsm.sig = ServerSignature]

ScramServerFinalTrusting(c, f) ==
  IF f.t = "sfinal" /\ f.e = None /\ f.v # None THEN [c EXCEPT !.st = "up"] ELSE Failed(c)

\* An error, a verifier that is the signature we computed, or neither.
ScramServerFinal(c, f) ==
  IF f.t = "sfinal" /\ Attr(f, "e") = None /\ Attr(f, "v") # None /\ Decoded(f.v) = c.fsm.sig THEN [c EXCEPT !.st = "up"] ELSE Failed(c)

ScramRecv(x, f, sent) ==
  IF x.c.fsm.state = "client_final" THEN ScramServerFinal(x.c, f)
  ELSE IF ServerFirstOk(f) THEN ScramClientFinal(x, f, sent)
  ELSE Failed(x.c)

(* OAUTHBEARER.                                                            *)

\* The exchange keeps the token it starts with.
OauthClientNew(x, sent) ==
  IF x.h.token = None THEN Failed([x.c EXCEPT !.fsm = [state |-> "client_first", token |-> None, err |-> None]])
  ELSE LET c == Send(x.c, [t |-> "bearer", token |-> x.h.token], sent) IN
       [c EXCEPT !.fsm = [state |-> "server_first", token |-> x.h.token, err |-> None]]

\* An empty response is a success; an error is answered, and fails the
\* exchange at the next frame.
OauthRecv(x, f, sent) ==
  CASE x.c.fsm.state = "server_first" /\ f = Empty -> [x.c EXCEPT !.st = "up"]
    [] x.c.fsm.state = "server_first" /\ f # Empty ->
         Send([x.c EXCEPT !.fsm.state = "after_fail", !.fsm.err = f], [t |-> "kvsep"], sent)
    [] OTHER -> Failed(x.c)

(* Cyrus: r is what sasl_client_start() and sasl_client_step() return      *)
(* after their interactions.                                               *)
CyrusClientNew(x, r, sent) ==
  LET c == IF r = "fail" THEN Failed(x.c) ELSE Send(x.c, [t |-> "gss"], sent) IN
  [c EXCEPT !.fsm = [complete |-> r = "ok" /\ sent]]

CyrusRecv(x, f, r, sent) ==
  LET c == Send(x.c, [t |-> "gss"], sent) IN
  CASE x.c.fsm.complete /\ f = Empty -> [x.c EXCEPT !.st = "up"]
    [] r = "fail" /\ ~(x.c.fsm.complete /\ f = Empty) -> Failed(x.c)
    [] r = "ok" /\ sent /\ ~(x.c.fsm.complete /\ f = Empty) -> [c EXCEPT !.st = "up"]
    [] OTHER -> c

-----------------------------------------------------------------------------
(* The client.                                                             *)

ScramHashes == {"SCRAM-SHA-1", "SCRAM-SHA-256", "SCRAM-SHA-512"}

\* rd_kafka_sasl_select_provider(): SCRAM-SHA- of any kind.
Provider(p) ==
  CASE p.mech = "GSSAPI" -> IF p.cyrus THEN "cyrus" ELSE None
    [] p.mech = "PLAIN" -> "plain"
    [] p.mech \in ScramHashes \cup {"SCRAM-SHA-other"} -> "scram"
    [] p.mech = "OAUTHBEARER" -> "oauthbearer"
    [] OTHER -> None

\* The conf_validate() of the providers.
ConfValid(p) ==
  CASE Provider(p) = "plain" -> p.user # None /\ p.pass # None
    [] Provider(p) = "scram" -> p.user # None /\ p.pass # None /\ p.mech \in ScramHashes
    [] Provider(p) = "cyrus" -> p.kinit # "invalid"
    [] OTHER -> TRUE

NewHandle == [token |-> None, life |-> 0, after |-> 0, enq |-> 0, errstr |-> None]

\* rd_kafka_sasl_oauthbearer_init(): the builtin callback runs at once.
OauthInit(x) ==
  LET y == [x EXCEPT !.h = NewHandle] IN
  IF x.plan.cb = "unsecured" THEN RefreshUnsecured(y) ELSE EnqueueRefresh(y)

\* rd_kafka_new(), which may fail after the provider is initialized.
New ==
  /\ s.rk = "none"
  /\ IF Provider(s.plan) = None \/ ~ConfValid(s.plan) THEN s' = [s EXCEPT !.rk = "failed"]
     ELSE LET y == [s EXCEPT !.rk = "running"]
              x == IF Provider(s.plan) = "oauthbearer" THEN OauthInit(y) ELSE y
          IN s' = IF s.plan.late THEN [x EXCEPT !.rk = "failed", !.h = None, !.rep = 0] ELSE x

Running == s.rk = "running"

\* The refresh timer, every second.
RefreshTimer ==
  /\ Running /\ s.h # None
  /\ EnqueueIfNecessary(s) # s
  /\ s' = EnqueueIfNecessary(s)

\* rd_kafka_oauthbearer_refresh_op(), when the application polls.
ServeRefresh ==
  /\ Running /\ s.rep > 0
  /\ LET x == [s EXCEPT !.rep = @ - 1] IN
     s' = CASE s.plan.cb = "unsecured" -> RefreshUnsecured(x)
            [] s.plan.cb = "app" -> [x EXCEPT !.owes = @ + 1]
            [] OTHER -> x

Tokens(x) ==
  {[val |-> "app", claims |-> x.sets, life |-> x.now + l, ext |-> e] : l \in x.plan.lives, e \in x.plan.exts}

\* The application sets a token or a failure, asked to or not.
AppSets ==
  /\ Running /\ s.h # None /\ s.sets < s.plan.sets
  /\ \E asked \in {a \in BOOLEAN : a => s.owes > 0} :
       LET x == [s EXCEPT !.owes = IF asked THEN @ - 1 ELSE @] IN
       \/ \E tok \in Tokens(s) : s' = SetToken(x, tok)
       \/ \E e \in s.plan.fails : s' = SetTokenFailure(x, e)

Tick == /\ Running /\ s.h # None /\ s.now < MaxNow
        /\ s' = [s EXCEPT !.now = @ + 1]

\* The wall clock is set back.
ClockBack == /\ Running /\ s.plan.back /\ s.now > 1
             /\ s' = [s EXCEPT !.now = 1]

\* rd_kafka_destroy(): the threads are gone, ops are destroyed unserved.
Terminate ==
  /\ Running /\ s.plan.term
  /\ s' = [s EXCEPT !.rk = "terminated", !.h = None, !.rep = 0, !.c = Idle, !.srv = None]

-----------------------------------------------------------------------------
(* The connection.                                                         *)

\* rd_kafka_broker_fail() closes the transport and its SASL state.
Settled(x, c) ==
  [x EXCEPT !.c = IF c.st = "failed" THEN [Idle EXCEPT !.st = "down"] ELSE c,
            !.srv = IF c.st = "failed" THEN None ELSE @]

Sends(x) == IF x.plan.hup THEN BOOLEAN ELSE {TRUE}

\* rd_kafka_sasl_ready(), before a connection is tried.
SaslReady == Provider(s.plan) = "oauthbearer" => s.h # None /\ s.h.token # None

\* The broker knows the mechanism, or has no need to be asked.
Supported(p) == IF p.mech = "GSSAPI" THEN "GSSAPI" \in p.feats ELSE "HANDSHAKE" \in p.feats

ClientNew(x, r, sent) ==
  CASE Provider(x.plan) = "plain" -> PlainClientNew(x, sent)
    [] Provider(x.plan) = "scram" -> ScramClientFirst(x, sent)
    [] Provider(x.plan) = "oauthbearer" -> OauthClientNew(x, sent)
    [] Provider(x.plan) = "cyrus" -> CyrusClientNew(x, r, sent)

\* rd_kafka_sasl_client_new(), once the connection is there.  The process
\* aborts if the user name does not fit.
StartAuth ==
  /\ Running /\ s.c.st = "try" /\ SaslReady /\ s.conns < s.plan.conns
  /\ \E r \in s.plan.steps, sent \in Sends(s) :
       LET x == [s EXCEPT !.conns = @ + 1, !.c.st = "auth", !.srv = [got |-> <<>>, sent |-> None]] IN
       IF ~Supported(s.plan) THEN s' = Settled(x, Failed(x.c))
       ELSE IF Provider(s.plan) = "scram" /\ SafeLen(s.plan.user) # Len(SafeString(s.plan.user))
       THEN s' = [x EXCEPT !.rk = "aborted"]
       ELSE s' = Settled(x, ClientNew(x, r, sent))

\* rd_kafka_transport_framed_recv(): the length, the payload, maybe at once.
FramedRecv ==
  /\ Running /\ s.c.st = "auth" /\ s.c.in # <<>> /\ s.c.rd # "frame"
  /\ \E rd \in {"length", "frame"} :
       /\ rd # s.c.rd /\ (Head(s.c.in) = Empty => rd = "frame")
       /\ s' = IF Head(s.c.in).t = "toolarge" THEN Settled(s, Failed(s.c))
               ELSE [s EXCEPT !.c.rd = rd]

\* rd_kafka_sasl_io_event(): a whole frame goes to the provider.
SaslRecv ==
  /\ Running /\ s.c.st = "auth" /\ s.c.rd = "frame"
  /\ LET f == Head(s.c.in)
         x == [s EXCEPT !.c.in = Tail(@), !.c.rd = "none"]
     IN \E r \in s.plan.steps, sent \in Sends(s) :
          s' = Settled(x, CASE Provider(s.plan) = "plain" -> PlainRecv(x.c)
                            [] Provider(s.plan) = "scram" -> ScramRecv(x, f, sent)
                            [] Provider(s.plan) = "oauthbearer" -> OauthRecv(x, f, sent)
                            [] Provider(s.plan) = "cyrus" -> CyrusRecv(x, f, r, sent))

\* The broker hangs up, in an exchange or later.
Disconnect ==
  /\ Running /\ s.c.st \in {"auth", "up"} /\ s.plan.hup
  /\ s' = Settled(s, Failed(s.c))

\* The broker thread tries again.
Reconnect == /\ Running /\ s.c.st = "down"
             /\ s' = [s EXCEPT !.c = Idle]

-----------------------------------------------------------------------------
(* The broker: it has credentials of its own (plan.spass), may not check   *)
(* the client's, and may answer with what plan.firsts and plan.finals say. *)

Proof(bare, first, wo, pass) ==
  LET ClientKey == HMAC(Hi(pass, first.salt, first.i), "Client Key")
  IN Xor(ClientKey, HMAC(H(ClientKey), <<bare, first, wo>>))

Verifier(bare, first, wo, pass) ==
  HMAC(HMAC(Hi(pass, first.salt, first.i), "Server Key"), <<bare, first, wo>>)

ServerFinal(e, v) == [t |-> "sfinal", e |-> e, v |-> v]

\* The frames a broker may answer f with.
Answers(x, f) ==
  CASE f.t = "plain" -> IF f.pass = x.plan.spass THEN {Empty} ELSE {}
    [] f.t = "first" -> x.plan.firsts
    [] f.t = "final" ->
         LET first == x.srv.sent
             bare == x.srv.got[1].bare
         IN x.plan.finals \cup
            IF x.plan.verify /\ f.p # Proof(bare, first, f.wo, x.plan.spass)
            THEN {ServerFinal("invalid-proof", None)}
            ELSE {ServerFinal(None, Verifier(bare, first, f.wo, x.plan.spass))}
    [] f.t = "bearer" -> x.plan.verdicts
    [] f.t = "kvsep" -> {Empty, [t |-> "error"]}
    [] f.t = "gss" -> IF Len(x.srv.got) < MaxRounds THEN {Empty, [t |-> "gss"]} ELSE {}

\* An answer, or the broker hangs up if it has none.
BrokerReply ==
  /\ Running /\ s.c.st = "auth" /\ s.c.out # <<>>
  /\ LET f == Head(s.c.out)
         x == [s EXCEPT !.c.out = Tail(@), !.srv.got = Append(@, f)]
     IN \/ \E a \in Answers(s, f) :
             s' = [x EXCEPT !.c.in = Append(@, a), !.srv.sent = a]
        \/ Answers(s, f) = {} /\ s' = Settled(x, Failed(x.c))

-----------------------------------------------------------------------------
MainThread == New \/ RefreshTimer
BrokerThread == StartAuth \/ FramedRecv \/ SaslRecv \/ Reconnect

Next == \/ MainThread \/ BrokerThread \/ ServeRefresh \/ AppSets \/ Tick \/ ClockBack \/ Terminate
        \/ Disconnect \/ BrokerReply

\* The state is one of this module: a run may check instances of several.
Here == s.mod = "Sasl"

MainCan == s.rk = "none" \/ (Running /\ s.h # None /\ EnqueueIfNecessary(s) # s)

BrokerThreadCan ==
  /\ Running
  /\ \/ s.c.st = "try" /\ SaslReady /\ s.conns < s.plan.conns
     \/ s.c.st = "auth" /\ (s.c.rd = "frame" \/ s.c.in # <<>>)
     \/ s.c.st = "down"

\* The threads run, the application polls, the broker answers.
Fairness ==
  /\ []<>~(Here /\ MainCan) \/ []<><<Here /\ MainThread>>_s
  /\ []<>~(Here /\ BrokerThreadCan) \/ []<><<Here /\ BrokerThread>>_s
  /\ []<>~(Here /\ Running /\ s.rep > 0) \/ []<><<Here /\ ServeRefresh>>_s
  /\ []<>~(Here /\ Running /\ s.c.st = "auth" /\ s.c.out # <<>>) \/ []<><<Here /\ BrokerReply>>_s

Spec == Init /\ [][Next]_s /\ Fairness

(***************************************************************************)
(* Properties                                                               *)
(***************************************************************************)

(* A SCRAM connection that is up is one to a broker that has the client's   *)
(* password and saw the messages the client sent, in this exchange.         *)
MutualScram ==
  (s.c.st = "up" /\ Provider(s.plan) = "scram") =>
    /\ s.plan.spass = s.plan.pass
    /\ s.srv.got[1].bare = s.c.fsm.bare
    /\ s.srv.got[2].wo.r = cnonce \o s.c.fsm.sig[3][2].r

(* An OAUTHBEARER connection that is up was accepted with the token it was  *)
(* started with, even if another one was set since.                         *)
AcceptedToken ==
  (s.c.st = "up" /\ Provider(s.plan) = "oauthbearer") =>
    s.srv.got = <<[t |-> "bearer", token |-> s.c.fsm.token]>> /\ s.srv.sent = Empty

(* For every token or failure that is set the application is asked for at   *)
(* most one refresh.                                                        *)
RefreshOnce == s.reqs <= s.sets + 1

(* The refresh of a token is due before it expires, and the expiry the      *)
(* client goes by is the one the token claims, if its lifetime in ms is an  *)
(* int.                                                                     *)
DueBeforeExpiry ==
  (s.h # None /\ s.h.token # None) =>
    /\ s.h.errstr = None => s.h.after < s.h.life
    /\ (s.h.token.val = "jws" /\ s.h.token.claims.exp - s.h.token.claims.iat < IntWrap \div 2)
         => s.h.life = s.h.token.claims.exp

(* A configuration the builtin callback cannot parse raises one error,      *)
(* however often it is tried.                                               *)
ReportedOnce ==
  (s.h # None /\ s.plan.cb = "unsecured" /\ s.plan.fails = {} /\ UnsecuredToken(s.plan.cfg, s.now) = None) => s.errs = 1

(* The process aborts for user names only that SCRAM has to escape.         *)
AbortsForEscapes == s.rk = "aborted" => \E i \in DOMAIN s.plan.user : s.plan.user[i] \in {",", "="}

(* The exchanges of SASL and its tokens.                                    *)
SaslSafe ==
  MutualScram /\ AcceptedToken /\ RefreshOnce /\ DueBeforeExpiry /\ ReportedOnce /\ AbortsForEscapes

Due == s.h # None /\ s.h.after < s.now /\ ~s.plan.back

(* Whoever has a token that is due is asked for another one, unless the     *)
(* clock was set back.  An exchange comes to an end.                        *)
SaslProgress ==
  /\ []<>~(Here /\ Due /\ ~s.asked)
  /\ []<>~(Here /\ Running /\ s.c.st = "auth")
=============================================================================
