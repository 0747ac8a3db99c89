---------------------------- MODULE AccessLimit ----------------------------
(***************************************************************************)
(* The access limiter of the openresty front end                           *)
(* (lua-scripts/access_limit_by_specific_rules.lua): every request counts  *)
(* itself under its token, its cookie or its ip, and bans that identity    *)
(* when the count of a second exceeds the limit.                           *)
(*                                                                         *)
(* A worker w is a request being served; it yields at every Redis command, *)
(* so the commands of concurrent requests interleave.  Redis is external:  *)
(* freq and ttl are the "user:<id>:freq" counters and their time to live,  *)
(* block["cred"] and block["ip"] the time to live of the                   *)
(* "userToken:<id>:block" and "userIp:<id>:block" keys (0: no such key).   *)
(* An id that is the token of one request and the ip of another has one    *)
(* counter for both, and two bans.  A Tick is a fraction of a second; a    *)
(* command takes at most CmdTicks ticks, after which it has failed.        *)
(* fails counts the failed commands; recent counts, for the properties,    *)
(* the increments by their age in ticks, as far back as a counter lives.   *)
(*                                                                         *)
(* Line 126, in the cookie branch, lacks a comma ("'EX' banExpire"), so    *)
(* that the file does not compile as it stands; it is read with the comma  *)
(* its twin on line 83 has.                                                *)
(*                                                                         *)
(* An uncommented definition just above another one is a faulty variant of *)
(* it, under which one of the properties fails.                            *)
(***************************************************************************)
EXTENDS Integers, FiniteSets, Folds

CONSTANTS Workers,    \* requests that may be served concurrently
          Creds,      \* tokens and cookies (they share their keys)
          Ips,        \* client ips
          MaxFreq,    \* the limit of each kind of identity
          BanExpire,  \* banExpire, in ticks
          Second,     \* ticks per second
          CmdTicks,   \* the longest a Redis command takes
          NoCred,     \* no token and no cookie
          Plans,      \* bounds: the requests and the failures of an instance
          CountBound  \* bound: no request arrives that could count beyond

Kinds == {"token", "cookie", "ip"}

Requests == [kind: {"token", "cookie"}, cred: Creds, ip: Ips]
              \cup [kind: {"ip"}, cred: {NoCred}, ip: Ips]

ASSUME AccessLimitAssumption ==
    /\ NoCred \notin Creds
    /\ IsFiniteSet(Workers)
    /\ MaxFreq \in [Kinds -> Nat \ {0}]
    /\ {BanExpire, Second, CountBound} \subseteq Nat \ {0}
    /\ CmdTicks \in Nat
    /\ BanExpire > CmdTicks + Second
    /\ Plans \subseteq [requests: (SUBSET Requests) \ {{}}, fails: Nat]

Ids == Creds \cup Ips
Bans == {"cred", "ip"}
Forever == -1

(* A counter lives for a second from its EXPIRE, up to CmdTicks later.     *)
Ages == 0..(Second + CmdTicks - 1)

VARIABLES freq, ttl, block,  \* Redis
          fails,             \* commands that have failed
          pc, req, age,      \* the workers
          recent,            \* increments by id and by age in ticks
          plan               \* the instance

redis == <<freq, ttl, block>>
vars == <<redis, fails, pc, req, age, recent, plan>>

Init ==
    /\ freq = [i \in Ids |-> 0]
    /\ ttl = [i \in Ids |-> Forever]
    /\ block = [b \in Bans |-> [i \in Ids |-> 0]]
    /\ fails = 0
    /\ pc = [w \in Workers |-> "idle"]
    /\ plan \in Plans
    /\ req = [w \in Workers |-> CHOOSE r \in plan.requests : TRUE]
    /\ age = [w \in Workers |-> 0]
    /\ recent = [i \in Ids |-> [t \in Ages |-> 0]]

(* The identity a request is counted under, and the ban that turns it away *)
(* when it has been counted too often.                                     *)
IncrKey(w) == IF req[w].kind = "ip" THEN req[w].ip ELSE req[w].cred

BanKey(w) == IF req[w].kind = "ip" THEN "ip" ELSE "cred"

(* A command fails.                                                        *)
Fail == fails < plan.fails /\ fails' = fails + 1

Goto(w, label) ==
    /\ pc' = [pc EXCEPT ![w] = label]
    /\ age' = [age EXCEPT ![w] = 0]

-----------------------------------------------------------------------------

(* A request arrives; a token takes precedence over a cookie.              *)
Start(w) ==
    /\ pc[w] = "idle"
    /\ \A i \in Ids : freq[i] + Cardinality(Workers) <= CountBound
    /\ \E r \in plan.requests :
         /\ req' = [req EXCEPT ![w] = r]
         /\ Goto(w, IF r.kind = "ip" THEN "get_ip" ELSE "get_cred")
    /\ UNCHANGED <<redis, fails, recent, plan>>

(* Whether a GET says that id is banned: an error counts as no.            *)
Banned(b, id) == block[b][id] > 0

(* GET of the token's or cookie's block key: 403 if banned.                *)
GetCred(w) ==
    /\ pc[w] = "get_cred"
    /\ \/ /\ Goto(w, IF Banned("cred", req[w].cred) THEN "idle" ELSE "get_ip")
          /\ UNCHANGED fails
       \/ Goto(w, "get_ip") /\ Fail
    /\ UNCHANGED <<redis, req, recent, plan>>

GetIpRenewing(w) ==
    /\ pc[w] = "get_ip"
    /\ Goto(w, IF Banned("ip", req[w].ip) THEN "set_ip" ELSE "incr")
    /\ UNCHANGED <<redis, fails, req, recent, plan>>

GetIpUnchecked(w) ==
    /\ pc[w] = "get_ip"
    /\ Goto(w, "incr")
    /\ UNCHANGED <<redis, fails, req, recent, plan>>

(* GET of the ip's block key: 403 if banned.                               *)
GetIp(w) ==
    /\ pc[w] = "get_ip"
    /\ \/ /\ Goto(w, IF Banned("ip", req[w].ip) THEN "idle" ELSE "incr")
          /\ UNCHANGED fails
       \/ Goto(w, "incr") /\ Fail
    /\ UNCHANGED <<redis, req, recent, plan>>

ExceedsEarly(w, res) == res >= MaxFreq[req[w].kind]

(* "if res > tokenMaxFreq".                                                *)
Exceeds(w, res) == res > MaxFreq[req[w].kind]

(* Where the script goes after the comparison.                             *)
AfterCount(w, res) ==
    IF ~ Exceeds(w, res) THEN "idle"
    ELSE IF BanKey(w) = "ip" THEN "set_ip" ELSE "set_cred"

AfterIncrNoExpire(w, res) == AfterCount(w, res)

AfterIncrExpireAll(w, res) == IF res > 0 THEN "expire" ELSE AfterCount(w, res)

(* The first request of a second gives the counter its second to live.     *)
AfterIncr(w, res) == IF res = 1 THEN "expire" ELSE AfterCount(w, res)

(* INCR.  If it fails, comparing nil with a number ends the script; the    *)
(* counter may have been incremented all the same.                         *)
Incr(w) ==
    LET k == IncrKey(w) IN
    /\ pc[w] = "incr"
    /\ \/ /\ freq' = [freq EXCEPT ![k] = @ + 1]
          /\ recent' = [recent EXCEPT ![k][0] = @ + 1]
          /\ \/ Goto(w, AfterIncr(w, freq[k] + 1)) /\ UNCHANGED fails
             \/ Goto(w, "idle") /\ Fail
       \/ /\ Goto(w, "idle") /\ Fail
          /\ UNCHANGED <<freq, recent>>
    /\ UNCHANGED <<ttl, block, req, plan>>

(* EXPIRE, whose result (1: the key exists) replaces that of INCR in the   *)
(* comparison.  If it fails the script ends as above.                      *)
Expire(w) ==
    LET k == IncrKey(w)
        found == freq[k] > 0 IN
    /\ pc[w] = "expire"
    /\ \/ /\ ttl' = IF found THEN [ttl EXCEPT ![k] = Second] ELSE ttl
          /\ \/ /\ Goto(w, AfterCount(w, IF found THEN 1 ELSE 0))
                /\ UNCHANGED fails
             \/ Goto(w, "idle") /\ Fail
       \/ /\ Goto(w, "idle") /\ Fail
          /\ UNCHANGED ttl
    /\ UNCHANGED <<freq, block, req, recent, plan>>

(* SET id 1 EX banExpire.                                                  *)
SetBlock(b, id) ==
    \/ block' = [block EXCEPT ![b] = [@ EXCEPT ![id] = BanExpire]] /\ UNCHANGED fails
    \/ UNCHANGED block /\ Fail

(* The bans; the result of a SET is ignored.                               *)
SetCred(w) ==
    /\ pc[w] = "set_cred"
    /\ SetBlock("cred", req[w].cred)
    /\ Goto(w, "set_ip")
    /\ UNCHANGED <<freq, ttl, req, recent, plan>>

SetIp(w) ==
    /\ pc[w] = "set_ip"
    /\ SetBlock("ip", req[w].ip)
    /\ Goto(w, "idle")
    /\ UNCHANGED <<freq, ttl, req, recent, plan>>

-----------------------------------------------------------------------------

(* Redis: a block key's time to live runs down.                            *)
BlockAfterTick ==
    [b \in Bans |-> [i \in Ids |-> IF Banned(b, i) THEN block[b][i] - 1 ELSE 0]]

(* Time passes, unless a command has been waiting for too long.            *)
Tick ==
    /\ \A w \in Workers : pc[w] = "idle" \/ age[w] < CmdTicks
    /\ age' = [w \in Workers |-> IF pc[w] = "idle" THEN 0 ELSE age[w] + 1]
    /\ block' = BlockAfterTick
    /\ freq' = [i \in Ids |-> IF ttl[i] = 1 THEN 0 ELSE freq[i]]
    /\ ttl' = [i \in Ids |-> IF ttl[i] \in {1, Forever} THEN Forever ELSE ttl[i] - 1]
    /\ recent' = [i \in Ids |-> [t \in Ages |->
                                   IF t = 0 THEN 0 ELSE recent[i][t - 1]]]
    /\ UNCHANGED <<fails, pc, req, plan>>

Command(w) ==
    GetCred(w) \/ GetIp(w) \/ Incr(w) \/ Expire(w) \/ SetCred(w) \/ SetIp(w)

Next == Tick \/ \E w \in Workers : Start(w) \/ Command(w)

Spec == Init /\ [][Next]_vars

(* Every command ends, with a reply or a timeout, and time passes.         *)
FairSpec == Spec /\ SF_vars(Tick) /\ \A w \in Workers : WF_vars(Command(w))

-----------------------------------------------------------------------------
(* Properties.                                                             *)

(***************************************************************************)
(* Every variable has its type: a ban lasts at most banExpire, and only a  *)
(* request with a token or a cookie looks up or sets the ban of one.       *)
(***************************************************************************)
TypeOK ==
    /\ freq \in [Ids -> Nat]
    /\ ttl \in [Ids -> 1..Second \cup {Forever}]
    /\ block \in [Bans -> [Ids -> 0..BanExpire]]
    /\ fails \in Nat
    /\ pc \in [Workers -> {"idle", "get_cred", "get_ip", "incr", "expire",
                           "set_cred", "set_ip"}]
    /\ req \in [Workers -> Requests]
    /\ \A w \in Workers : pc[w] \in {"get_cred", "set_cred"} => req[w].kind # "ip"
    /\ age \in [Workers -> 0..CmdTicks]
    /\ recent \in [Ids -> [Ages -> Nat]]
    /\ plan \in Plans

(***************************************************************************)
(* As long as no command has failed, a counter without a time to live      *)
(* belongs to a worker that is about to give it one: no counter outlives   *)
(* its second for ever.  This is what keeps INCR followed by a separate    *)
(* EXPIRE correct.                                                         *)
(***************************************************************************)
CountersExpire ==
    fails = 0 =>
        \A i \in Ids : freq[i] > 0 /\ ttl[i] = Forever =>
            \E w \in Workers : pc[w] = "expire" /\ IncrKey(w) = i

(* The bans that may turn away a request that is counted under i.          *)
BansOf(i) == {b \in Bans : i \in IF b = "ip" THEN Ips ELSE Creds}

(***************************************************************************)
(* The check for a ban and the increment are separate commands, so         *)
(* concurrent requests can overshoot the limit (the highest one, when the  *)
(* same key is used for several), but, as long as no command has failed,   *)
(* never by more than one request each: a ban outlives the counter that    *)
(* caused it.  An id that is both a credential and an ip is overshot once  *)
(* as either, because its two uses share the counter and not the ban.      *)
(***************************************************************************)
OvershootBounded ==
    fails = 0 =>
        \A i \in Ids : \E k \in Kinds :
            freq[i] <= MaxFreq[k] + Cardinality(Workers) * Cardinality(BansOf(i))

(***************************************************************************)
(* The second a counter lives is fixed by the request that created it:     *)
(* later requests, and failures of their commands, do not prolong it.      *)
(***************************************************************************)
WindowFixed ==
    [][\A i \in Ids : ttl[i] # Forever =>
         \/ ttl'[i] \in 1..ttl[i]
         \/ ttl'[i] = Forever /\ freq'[i] = 0]_vars

CountedRecently(i) ==
    MapThenFoldSet(+, 0, LAMBDA t : recent[i][t], LAMBDA s : CHOOSE t \in s : TRUE, Ages)

CountedOut(w) ==
    pc[w] \in {"incr", "expire"} /\ pc'[w] \in {"set_cred", "set_ip"}

(***************************************************************************)
(* access_limit_by_specific_rules.lua:79, "more requests per second than   *)
(* the threshold: block for the given time": an identity is counted out    *)
(* only when it made more requests than its limit within a second, give or *)
(* take the time an EXPIRE command takes.  So it is as long as no command  *)
(* has failed.                                                             *)
(***************************************************************************)
BanOnlyOverLimit ==
    [][\A w \in Workers : fails = 0 /\ CountedOut(w) =>
         CountedRecently(IncrKey(w))' > MaxFreq[req[w].kind]]_vars

(***************************************************************************)
(* The same, whatever fails.  It does not hold: an EXPIRE that is lost, or *)
(* the INCR reply before it, leaves a counter without an end, and a client *)
(* that never exceeded its limit within a second is counted out.           *)
(***************************************************************************)
BanNeedsRate ==
    [][\A w \in Workers : CountedOut(w) =>
         CountedRecently(IncrKey(w))' > MaxFreq[req[w].kind]]_vars

(***************************************************************************)
(* A ban ends: requests that arrive during it are turned away before they  *)
(* are counted, so they do not prolong it.  Finitely many commands fail.   *)
(***************************************************************************)
BansEnd == \A i \in Ids : \A b \in BansOf(i) : Banned(b, i) ~> ~ Banned(b, i)

=============================================================================
