------------------------- MODULE AccessLimitProofs -------------------------
(***************************************************************************)
(* What holds of the limiter for any number of requests, identities and    *)
(* limits.  The argument rests on Owner: the request that created a        *)
(* counter is the only one about to give it a time to live, until it has.  *)
(***************************************************************************)
EXTENDS AccessLimit, TLAPS

(* Only a worker about to EXPIRE a counter that has no time to live yet    *)
(* ever reaches that command, and a key without a counter has no ttl.      *)
Owner ==
    /\ \A i \in Ids : ttl[i] # Forever => freq[i] > 0
    /\ \A w \in Workers : pc[w] = "expire" =>
         /\ freq[IncrKey(w)] > 0
         /\ ttl[IncrKey(w)] = Forever
         /\ \A v \in Workers : pc[v] = "expire" /\ IncrKey(v) = IncrKey(w) => v = w

IndInv == TypeOK /\ Owner

(* The lengths of time are numbers of ticks.                               *)
LEMMA TickTypes ==
    Second \in Nat \ {0} /\ BanExpire \in Nat \ {0} /\ CmdTicks \in Nat
  BY AccessLimitAssumption, Zenon

(* The id a request is counted under and those it bans are ids.            *)
LEMMA KeyTypes ==
    ASSUME NEW r \in Requests
    PROVE  /\ r.kind \in Kinds
           /\ r.ip \in Ids
           /\ r.kind # "ip" => r.cred \in Ids
           /\ (IF r.kind = "ip" THEN r.ip ELSE r.cred) \in Ids
  BY Zenon DEF Requests, Ids, Kinds

(* The ban a request can meet.                                             *)
LEMMA BanTypes ==
    ASSUME TypeOK, NEW w \in Workers
    PROVE  /\ BanKey(w) \in Bans /\ IncrKey(w) \in Ids
           /\ BanKey(w) \in BansOf(IncrKey(w))
           /\ BanKey(w) = "ip" <=> req[w].kind = "ip"
<1>1. req[w] \in Requests
  BY Zenon DEF TypeOK
<1>2. /\ req[w].ip \in Ips
      /\ req[w].kind # "ip" => req[w].cred \in Creds
  BY <1>1, Zenon DEF Requests
<1> QED
  BY <1>2, Zenon DEF BanKey, IncrKey, Bans, BansOf, Ids

(* A command that fails is counted.                                        *)
LEMMA FailCounts == TypeOK /\ Fail => fails' # fails
  BY DEF TypeOK, Fail

(* The requests of an instance are requests.                               *)
LEMMA PlanTypes ==
    ASSUME NEW p \in Plans
    PROVE  p.requests \subseteq Requests /\ p.requests # {} /\ p.fails \in Nat
<1>1. p \in [requests: (SUBSET Requests) \ {{}}, fails: Nat]
  BY AccessLimitAssumption, Zenon
<1>2. p.requests \in (SUBSET Requests) \ {{}} /\ p.fails \in Nat
  BY <1>1
<1> QED
  BY <1>2

(* The initial state satisfies the inductive invariant.                    *)
LEMMA InitInd == Init => IndInv
<1> SUFFICES ASSUME Init PROVE IndInv
  BY Zenon
<1>1. req \in [Workers -> Requests]
  <2>1. (CHOOSE r \in plan.requests : TRUE) \in Requests
    BY PlanTypes, Zenon DEF Init
  <2> QED
    BY <2>1, Zenon DEF Init
<1>2. Owner
  BY DEF Init, Owner, Forever
<1> QED
  BY <1>1, <1>2, TickTypes DEF Init, IndInv, TypeOK, Forever

(* Every step of a worker or of time keeps the types.                      *)
LEMMA TypeStep == TypeOK /\ [Next]_vars => TypeOK'
<1> SUFFICES ASSUME TypeOK, [Next]_vars PROVE TypeOK'
  BY Zenon
<1> USE TickTypes
<1>0. fails' \in Nat
  <2>1. fails' = fails \/ fails' = fails + 1
    BY Zenon DEF Next, Command, Start, GetCred, GetIp, Incr, Expire, SetCred,
                 SetIp, SetBlock, Fail, Tick, vars
  <2> QED
    BY <2>1 DEF TypeOK
<1>1. ASSUME NEW w \in Workers, Start(w) PROVE TypeOK'
  <2>1. PICK r \in Requests :
          /\ req' = [req EXCEPT ![w] = r]
          /\ Goto(w, IF r.kind = "ip" THEN "get_ip" ELSE "get_cred")
    BY <1>1, PlanTypes, Zenon DEF Start, TypeOK
  <2> QED
    BY <1>0, <1>1, <2>1 DEF Start, TypeOK, Goto, redis
<1>2. ASSUME NEW w \in Workers, GetCred(w) \/ GetIp(w) PROVE TypeOK'
  <2>1. PICK l \in {"idle", "get_ip", "incr"} :
          Goto(w, l) /\ UNCHANGED <<redis, req, recent, plan>>
    BY <1>2, Zenon DEF GetCred, GetIp
  <2> QED
    BY <1>0, <2>1 DEF TypeOK, Goto, redis
<1>3. ASSUME NEW w \in Workers, Incr(w) PROVE TypeOK'
  <2>1. IncrKey(w) \in Ids
    BY KeyTypes, Zenon DEF IncrKey, TypeOK
  <2>2. \A res : /\ AfterIncr(w, res) \in {"idle", "expire", "set_cred", "set_ip"}
                 /\ AfterIncr(w, res) = "set_cred" => req[w].kind # "ip"
    BY Zenon DEF AfterIncr, AfterCount, BanKey
  <2>3. freq' \in [Ids -> Nat]
    BY <1>3, <2>1 DEF Incr, TypeOK
  <2>4. recent' \in [Ids -> [Ages -> Nat]]
    <3>1. recent \in [Ids -> [Ages -> Nat]] /\ 0 \in Ages
      BY DEF TypeOK, Ages
    <3>2. \/ recent' = recent
          \/ recent' = [recent EXCEPT ![IncrKey(w)] =
                          [recent[IncrKey(w)] EXCEPT ![0] = recent[IncrKey(w)][0] + 1]]
      BY <1>3, <3>1, Zenon DEF Incr
    <3>3. [recent[IncrKey(w)] EXCEPT ![0] = recent[IncrKey(w)][0] + 1]
            \in [Ages -> Nat]
      BY <2>1, <3>1
    <3> QED
      BY <2>1, <3>1, <3>2, <3>3, Zenon
  <2>5. PICK l \in {"idle", "expire", "set_cred", "set_ip"} :
          /\ Goto(w, l) /\ UNCHANGED <<ttl, block, req, plan>>
          /\ l = "set_cred" => req[w].kind # "ip"
    BY <1>3, <2>2, Zenon DEF Incr
  <2> QED
    BY <1>0, <2>3, <2>4, <2>5 DEF TypeOK, Goto
<1>4. ASSUME NEW w \in Workers, Expire(w) PROVE TypeOK'
  <2>1. IncrKey(w) \in Ids
    BY KeyTypes, Zenon DEF IncrKey, TypeOK
  <2>2. \A res : /\ AfterCount(w, res) \in {"idle", "set_cred", "set_ip"}
                 /\ AfterCount(w, res) = "set_cred" => req[w].kind # "ip"
    BY Zenon DEF AfterCount, BanKey
  <2>3. ttl' \in [Ids -> 1..Second \cup {Forever}]
    <3>1. ttl \in [Ids -> 1..Second \cup {Forever}] /\ Second \in 1..Second
      BY DEF TypeOK
    <3>2. ttl' = ttl \/ ttl' = [ttl EXCEPT ![IncrKey(w)] = Second]
      BY <1>4, Zenon DEF Expire
    <3> QED
      BY <2>1, <3>1, <3>2, Zenon
  <2>4. PICK l \in {"idle", "set_cred", "set_ip"} :
          /\ Goto(w, l) /\ UNCHANGED <<freq, block, req, recent, plan>>
          /\ l = "set_cred" => req[w].kind # "ip"
    BY <1>4, <2>2 DEF Expire
  <2> QED
    BY <1>0, <2>3, <2>4 DEF TypeOK, Goto
<1>5. ASSUME NEW w \in Workers, SetCred(w) \/ SetIp(w) PROVE TypeOK'
  <2>1. block' \in [Bans -> [Ids -> 0..BanExpire]]
    <3>1. block \in [Bans -> [Ids -> 0..BanExpire]] /\ BanExpire \in 0..BanExpire
      BY DEF TypeOK
    <3>2. PICK b \in Bans, i \in Ids :
            block' = block \/ block' = [block EXCEPT ![b] = [block[b] EXCEPT ![i] = BanExpire]]
      <4>1. req[w] \in Requests /\ (pc[w] = "set_cred" => req[w].kind # "ip")
        BY Zenon DEF TypeOK
      <4>2. req[w].ip \in Ids /\ (pc[w] = "set_cred" => req[w].cred \in Ids)
        BY <4>1, KeyTypes, Zenon
      <4> QED
        BY <1>5, <4>2, Zenon DEF SetCred, SetIp, SetBlock, Bans
    <3>3. [block[b] EXCEPT ![i] = BanExpire] \in [Ids -> 0..BanExpire]
      BY <3>1, Zenon
    <3> QED
      BY <3>1, <3>2, <3>3, Zenon
  <2>2. PICK l \in {"idle", "set_ip"} :
          Goto(w, l) /\ UNCHANGED <<freq, ttl, req, recent, plan>>
    BY <1>5, Zenon DEF SetCred, SetIp
  <2> QED
    BY <1>0, <2>1, <2>2 DEF TypeOK, Goto
<1>6. CASE Tick
  <2>1. recent' \in [Ids -> [Ages -> Nat]]
    BY <1>6 DEF Tick, TypeOK, Ages
  <2>2. ttl' \in [Ids -> 1..Second \cup {Forever}]
    BY <1>6 DEF Tick, TypeOK, Forever
  <2>3. age' \in [Workers -> 0..CmdTicks]
    BY <1>6 DEF Tick, TypeOK
  <2>4. block' \in [Bans -> [Ids -> 0..BanExpire]] /\ freq' \in [Ids -> Nat]
    BY <1>6 DEF Tick, TypeOK, BlockAfterTick, Banned
  <2> QED
    BY <1>0, <1>6, <2>1, <2>2, <2>3, <2>4, Zenon DEF Tick, TypeOK
<1>7. CASE UNCHANGED vars
  BY <1>7, Zenon DEF vars, redis, TypeOK
<1> QED
  BY <1>1, <1>2, <1>3, <1>4, <1>5, <1>6, <1>7, Zenon DEF Next, Command

(* Every step keeps the counters owned.                                    *)
LEMMA OwnerStep == IndInv /\ [Next]_vars => Owner'
<1> SUFFICES ASSUME TypeOK, Owner, [Next]_vars PROVE Owner'
  BY Zenon DEF IndInv
<1> USE TickTypes
<1>1. ASSUME NEW w \in Workers, Start(w) PROVE Owner'
  <2>1. /\ pc'[w] # "expire" /\ UNCHANGED <<freq, ttl>>
        /\ \A v \in Workers \ {w} : pc'[v] = pc[v] /\ req'[v] = req[v]
    BY <1>1, Zenon DEF Start, TypeOK, Goto, redis
  <2> QED
    BY <2>1 DEF Owner, IncrKey
<1>2. ASSUME NEW w \in Workers, GetCred(w) \/ GetIp(w) \/ SetCred(w) \/ SetIp(w)
      PROVE Owner'
  <2>1. /\ pc'[w] # "expire" /\ UNCHANGED <<freq, ttl, req>>
        /\ \A v \in Workers \ {w} : pc'[v] = pc[v]
    <3>1. PICK l \in {"idle", "get_ip", "incr", "set_ip"} :
            Goto(w, l) /\ UNCHANGED <<freq, ttl, req>>
      BY <1>2, Zenon DEF GetCred, GetIp, SetCred, SetIp, redis
    <3> QED
      BY <3>1, Zenon DEF TypeOK, Goto
  <2> QED
    BY <2>1 DEF Owner, IncrKey
<1>3. ASSUME NEW w \in Workers, Incr(w) PROVE Owner'
  <2> DEFINE k == IncrKey(w)
  <2>1. k \in Ids
    BY KeyTypes, Zenon DEF IncrKey, TypeOK
  <2>2. /\ UNCHANGED <<ttl, req>>
        /\ \A i \in Ids : freq[i] \in Nat /\ freq'[i] \in Nat /\ freq'[i] >= freq[i]
        /\ \A v \in Workers \ {w} : pc'[v] = pc[v]
    <3>1. freq \in [Ids -> Nat]
      BY Zenon DEF TypeOK
    <3>2. freq' = freq \/ freq' = [freq EXCEPT ![IncrKey(w)] = freq[IncrKey(w)] + 1]
      BY <1>3, Zenon DEF Incr
    <3>3. \A i \in Ids : freq[i] \in Nat /\ freq'[i] \in Nat /\ freq'[i] >= freq[i]
      BY <2>1, <3>1, <3>2
    <3>4. PICK l : pc' = [pc EXCEPT ![w] = l]
      BY <1>3, Zenon DEF Incr, Goto
    <3> QED
      BY <1>3, <3>3, <3>4, Zenon DEF Incr, TypeOK
  <2>3. \A v \in Workers : IncrKey(v)' = IncrKey(v) /\ IncrKey(v) \in Ids
    BY <2>2, KeyTypes, Zenon DEF IncrKey, TypeOK
  <2>4. pc'[w] = "expire" => freq[k] = 0 /\ freq'[k] = 1
    <3> SUFFICES ASSUME pc'[w] = "expire" PROVE freq[k] = 0 /\ freq'[k] = 1
      BY Zenon
    <3>1. freq \in [Ids -> Nat] /\ pc = [v \in Workers |-> pc[v]]
      BY Zenon DEF TypeOK
    <3>2. \A l : Goto(w, l) => l = "expire"
      BY <3>1, Zenon DEF Goto
    <3>3. freq' = [freq EXCEPT ![k] = freq[k] + 1] /\ Goto(w, AfterIncr(w, freq[k] + 1))
      BY <1>3, <3>2, Zenon DEF Incr
    <3>4. freq[k] + 1 = 1
      BY <3>2, <3>3, Zenon DEF AfterIncr, AfterCount
    <3> QED
      BY <2>1, <3>1, <3>3, <3>4
  <2>5. \A i \in Ids : ttl'[i] # Forever => freq'[i] > 0
    BY <2>2 DEF Owner
  <2>6. ASSUME NEW v \in Workers, pc'[v] = "expire", v # w
        PROVE  freq'[IncrKey(v)] > 0 /\ ttl'[IncrKey(v)] = Forever /\ freq[IncrKey(v)] > 0
    BY <2>2, <2>3, <2>6 DEF Owner
  <2>7. pc'[w] = "expire" => freq'[k] > 0 /\ ttl'[k] = Forever
    BY <2>1, <2>2, <2>4 DEF Owner
  <2>8. ASSUME NEW v \in Workers, NEW u \in Workers,
               pc'[v] = "expire", pc'[u] = "expire", IncrKey(v) = IncrKey(u)
        PROVE  u = v
    BY <2>1, <2>2, <2>4, <2>6, <2>8 DEF Owner
  <2> QED
    BY <2>3, <2>5, <2>6, <2>7, <2>8, Zenon DEF Owner
<1>4. ASSUME NEW w \in Workers, Expire(w) PROVE Owner'
  <2>1. IncrKey(w) \in Ids
    BY KeyTypes, Zenon DEF IncrKey, TypeOK
  <2>2. /\ pc[w] = "expire" /\ pc'[w] # "expire" /\ UNCHANGED <<freq, req>>
        /\ \A v \in Workers \ {w} : pc'[v] = pc[v]
        /\ \A i \in Ids \ {IncrKey(w)} : ttl'[i] = ttl[i]
    BY <1>4, <2>1, Zenon DEF Expire, AfterCount, TypeOK, Goto
  <2>3. \A v \in Workers : IncrKey(v)' = IncrKey(v) /\ IncrKey(v) \in Ids
    BY <2>2, KeyTypes, Zenon DEF IncrKey, TypeOK
  <2> QED
    BY <2>1, <2>2, <2>3 DEF Owner
<1>5. CASE Tick
  <2>1. /\ UNCHANGED <<pc, req>>
        /\ \A i \in Ids : /\ ttl[i] = Forever => ttl'[i] = Forever /\ freq'[i] = freq[i]
                          /\ ttl'[i] # Forever => ttl[i] # Forever /\ freq'[i] = freq[i]
    BY <1>5 DEF Tick, TypeOK, Forever
  <2>2. \A v \in Workers : IncrKey(v)' = IncrKey(v) /\ IncrKey(v) \in Ids
    BY <2>1, KeyTypes, Zenon DEF IncrKey, TypeOK
  <2> QED
    BY <2>1, <2>2 DEF Owner
<1>6. CASE UNCHANGED vars
  BY <1>6, Zenon DEF vars, redis, Owner, IncrKey
<1> QED
  BY <1>1, <1>2, <1>3, <1>4, <1>5, <1>6, Zenon DEF Next, Command

(* The inductive invariant holds throughout.                               *)
LEMMA Invariance == Spec => []IndInv
<1>1. IndInv /\ [Next]_vars => IndInv'
  BY TypeStep, OwnerStep, Zenon DEF IndInv
<1> QED
  BY <1>1, InitInd, PTL DEF Spec

(***************************************************************************)
(* The limiter's state keeps its types, whatever fails.                    *)
(***************************************************************************)
THEOREM TypeCorrect == Spec => []TypeOK
<1>1. IndInv => TypeOK
  BY Zenon DEF IndInv
<1> QED
  BY <1>1, Invariance, PTL

(***************************************************************************)
(* A counter's second is never prolonged: EXPIRE is sent only by the       *)
(* request whose INCR returned 1, whether or not commands fail.            *)
(***************************************************************************)
THEOREM WindowCorrect == Spec => WindowFixed
<1> DEFINE Fixed == \A i \in Ids : ttl[i] # Forever =>
                      \/ ttl'[i] \in 1..ttl[i]
                      \/ ttl'[i] = Forever /\ freq'[i] = 0
<1>1. IndInv /\ [Next]_vars => [Fixed]_vars
  <2> SUFFICES ASSUME TypeOK, Owner, Next PROVE Fixed
    BY Zenon DEF IndInv
  <2> USE TickTypes
  <2>1. CASE UNCHANGED ttl
    BY <2>1 DEF TypeOK, Forever
  <2>2. ASSUME NEW w \in Workers, Expire(w) PROVE Fixed
    <3>1. IncrKey(w) \in Ids
      BY KeyTypes, Zenon DEF IncrKey, TypeOK
    <3>2. \A i \in Ids : i # IncrKey(w) => ttl'[i] = ttl[i]
      BY <2>2, <3>1, Zenon DEF Expire, TypeOK
    <3>3. ttl[IncrKey(w)] = Forever
      BY <2>2, Zenon DEF Expire, Owner
    <3>4. \A i \in Ids : ttl[i] # Forever => ttl[i] \in 1..ttl[i]
      BY DEF TypeOK
    <3> QED
      BY <3>2, <3>3, <3>4, Zenon
  <2>3. CASE Tick
    BY <2>3 DEF Tick, TypeOK, Forever
  <2>4. Next => Tick \/ UNCHANGED ttl \/ \E w \in Workers : Expire(w)
    BY Zenon DEF Next, Command, Start, GetCred, GetIp, Incr, SetCred, SetIp, redis
  <2> QED
    BY <2>1, <2>2, <2>3, <2>4, Zenon
<1> QED
  BY <1>1, Invariance, PTL DEF Spec, WindowFixed

(***************************************************************************)
(* As long as no Redis command fails, a counter without a time to live is  *)
(* about to be given one, by the request that created it.                  *)
(***************************************************************************)
THEOREM CountersCorrect == Spec => []CountersExpire
<1>1. Init => CountersExpire
  BY DEF Init, CountersExpire
<1>2. IndInv /\ CountersExpire /\ [Next]_vars => CountersExpire'
  <2> SUFFICES ASSUME TypeOK, Owner, CountersExpire, [Next]_vars, fails' = 0,
                      NEW i \in Ids, freq'[i] > 0, ttl'[i] = Forever
               PROVE  \E w \in Workers : pc'[w] = "expire" /\ IncrKey(w)' = i
    BY Zenon DEF IndInv, CountersExpire
  <2> USE TickTypes
  <2>0. fails = 0 /\ ~ Fail
    <3>1. fails' = fails \/ Fail
      BY Zenon DEF Next, Command, Start, GetCred, GetIp, Incr, Expire, SetCred,
                   SetIp, SetBlock, Tick, vars
    <3>2. ~ Fail
      BY DEF TypeOK, Fail
    <3> QED
      BY <3>1, <3>2, Zenon
  <2>1. ASSUME NEW w \in Workers, Start(w) \/ GetCred(w) \/ GetIp(w) \/ SetCred(w) \/ SetIp(w)
        PROVE  \E v \in Workers : pc'[v] = "expire" /\ IncrKey(v)' = i
    <3>1. /\ pc[w] # "expire" /\ UNCHANGED <<freq, ttl>>
          /\ \A v \in Workers \ {w} : pc'[v] = pc[v] /\ req'[v] = req[v]
      BY <2>1, Zenon DEF Start, GetCred, GetIp, SetCred, SetIp, TypeOK, Goto, redis
    <3> QED
      BY <2>0, <3>1 DEF CountersExpire, IncrKey
  <2>2. ASSUME NEW w \in Workers, Incr(w)
        PROVE  \E v \in Workers : pc'[v] = "expire" /\ IncrKey(v)' = i
    <3>1. IncrKey(w) \in Ids
      BY KeyTypes, Zenon DEF IncrKey, TypeOK
    <3>2. /\ UNCHANGED <<ttl, req>> /\ pc[w] # "expire"
          /\ \A v \in Workers \ {w} : pc'[v] = pc[v]
          /\ freq' = [freq EXCEPT ![IncrKey(w)] = @ + 1]
          /\ pc' = [pc EXCEPT ![w] = AfterIncr(w, freq[IncrKey(w)] + 1)]
      BY <2>0, <2>2, <3>1, Zenon DEF Incr, TypeOK, Goto
    <3>3. CASE freq[i] > 0
      BY <2>0, <3>2, <3>3 DEF CountersExpire, IncrKey
    <3>4. CASE freq[i] = 0
      <4>1. i = IncrKey(w)
        BY <3>1, <3>2, <3>4 DEF TypeOK
      <4>2. pc'[w] = "expire"
        BY <3>2, <3>4, <4>1 DEF AfterIncr, TypeOK
      <4> QED
        BY <3>2, <4>1, <4>2, Zenon DEF IncrKey
    <3> QED
      BY <3>3, <3>4 DEF TypeOK
  <2>3. ASSUME NEW w \in Workers, Expire(w)
        PROVE  \E v \in Workers : pc'[v] = "expire" /\ IncrKey(v)' = i
    <3>1. IncrKey(w) \in Ids
      BY KeyTypes, Zenon DEF IncrKey, TypeOK
    <3>2. /\ UNCHANGED <<freq, req>> /\ freq[IncrKey(w)] > 0
          /\ \A v \in Workers \ {w} : pc'[v] = pc[v]
          /\ ttl' = [ttl EXCEPT ![IncrKey(w)] = Second]
      BY <2>0, <2>3, <3>1, Zenon DEF Expire, TypeOK, Goto, Owner
    <3>3. i # IncrKey(w)
      BY <3>1, <3>2 DEF TypeOK, Forever
    <3>4. ttl[i] = Forever
      BY <3>2, <3>3, Zenon DEF TypeOK
    <3>5. PICK v \in Workers : pc[v] = "expire" /\ IncrKey(v) = i
      BY <2>0, <3>2, <3>4, Zenon DEF CountersExpire
    <3> QED
      BY <3>2, <3>3, <3>5, Zenon DEF IncrKey
  <2>4. CASE Tick
    <3>1. UNCHANGED <<pc, req>> /\ freq[i] > 0 /\ ttl[i] = Forever
      BY <2>4 DEF Tick, TypeOK, Forever
    <3> QED
      BY <2>0, <3>1, Zenon DEF CountersExpire, IncrKey
  <2>5. CASE UNCHANGED vars
    BY <2>0, <2>5, Zenon DEF vars, redis, CountersExpire, IncrKey
  <2> QED
    BY <2>1, <2>2, <2>3, <2>4, <2>5, Zenon DEF Next, Command
<1> QED
  BY <1>1, <1>2, Invariance, PTL DEF Spec

-----------------------------------------------------------------------------
(* How far the limiter lets a limit be exceeded.  A request looks up the   *)
(* bans, is counted and sets a ban with separate commands, so requests     *)
(* that passed the check are still counted after another one's ban; and an *)
(* id that is a credential and an ip has two bans and one counter.         *)

(* The highest of the limits.                                              *)
Top == CHOOSE n \in {MaxFreq[k] : k \in Kinds} : \A k \in Kinds : MaxFreq[k] <= n

(* The requests that will be counted under i, having passed the check for  *)
(* its ban b, and those about to set that ban.                             *)
Passed(b, i) ==
    {w \in Workers : /\ IncrKey(w) = i /\ BanKey(w) = b
                     /\ pc[w] = "incr" \/ (pc[w] = "get_ip" /\ b # "ip")}

Setting(b, i) ==
    {w \in Workers : /\ IncrKey(w) = i /\ BanKey(w) = b
                     /\ pc[w] = IF b = "ip" THEN "set_ip" ELSE "set_cred"}

(* The ban b of i lasts at least as long as the counter of i.              *)
Outlives(b, i) ==
    \/ ttl[i] # Forever /\ block[b][i] >= ttl[i]
    \/ /\ ttl[i] = Forever
       /\ \E w \in Workers : /\ pc[w] = "expire" /\ IncrKey(w) = i
                             /\ block[b][i] >= (CmdTicks - age[w]) + Second

(* n requests were counted beyond the limits that ban b did not stop:      *)
(* all of them are still about to set it; or one of them has set it, and   *)
(* the only ones yet to be counted are those that had passed the check.    *)
Beyond(b, i, n) ==
    \/ n <= Cardinality(Setting(b, i))
    \/ Outlives(b, i) /\ n + Cardinality(Passed(b, i)) <= Cardinality(Workers)

(* The requests counted beyond the limits as credentials and as ips.       *)
OverInv(i) ==
    \E m \in Nat, n \in Nat :
        /\ freq[i] <= Top + (m + n)
        /\ Beyond("cred", i, m) /\ ("cred" \notin BansOf(i) => m = 0)
        /\ Beyond("ip", i, n) /\ ("ip" \notin BansOf(i) => n = 0)

(* No limit is above it.                                                   *)
LEMMA TopBounds ==
    /\ Top \in Nat /\ \E k \in Kinds : Top = MaxFreq[k]
    /\ \A k \in Kinds : MaxFreq[k] \in Nat /\ 1 <= MaxFreq[k] /\ MaxFreq[k] <= Top
<1>1. \A k \in Kinds : MaxFreq[k] \in Nat /\ 1 <= MaxFreq[k]
  BY AccessLimitAssumption
<1>2. \E n \in {MaxFreq[k] : k \in Kinds} : \A k \in Kinds : MaxFreq[k] <= n
  <2>1. PICK x \in Kinds :
          /\ MaxFreq["token"] <= MaxFreq[x] /\ MaxFreq["cookie"] <= MaxFreq[x]
          /\ MaxFreq["ip"] <= MaxFreq[x]
    BY <1>1 DEF Kinds
  <2> QED
    BY <2>1, Zenon DEF Kinds
<1>3. Top \in {MaxFreq[k] : k \in Kinds} /\ \A k \in Kinds : MaxFreq[k] <= Top
  BY <1>2, Zenon DEF Top
<1> QED
  BY <1>1, <1>3, Zenon

(* How many requests are at a point: what is used of the size of sets.     *)
Sizes ==
    /\ \A S \in SUBSET Workers : Cardinality(S) \in Nat
    /\ \A S \in SUBSET Workers, T \in SUBSET Workers :
         T \subseteq S => Cardinality(T) <= Cardinality(S)
    /\ \A S \in SUBSET Workers, w \in Workers :
         w \notin S => Cardinality(S \cup {w}) = Cardinality(S) + 1
    /\ \A S \in SUBSET Workers, T \in SUBSET Workers :
         S \cap T = {} => Cardinality(S \cup T) = Cardinality(S) + Cardinality(T)

(* The requests at the two points are different ones.                      *)
LEMMA Counts ==
    ASSUME Sizes, NEW b, NEW i
    PROVE  /\ Cardinality(Setting(b, i)) \in Nat /\ Cardinality(Passed(b, i)) \in Nat
           /\ Cardinality(Workers) \in Nat
           /\ Cardinality(Setting(b, i)) + Cardinality(Passed(b, i)) <= Cardinality(Workers)
<1>1. Setting(b, i) \in SUBSET Workers /\ Passed(b, i) \in SUBSET Workers
  BY Zenon DEF Setting, Passed
<1>2. Setting(b, i) \cap Passed(b, i) = {}
  BY Zenon DEF Setting, Passed
<1>3. Cardinality(Setting(b, i) \cup Passed(b, i))
        = Cardinality(Setting(b, i)) + Cardinality(Passed(b, i))
  BY <1>1, <1>2, Zenon DEF Sizes
<1>4. Cardinality(Setting(b, i) \cup Passed(b, i)) <= Cardinality(Workers)
  BY <1>1, Zenon DEF Sizes
<1> QED
  BY <1>1, <1>3, <1>4, Zenon DEF Sizes

(* A ban that outlives the counter has not ended yet.                      *)
LEMMA OutlivesBanned ==
    ASSUME TypeOK, NEW b \in Bans, NEW i \in Ids PROVE Outlives(b, i) => Banned(b, i)
<1>1. block[b][i] \in Nat
  BY TickTypes DEF TypeOK
<1>2. ttl[i] \in Int /\ (ttl[i] # Forever => ttl[i] >= 1)
  BY TickTypes DEF TypeOK, Forever
<1>3. \A w \in Workers : age[w] \in 0..CmdTicks
  BY Zenon DEF TypeOK
<1> QED
  BY <1>1, <1>2, <1>3, TickTypes DEF Outlives, Banned

(* A step that neither counts i nor ends a ban of it.                      *)
LEMMA OverFrame ==
    ASSUME Sizes, TypeOK, TypeOK', NEW b \in Bans, NEW i \in Ids, NEW n \in Nat, Beyond(b, i, n),
           ttl'[i] = ttl[i], block'[b][i] >= block[b][i],
           Setting(b, i)' = Setting(b, i),
           Passed(b, i)' \subseteq Passed(b, i) \/ ~ Banned(b, i),
           \A v \in Workers : pc[v] = "expire" /\ IncrKey(v) = i =>
              pc'[v] = "expire" /\ IncrKey(v)' = i /\ age'[v] = age[v]
    PROVE  Beyond(b, i, n)'
<1>1. CASE n <= Cardinality(Setting(b, i))
  BY <1>1, Zenon DEF Beyond
<1>2. CASE Outlives(b, i) /\ n + Cardinality(Passed(b, i)) <= Cardinality(Workers)
  <2>1. Passed(b, i)' \subseteq Passed(b, i)
    BY <1>2, OutlivesBanned, Zenon
  <2>2. Cardinality(Passed(b, i)') <= Cardinality(Passed(b, i)) /\ Cardinality(Passed(b, i)') \in Nat
    <3>1. Passed(b, i) \in SUBSET Workers /\ Passed(b, i)' \in SUBSET Workers
      BY Zenon DEF Passed
    <3> QED
      BY <2>1, <3>1, Zenon DEF Sizes
  <2>3. n + Cardinality(Passed(b, i)') <= Cardinality(Workers)
    BY <1>2, <2>2, Counts
  <2>4. Outlives(b, i)'
    <3>1. block[b][i] \in Nat /\ block'[b][i] \in Nat /\ ttl[i] \in Int
      BY TickTypes DEF TypeOK, Forever
    <3>2. CASE ttl[i] # Forever /\ block[b][i] >= ttl[i]
      BY <3>1, <3>2 DEF Outlives
    <3>3. CASE ttl[i] = Forever
      <4>1. PICK v \in Workers : pc[v] = "expire" /\ IncrKey(v) = i
                                 /\ block[b][i] >= (CmdTicks - age[v]) + Second
        BY <1>2, <3>3, Zenon DEF Outlives
      <4>2. age[v] \in 0..CmdTicks
        BY Zenon DEF TypeOK
      <4>3. pc'[v] = "expire" /\ IncrKey(v)' = i /\ block'[b][i] >= (CmdTicks - age'[v]) + Second
        BY <3>1, <4>1, <4>2, TickTypes
      <4> QED
        BY <3>3, <4>3, Zenon DEF Outlives
    <3> QED
      BY <1>2, <3>2, <3>3, Zenon DEF Outlives
  <2> QED
    BY <2>3, <2>4, Zenon DEF Beyond
<1> QED
  BY <1>1, <1>2, Zenon DEF Beyond

(* Where the requests are after a step of w.                               *)
LEMMA OverPlaces ==
    ASSUME TypeOK, NEW b, NEW i, NEW w \in Workers, NEW l, Goto(w, l), req' = req
    PROVE  /\ \A v \in Workers \ {w} : /\ v \in Setting(b, i)' <=> v \in Setting(b, i)
                                       /\ v \in Passed(b, i)' <=> v \in Passed(b, i)
           /\ \A v \in Workers \ {w} : pc'[v] = pc[v] /\ IncrKey(v)' = IncrKey(v) /\ age'[v] = age[v]
           /\ pc'[w] = l /\ IncrKey(w)' = IncrKey(w) /\ BanKey(w)' = BanKey(w)
<1>1. /\ \A v \in Workers \ {w} : pc'[v] = pc[v] /\ age'[v] = age[v]
      /\ pc'[w] = l
  BY Zenon DEF TypeOK, Goto
<1>2. \A v \in Workers : IncrKey(v)' = IncrKey(v) /\ BanKey(v)' = BanKey(v)
  BY Zenon DEF IncrKey, BanKey
<1> QED
  BY <1>1, <1>2 DEF Setting, Passed

(* The requests at a point stay the same when w does.                      *)
LEMMA OverSame ==
    ASSUME TypeOK, NEW b, NEW i, NEW w \in Workers, NEW l, Goto(w, l), req' = req
    PROVE  /\ (w \in Setting(b, i)' <=> w \in Setting(b, i)) => Setting(b, i)' = Setting(b, i)
           /\ (w \in Passed(b, i)' <=> w \in Passed(b, i)) => Passed(b, i)' = Passed(b, i)
           /\ (w \in Passed(b, i)' => w \in Passed(b, i)) => Passed(b, i)' \subseteq Passed(b, i)
<1>1. /\ Setting(b, i) \subseteq Workers /\ Setting(b, i)' \subseteq Workers
      /\ Passed(b, i) \subseteq Workers /\ Passed(b, i)' \subseteq Workers
  BY Zenon DEF Setting, Passed
<1>2. \A v \in Workers \ {w} : /\ v \in Setting(b, i)' <=> v \in Setting(b, i)
                               /\ v \in Passed(b, i)' <=> v \in Passed(b, i)
  BY OverPlaces, Zenon
<1> QED
  BY <1>1, <1>2

(* A request arrives, and looks up the bans.                               *)
LEMMA OverLookup ==
    ASSUME Sizes, TypeOK, TypeOK', fails' = fails, NEW b \in Bans, NEW i \in Ids, NEW n \in Nat,
           Beyond(b, i, n), NEW w \in Workers, Start(w) \/ GetCred(w) \/ GetIp(w)
    PROVE  Beyond(b, i, n)'
<1>1. UNCHANGED <<freq, ttl, block>> /\ ~ Fail
  BY FailCounts, Zenon DEF Start, GetCred, GetIp, redis
<1>2. block'[b][i] >= block[b][i]
  BY <1>1, TickTypes DEF TypeOK
<1>3. CASE Start(w)
  <2>1. /\ \A v \in Workers \ {w} : pc'[v] = pc[v] /\ IncrKey(v)' = IncrKey(v) /\ age'[v] = age[v]
        /\ \A v \in Workers \ {w} : req'[v] = req[v] /\ BanKey(v)' = BanKey(v)
        /\ pc[w] = "idle"
        /\ pc'[w] = "get_cred" \/ (pc'[w] = "get_ip" /\ BanKey(w)' = "ip")
    BY <1>3 DEF Start, Goto, TypeOK, IncrKey, BanKey
  <2>2. Setting(b, i)' = Setting(b, i)
    BY <2>1, Zenon DEF Setting
  <2>3. Passed(b, i)' = Passed(b, i)
    BY <2>1, Zenon DEF Passed
  <2>4. \A v \in Workers : pc[v] = "expire" => v # w
    BY <2>1, Zenon
  <2> QED
    BY <1>1, <1>2, <2>1, <2>2, <2>3, <2>4, OverFrame, Zenon
<1>4. CASE GetCred(w)
  <2>1. PICK l \in {"idle", "get_ip"} : /\ Goto(w, l) /\ req' = req /\ pc[w] = "get_cred"
                                        /\ l = "get_ip" => ~ Banned("cred", req[w].cred)
    BY <1>1, <1>4, Zenon DEF GetCred
  <2>2. BanKey(w) = "cred" /\ IncrKey(w) = req[w].cred
    BY <2>1, Zenon DEF TypeOK, IncrKey, BanKey
  <2>3. w \notin Setting(b, i) /\ w \notin Setting(b, i)'
    BY <2>1, <2>2, OverPlaces DEF Setting
  <2>4. Setting(b, i)' = Setting(b, i)
    BY <2>1, <2>3, OverSame, Zenon
  <2>5. w \in Passed(b, i)' => ~ Banned(b, i)
    BY <2>1, <2>2, OverPlaces DEF Passed
  <2>6. Passed(b, i)' \subseteq Passed(b, i) \/ ~ Banned(b, i)
    BY <2>1, <2>5, OverSame, Zenon
  <2>7. \A v \in Workers : pc[v] = "expire" => v # w
    BY <2>1, Zenon
  <2> QED
    BY <1>1, <1>2, <2>1, <2>4, <2>6, <2>7, OverPlaces, OverFrame, Zenon
<1>5. CASE GetIp(w)
  <2>1. PICK l \in {"idle", "incr"} : /\ Goto(w, l) /\ req' = req /\ pc[w] = "get_ip"
                                      /\ l = "incr" => ~ Banned("ip", req[w].ip)
    BY <1>1, <1>5, Zenon DEF GetIp
  <2>2. w \notin Setting(b, i) /\ w \notin Setting(b, i)'
    BY <2>1, OverPlaces DEF Setting
  <2>3. Setting(b, i)' = Setting(b, i)
    BY <2>1, <2>2, OverSame, Zenon
  <2>4. w \in Passed(b, i)' => w \in Passed(b, i) \/ ~ Banned(b, i)
    <3>1. pc'[w] = l /\ BanKey(w)' = BanKey(w) /\ IncrKey(w)' = IncrKey(w)
      BY <2>1, OverPlaces, Zenon
    <3>2. CASE BanKey(w) = "ip"
      <4>1. IncrKey(w) = req[w].ip
        BY <3>2, BanTypes, Zenon DEF IncrKey
      <4> QED
        BY <2>1, <3>1, <3>2, <4>1, Zenon DEF Passed
    <3>3. CASE BanKey(w) # "ip"
      BY <2>1, <3>1, <3>3, Zenon DEF Passed
    <3> QED
      BY <3>2, <3>3, Zenon
  <2>5. Passed(b, i)' \subseteq Passed(b, i) \/ ~ Banned(b, i)
    BY <2>1, <2>4, OverSame, Zenon
  <2>6. \A v \in Workers : pc[v] = "expire" => v # w
    BY <2>1, Zenon
  <2> QED
    BY <1>1, <1>2, <2>1, <2>3, <2>5, <2>6, OverPlaces, OverFrame, Zenon
<1> QED
  BY <1>3, <1>4, <1>5, Zenon

(* What counting a request does to the requests under its ban.             *)
LEMMA OverIncr ==
    ASSUME Sizes, TypeOK, TypeOK', fails' = fails, NEW b \in Bans, NEW i \in Ids, NEW n \in Nat,
           Beyond(b, i, n), NEW w \in Workers, Incr(w)
    PROVE  /\ i # IncrKey(w) \/ b # BanKey(w) => Beyond(b, i, n)'
           /\ i = IncrKey(w) /\ b = BanKey(w) /\ freq[i] + 1 > Top => Beyond(b, i, n + 1)'
<1>1. PICK k \in Ids : k = IncrKey(w)
  BY BanTypes, Zenon
<1>2. /\ pc[w] = "incr" /\ req' = req /\ UNCHANGED <<ttl, block>>
      /\ Goto(w, AfterIncr(w, freq[k] + 1))
  BY <1>1, FailCounts, Zenon DEF Incr
<1>3. PICK l : l = AfterIncr(w, freq[k] + 1)
  BY Zenon
<1>4. Goto(w, l)
  BY <1>2, <1>3, Zenon
<1>5. \A v \in Workers : pc[v] = "expire" => v # w
  BY <1>2, Zenon
<1>6. CASE i # k \/ b # BanKey(w)
  <2>1. w \notin Setting(b, i) /\ w \notin Setting(b, i)' /\ w \notin Passed(b, i)'
    BY <1>1, <1>2, <1>4, <1>6, OverPlaces DEF Setting, Passed
  <2>2. Setting(b, i)' = Setting(b, i) /\ Passed(b, i)' \subseteq Passed(b, i)
    BY <1>4, <1>2, <2>1, OverSame, Zenon
  <2>3. ttl'[i] = ttl[i] /\ block'[b][i] >= block[b][i]
    BY <1>2, TickTypes DEF TypeOK
  <2> QED
    BY <1>1, <1>2, <1>4, <1>5, <1>6, <2>2, <2>3, OverPlaces, OverFrame, Zenon
<1>7. ASSUME i = k, b = BanKey(w), freq[i] + 1 > Top PROVE Beyond(b, i, n + 1)'
  <2>1. freq[i] \in Nat
    BY Zenon DEF TypeOK
  <2>2. w \in Passed(b, i) /\ w \notin Setting(b, i)
    BY <1>1, <1>2, <1>7, Zenon DEF Passed, Setting
  <2>3. CASE Outlives(b, i) /\ n + Cardinality(Passed(b, i)) <= Cardinality(Workers)
    <3>1. w \notin Passed(b, i)'
      <4>1. l # "incr" /\ l # "get_ip"
        BY <1>3, Zenon DEF AfterIncr, AfterCount
      <4> QED
        BY <1>2, <1>4, <4>1, OverPlaces DEF Passed
    <3>2. Passed(b, i)' = Passed(b, i) \ {w}
      <4>1. Passed(b, i) \subseteq Workers /\ Passed(b, i)' \subseteq Workers
        BY Zenon DEF Passed
      <4>2. \A v \in Workers \ {w} : v \in Passed(b, i)' <=> v \in Passed(b, i)
        BY <1>2, <1>4, OverPlaces, Zenon
      <4> QED
        BY <3>1, <4>1, <4>2
    <3>3. Cardinality(Passed(b, i)') = Cardinality(Passed(b, i)) - 1
      <4>1. Passed(b, i)' \in SUBSET Workers /\ w \notin Passed(b, i)' /\ Passed(b, i)' \cup {w} = Passed(b, i)
        BY <2>2, <3>2, Zenon DEF Passed
      <4> QED
        BY <4>1 DEF Sizes
    <3>4. (n + 1) + Cardinality(Passed(b, i)') <= Cardinality(Workers)
      BY <2>3, <3>3, Counts
    <3>5. \A v \in Workers : pc[v] = "expire" /\ IncrKey(v) = i =>
            pc'[v] = "expire" /\ IncrKey(v)' = i /\ age'[v] = age[v]
      BY <1>2, <1>4, <1>5, OverPlaces, Zenon
    <3>6. Outlives(b, i)'
      BY <1>2, <2>3, <3>5, Zenon DEF Outlives
    <3> QED
      BY <3>4, <3>6, Zenon DEF Beyond
  <2>4. CASE n <= Cardinality(Setting(b, i))
    <3>1. req[w].kind \in Kinds
      BY KeyTypes, Zenon DEF TypeOK
    <3>2. freq[i] + 1 > 1 /\ freq[i] + 1 > MaxFreq[req[w].kind]
      BY <1>7, <2>1, <3>1, TopBounds
    <3>3. l = IF BanKey(w) = "ip" THEN "set_ip" ELSE "set_cred"
      BY <1>3, <1>7, <3>2 DEF AfterIncr, AfterCount, Exceeds
    <3>4. w \in Setting(b, i)'
      BY <1>1, <1>2, <1>4, <1>7, <3>3, OverPlaces DEF Setting
    <3>5. Setting(b, i)' = Setting(b, i) \cup {w}
      <4>1. Setting(b, i) \subseteq Workers /\ Setting(b, i)' \subseteq Workers
        BY Zenon DEF Setting
      <4>2. \A v \in Workers \ {w} : v \in Setting(b, i)' <=> v \in Setting(b, i)
        BY <1>2, <1>4, OverPlaces, Zenon
      <4> QED
        BY <3>4, <4>1, <4>2
    <3>6. Cardinality(Setting(b, i)') = Cardinality(Setting(b, i)) + 1
      <4>1. Setting(b, i) \in SUBSET Workers
        BY Zenon DEF Setting
      <4> QED
        BY <2>2, <3>5, <4>1, Zenon DEF Sizes
    <3>7. n + 1 <= Cardinality(Setting(b, i)')
      BY <2>4, <3>6, Counts
    <3> QED
      BY <3>7, Zenon DEF Beyond
  <2> QED
    BY <2>3, <2>4, Zenon DEF Beyond
<1> QED
  BY <1>1, <1>6, <1>7, Zenon

(* A counter is given its second.                                          *)
LEMMA OverExpire ==
    ASSUME Sizes, TypeOK, TypeOK', Owner, fails' = fails, NEW b \in Bans, NEW i \in Ids,
           NEW n \in Nat, Beyond(b, i, n), NEW w \in Workers, Expire(w)
    PROVE  Beyond(b, i, n)'
<1>1. PICK k \in Ids : k = IncrKey(w)
  BY BanTypes, Zenon
<1>2. /\ pc[w] = "expire" /\ req' = req /\ UNCHANGED block
      /\ ttl[k] = Forever /\ ttl' = [ttl EXCEPT ![k] = Second]
      /\ Goto(w, AfterCount(w, 1))
  BY <1>1, FailCounts, Zenon DEF Expire, Owner
<1>3. AfterCount(w, 1) = "idle"
  <2>1. req[w].kind \in Kinds
    BY KeyTypes, Zenon DEF TypeOK
  <2> QED
    BY <2>1, TopBounds DEF AfterCount, Exceeds
<1>4. Goto(w, "idle")
  BY <1>2, <1>3, Zenon
<1>5. /\ w \notin Setting(b, i) /\ w \notin Setting(b, i)'
      /\ w \notin Passed(b, i) /\ w \notin Passed(b, i)'
  BY <1>2, <1>4, OverPlaces DEF Setting, Passed
<1>6. Setting(b, i)' = Setting(b, i) /\ Passed(b, i)' = Passed(b, i)
  BY <1>2, <1>4, <1>5, OverSame, Zenon
<1>7. CASE i # k
  <2>1. ttl'[i] = ttl[i] /\ block'[b][i] >= block[b][i]
    BY <1>1, <1>2, <1>7, TickTypes DEF TypeOK
  <2>2. \A v \in Workers : IncrKey(v) = i => v # w
    BY <1>1, <1>7, Zenon
  <2> QED
    BY <1>2, <1>4, <1>6, <2>1, <2>2, OverPlaces, OverFrame, Zenon
<1>8. CASE i = k
  <2>1. ASSUME Outlives(b, i) PROVE Outlives(b, i)'
    <3>1. PICK v \in Workers : block[b][i] >= (CmdTicks - age[v]) + Second
      BY <1>2, <1>8, <2>1, Zenon DEF Outlives
    <3>2. age[v] \in 0..CmdTicks /\ block[b][i] \in Nat
      BY TickTypes DEF TypeOK
    <3>3. block'[b][i] >= Second
      BY <1>2, <3>1, <3>2, TickTypes
    <3>4. ttl'[i] = Second /\ Second # Forever
      BY <1>2, <1>8, TickTypes DEF TypeOK, Forever
    <3> QED
      BY <3>3, <3>4, Zenon DEF Outlives
  <2> QED
    BY <1>6, <2>1, Zenon DEF Beyond
<1> QED
  BY <1>7, <1>8, Zenon

(* A ban is set, which outlives the counter.                               *)
LEMMA OverSet ==
    ASSUME Sizes, TypeOK, TypeOK', CountersExpire, fails = 0, fails' = fails,
           NEW b \in Bans, NEW i \in Ids, NEW n \in Nat, Beyond(b, i, n), freq[i] # 0,
           NEW w \in Workers, SetCred(w) \/ SetIp(w)
    PROVE  Beyond(b, i, n)'
<1>1. PICK c \in Bans, id \in Ids, l \in {"set_ip", "idle"} :
        /\ block' = [block EXCEPT ![c] = [block[c] EXCEPT ![id] = BanExpire]] /\ Goto(w, l)
        /\ \/ pc[w] = "set_cred" /\ l = "set_ip" /\ c = "cred" /\ id = req[w].cred
              /\ BanKey(w) = "cred"
           \/ pc[w] = "set_ip" /\ l = "idle" /\ c = "ip" /\ id = req[w].ip
  <2>1. req[w] \in Requests /\ (pc[w] = "set_cred" => req[w].kind # "ip")
    BY Zenon DEF TypeOK
  <2>2. req[w].ip \in Ids /\ (req[w].kind # "ip" => req[w].cred \in Ids /\ BanKey(w) = "cred")
    BY <2>1, KeyTypes, Zenon DEF BanKey
  <2>3. ~ Fail
    BY FailCounts, Zenon
  <2> QED
    BY <2>1, <2>2, <2>3, Zenon DEF SetCred, SetIp, SetBlock, Bans
<1>2. req' = req /\ UNCHANGED <<freq, ttl>>
  BY Zenon DEF SetCred, SetIp
<1>3. /\ block[b][i] \in 0..BanExpire
      /\ block'[b][i] = IF b = c /\ i = id THEN BanExpire ELSE block[b][i]
  <2>1. block \in [Bans -> [Ids -> 0..BanExpire]]
    BY Zenon DEF TypeOK
  <2>2. block'[b] = IF b = c THEN [block[b] EXCEPT ![id] = BanExpire] ELSE block[b]
    BY <1>1, <2>1, Zenon
  <2> QED
    BY <2>1, <2>2, Zenon
<1>4. block'[b][i] >= block[b][i]
  BY <1>3, TickTypes
<1>5. w \notin Passed(b, i) /\ w \notin Passed(b, i)'
  BY <1>1, <1>2, OverPlaces DEF Passed
<1>6. Passed(b, i)' = Passed(b, i)
  BY <1>1, <1>2, <1>5, OverSame, Zenon
<1>7. \A v \in Workers : pc[v] = "expire" /\ IncrKey(v) = i =>
            pc'[v] = "expire" /\ IncrKey(v)' = i /\ age'[v] = age[v]
  BY <1>1, <1>2, OverPlaces, Zenon
<1>8. w \notin Setting(b, i)'
  BY <1>1, <1>2, OverPlaces DEF Setting
<1>9. CASE w \notin Setting(b, i)
  <2>1. Setting(b, i)' = Setting(b, i)
    BY <1>1, <1>2, <1>8, <1>9, OverSame, Zenon
  <2> QED
    BY <1>2, <1>4, <1>6, <1>7, <2>1, OverFrame, Zenon
<1>10. CASE w \in Setting(b, i)
  <2>1. i = id /\ b = c
    <3>1. IncrKey(w) = i /\ BanKey(w) = b /\ pc[w] = IF b = "ip" THEN "set_ip" ELSE "set_cred"
      BY <1>10, Zenon DEF Setting
    <3>2. IncrKey(w) = IF BanKey(w) = "ip" THEN req[w].ip ELSE req[w].cred
      BY BanTypes, Zenon DEF IncrKey
    <3> QED
      BY <1>1, <3>1, <3>2, Zenon DEF Bans
  <2>2. n + Cardinality(Passed(b, i)) <= Cardinality(Workers)
    BY Counts DEF Beyond
  <2>3. BanExpire > CmdTicks + Second
    BY AccessLimitAssumption, Zenon
  <2>4. Outlives(b, i)'
    <3>1. CASE ttl[i] # Forever
      <4>1. ttl[i] \in 1..Second
        BY <3>1, Zenon DEF TypeOK
      <4> QED
        BY <1>2, <1>3, <2>1, <2>3, <3>1, <4>1, TickTypes DEF Outlives
    <3>2. CASE ttl[i] = Forever
      <4>1. freq[i] > 0
        BY DEF TypeOK
      <4>2. PICK v \in Workers : pc[v] = "expire" /\ IncrKey(v) = i
        BY <3>2, <4>1, Zenon DEF CountersExpire
      <4>3. age[v] \in 0..CmdTicks
        BY Zenon DEF TypeOK
      <4>4. block'[b][i] >= (CmdTicks - age'[v]) + Second
        BY <1>3, <1>7, <2>1, <2>3, <4>2, <4>3, TickTypes
      <4> QED
        BY <1>2, <1>7, <3>2, <4>2, <4>4, Zenon DEF Outlives
    <3> QED
      BY <3>1, <3>2, Zenon
  <2> QED
    BY <1>6, <2>2, <2>4, Zenon DEF Beyond
<1> QED
  BY <1>9, <1>10, Zenon

(* Time passes: a counter that does not end, and its ban, run down         *)
(* together.                                                               *)
LEMMA OverTick ==
    ASSUME Sizes, TypeOK, TypeOK', NEW b \in Bans, NEW i \in Ids, NEW n \in Nat,
           Beyond(b, i, n), ttl[i] # 1, Tick
    PROVE  Beyond(b, i, n)' /\ freq'[i] = freq[i]
<1>1. /\ UNCHANGED <<pc, req>>
      /\ \A v \in Workers : pc[v] # "idle" => age'[v] = age[v] + 1
      /\ block'[b][i] = IF block[b][i] > 0 THEN block[b][i] - 1 ELSE 0
      /\ freq'[i] = freq[i]
      /\ ttl'[i] = IF ttl[i] = Forever THEN Forever ELSE ttl[i] - 1
  BY Zenon DEF Tick, BlockAfterTick, Banned, TypeOK
<1>2. Setting(b, i)' = Setting(b, i) /\ Passed(b, i)' = Passed(b, i)
  BY <1>1, Zenon DEF Setting, Passed, IncrKey, BanKey
<1>3. ASSUME Outlives(b, i) PROVE Outlives(b, i)'
  <2>1. block[b][i] > 0 /\ block[b][i] \in Nat /\ block'[b][i] = block[b][i] - 1
    <3>1. block[b][i] \in Nat
      BY TickTypes DEF TypeOK
    <3>2. block[b][i] > 0
      BY <1>3, OutlivesBanned, Zenon DEF Banned
    <3> QED
      BY <1>1, <3>1, <3>2, Zenon
  <2>2. CASE ttl[i] # Forever
    <3>1. ttl[i] \in 2..Second /\ block[b][i] >= ttl[i]
      BY <1>3, <2>2, TickTypes DEF TypeOK, Outlives
    <3>2. ttl'[i] = ttl[i] - 1 /\ ttl'[i] # Forever
      BY <1>1, <2>2, <3>1, TickTypes DEF Forever
    <3> QED
      BY <2>1, <3>1, <3>2, TickTypes DEF Outlives
  <2>3. CASE ttl[i] = Forever
    <3>1. PICK v \in Workers : pc[v] = "expire" /\ IncrKey(v) = i
                               /\ block[b][i] >= (CmdTicks - age[v]) + Second
      BY <1>3, <2>3, Zenon DEF Outlives
    <3>2. age[v] \in 0..CmdTicks /\ age'[v] = age[v] + 1
      BY <1>1, <3>1, Zenon DEF TypeOK
    <3>3. block'[b][i] >= (CmdTicks - age'[v]) + Second
      BY <2>1, <3>1, <3>2, TickTypes
    <3>4. ttl'[i] = Forever /\ pc'[v] = "expire" /\ IncrKey(v)' = i
      BY <1>1, <2>3, <3>1, Zenon DEF IncrKey
    <3> QED
      BY <3>3, <3>4, Zenon DEF Outlives
  <2> QED
    BY <2>2, <2>3, Zenon
<1> QED
  BY <1>1, <1>2, <1>3, Zenon DEF Beyond

-----------------------------------------------------------------------------
INSTANCE FiniteSetTheorems

(* There are finitely many requests at a time.                             *)
LEMMA SizesOfSets == Sizes
<1>1. IsFiniteSet(Workers)
  BY AccessLimitAssumption, Zenon
<1>2. \A S \in SUBSET Workers : IsFiniteSet(S) /\ Cardinality(S) \in Nat
  BY <1>1, FS_Subset, FS_CardinalityType, Zenon
<1>3. ASSUME NEW S \in SUBSET Workers, NEW T \in SUBSET Workers, S \cap T = {}
      PROVE  Cardinality(S \cup T) = Cardinality(S) + Cardinality(T)
  <2>1. IsFiniteSet(S) /\ IsFiniteSet(T) /\ Cardinality(S) \in Nat /\ Cardinality(T) \in Nat
    BY <1>2, Zenon
  <2>2. Cardinality(S \cap T) = 0
    BY <1>3, FS_EmptySet, Zenon
  <2>3. Cardinality(S \cup T) = Cardinality(S) + Cardinality(T) - Cardinality(S \cap T)
    BY <2>1, FS_Union, Zenon
  <2> QED
    BY <2>1, <2>2, <2>3
<1>4. ASSUME NEW S \in SUBSET Workers, NEW w \in Workers, w \notin S
      PROVE  Cardinality(S \cup {w}) = Cardinality(S) + 1
  BY <1>2, <1>4, FS_AddElement, Zenon
<1>5. ASSUME NEW S \in SUBSET Workers, NEW T \in SUBSET Workers, T \subseteq S
      PROVE  Cardinality(T) <= Cardinality(S)
  BY <1>2, <1>5, FS_Subset, Zenon
<1> QED
  BY <1>2, <1>3, <1>4, <1>5, Zenon DEF Sizes

(* A counter within the limits has nothing beyond them.                    *)
LEMMA OverNone ==
    ASSUME TypeOK, NEW i \in Ids, freq[i] <= Top PROVE OverInv(i)
<1>1. Beyond("cred", i, 0) /\ Beyond("ip", i, 0)
  BY SizesOfSets, Counts DEF Beyond
<1>2. freq[i] <= Top + (0 + 0) /\ 0 \in Nat
  BY TopBounds DEF TypeOK
<1> QED
  BY <1>1, <1>2, Zenon DEF OverInv

(* A step keeps the requests counted beyond the limits accounted for.      *)
LEMMA OverStep ==
    ASSUME IndInv, IndInv', CountersExpire, fails = 0, fails' = fails, [Next]_vars,
           NEW i \in Ids, OverInv(i)
    PROVE  OverInv(i)'
<1>1. TypeOK /\ TypeOK' /\ Owner /\ Sizes
  BY SizesOfSets, Zenon DEF IndInv
<1>2. PICK m \in Nat, n \in Nat :
        /\ freq[i] <= Top + (m + n)
        /\ Beyond("cred", i, m) /\ ("cred" \notin BansOf(i) => m = 0)
        /\ Beyond("ip", i, n) /\ ("ip" \notin BansOf(i) => n = 0)
  BY Zenon DEF OverInv
<1>3. "cred" \in Bans /\ "ip" \in Bans /\ freq[i] \in Nat /\ freq'[i] \in Nat
  BY <1>1, Zenon DEF Bans, TypeOK
<1>4. freq'[i] <= Top => OverInv(i)'
  <2>1. SUFFICES ASSUME freq'[i] <= Top PROVE OverInv(i)'
    BY Zenon
  <2>2. Beyond("cred", i, 0)' /\ Beyond("ip", i, 0)'
    <3>1. \A b : Setting(b, i)' \in SUBSET Workers
      BY Zenon DEF Setting
    <3>2. \A b : Cardinality(Setting(b, i)') \in Nat
      BY <1>1, <3>1, Zenon DEF Sizes
    <3> QED
      BY <3>2 DEF Beyond
  <2>3. freq'[i] <= Top + (0 + 0) /\ 0 \in Nat
    BY <1>3, <2>1, TopBounds
  <2> QED
    BY <2>2, <2>3, Zenon DEF OverInv, BansOf
<1>5. ASSUME freq'[i] = freq[i], Beyond("cred", i, m)', Beyond("ip", i, n)' PROVE OverInv(i)'
  BY <1>2, <1>5, Zenon DEF OverInv, BansOf
<1>6. ASSUME NEW w \in Workers, Start(w) \/ GetCred(w) \/ GetIp(w) PROVE OverInv(i)'
  <2>1. freq'[i] = freq[i]
    BY <1>6, Zenon DEF Start, GetCred, GetIp, redis
  <2> QED
    BY <1>1, <1>2, <1>3, <1>5, <1>6, <2>1, OverLookup, Zenon
<1>7. ASSUME NEW w \in Workers, Incr(w) PROVE OverInv(i)'
  <2>1. IncrKey(w) \in Ids /\ BanKey(w) \in BansOf(IncrKey(w)) /\ BanKey(w) \in {"cred", "ip"}
    BY <1>1, BanTypes, Zenon DEF Bans
  <2>2. freq' = [freq EXCEPT ![IncrKey(w)] = freq[IncrKey(w)] + 1]
    BY <1>1, <1>7, FailCounts, Zenon DEF Incr
  <2>3. CASE i # IncrKey(w)
    <3>1. freq'[i] = freq[i]
      BY <1>1, <2>1, <2>2, <2>3, Zenon DEF TypeOK
    <3> QED
      BY <1>1, <1>2, <1>3, <1>5, <1>7, <2>3, <3>1, OverIncr, Zenon
  <2>4. CASE i = IncrKey(w) /\ freq[i] + 1 > Top
    <3>1. freq'[i] = freq[i] + 1
      BY <1>1, <2>1, <2>2, <2>4, Zenon DEF TypeOK
    <3>2. CASE BanKey(w) = "cred"
      <4>1. Beyond("cred", i, m + 1)' /\ Beyond("ip", i, n)'
        BY <1>1, <1>2, <1>3, <1>7, <2>4, <3>2, OverIncr, Zenon
      <4>2. m + 1 \in Nat /\ freq'[i] <= Top + ((m + 1) + n)
        BY <1>2, <1>3, <3>1, TopBounds
      <4> QED
        BY <1>2, <2>1, <2>4, <3>2, <4>1, <4>2, Zenon DEF OverInv, BansOf
    <3>3. CASE BanKey(w) = "ip"
      <4>1. Beyond("cred", i, m)' /\ Beyond("ip", i, n + 1)'
        BY <1>1, <1>2, <1>3, <1>7, <2>4, <3>3, OverIncr, Zenon
      <4>2. n + 1 \in Nat /\ freq'[i] <= Top + (m + (n + 1))
        BY <1>2, <1>3, <3>1, TopBounds
      <4> QED
        BY <1>2, <2>1, <2>4, <3>3, <4>1, <4>2, Zenon DEF OverInv, BansOf
    <3> QED
      BY <2>1, <3>2, <3>3, Zenon
  <2>5. CASE i = IncrKey(w) /\ ~ (freq[i] + 1 > Top)
    <3>1. freq'[i] = freq[i] + 1
      BY <1>1, <2>1, <2>2, <2>5, Zenon DEF TypeOK
    <3>2. freq'[i] <= Top
      BY <1>3, <2>5, <3>1, TopBounds
    <3> QED
      BY <1>4, <3>2, Zenon
  <2> QED
    BY <2>3, <2>4, <2>5, Zenon
<1>8. ASSUME NEW w \in Workers, Expire(w) PROVE OverInv(i)'
  <2>1. freq'[i] = freq[i]
    BY <1>8, Zenon DEF Expire
  <2> QED
    BY <1>1, <1>2, <1>3, <1>5, <1>8, <2>1, OverExpire, Zenon
<1>9. ASSUME NEW w \in Workers, SetCred(w) \/ SetIp(w) PROVE OverInv(i)'
  <2>1. freq'[i] = freq[i]
    BY <1>9, Zenon DEF SetCred, SetIp
  <2>2. CASE freq[i] = 0
    BY <1>4, <2>1, <2>2, TopBounds
  <2>3. CASE freq[i] # 0
    BY <1>1, <1>2, <1>3, <1>5, <1>9, <2>1, <2>3, OverSet, Zenon
  <2> QED
    BY <2>2, <2>3, Zenon
<1>10. CASE Tick
  <2>1. CASE ttl[i] = 1
    <3>1. freq'[i] = 0
      BY <1>10, <2>1, Zenon DEF Tick
    <3> QED
      BY <1>4, <3>1, TopBounds
  <2>2. CASE ttl[i] # 1
    BY <1>1, <1>2, <1>3, <1>5, <1>10, <2>2, OverTick, Zenon
  <2> QED
    BY <2>1, <2>2, Zenon
<1>11. CASE UNCHANGED vars
  BY <1>11, Zenon DEF vars, redis, OverInv, Beyond, Outlives, Setting, Passed, IncrKey, BanKey
<1> QED
  BY <1>6, <1>7, <1>8, <1>9, <1>10, <1>11, Zenon DEF Next, Command

(***************************************************************************)
(* As long as no Redis command fails, no identity is counted further       *)
(* beyond the highest limit than there are requests at a time, for each of *)
(* its uses as a credential and as an ip, although looking up a ban,       *)
(* counting and setting the ban are separate commands.                     *)
(***************************************************************************)
THEOREM OvershootCorrect == Spec => []OvershootBounded
<1> DEFINE Over == fails = 0 => \A i \in Ids : OverInv(i)
<1>1. Init => Over
  <2> SUFFICES ASSUME Init, NEW i \in Ids PROVE OverInv(i)
    BY Zenon
  <2>1. freq[i] = 0 /\ TypeOK
    BY InitInd, Zenon DEF Init, IndInv
  <2>2. freq[i] <= Top
    BY <2>1, TopBounds
  <2> QED
    BY <2>1, <2>2, OverNone, Zenon
<1>2. IndInv /\ IndInv' /\ CountersExpire /\ Over /\ [Next]_vars => Over'
  <2> SUFFICES ASSUME IndInv, IndInv', CountersExpire, Over, [Next]_vars, fails' = 0, NEW i \in Ids
               PROVE  OverInv(i)'
    BY Zenon
  <2>1. fails = 0
    <3>1. fails' = fails \/ fails' = fails + 1
      BY Zenon DEF Next, Command, Start, GetCred, GetIp, Incr, Expire, SetCred,
                   SetIp, SetBlock, Fail, Tick, vars
    <3> QED
      BY <3>1 DEF IndInv, TypeOK
  <2> QED
    BY <2>1, OverStep, Zenon
<1>3. IndInv /\ Over => OvershootBounded
  <2> SUFFICES ASSUME IndInv, Over, fails = 0, NEW i \in Ids
               PROVE  freq[i] <= Top + Cardinality(Workers) * Cardinality(BansOf(i))
    BY TopBounds, Zenon DEF OvershootBounded
  <2> DEFINE W == Cardinality(Workers)
  <2>1. PICK m \in Nat, n \in Nat :
          /\ freq[i] <= Top + (m + n)
          /\ Beyond("cred", i, m) /\ ("cred" \notin BansOf(i) => m = 0)
          /\ Beyond("ip", i, n) /\ ("ip" \notin BansOf(i) => n = 0)
    BY Zenon DEF OverInv
  <2>2. W \in Nat /\ m <= W /\ n <= W /\ freq[i] \in Nat
    BY <2>1, SizesOfSets, Counts DEF Beyond, IndInv, TypeOK
  <2> HIDE DEF W
  <2>3. CASE "cred" \in BansOf(i) /\ "ip" \in BansOf(i)
    <3>1. BansOf(i) = {"cred", "ip"}
      BY <2>3, Zenon DEF BansOf, Bans
    <3>2. Cardinality(BansOf(i)) = 2
      <4>1. Cardinality({"cred"}) = 1 /\ IsFiniteSet({"cred"})
        BY FS_Singleton, Zenon
      <4>2. Cardinality({"cred"} \cup {"ip"}) = Cardinality({"cred"}) + 1
        BY <4>1, FS_AddElement, Zenon
      <4>3. BansOf(i) = {"cred"} \cup {"ip"}
        BY <3>1, Zenon
      <4> QED
        BY <4>1, <4>2, <4>3
    <3>3. m + n <= W * 2
      BY <2>2
    <3> QED
      BY <2>1, <2>2, <3>2, <3>3, TopBounds DEF W
  <2>4. CASE ~ ("cred" \in BansOf(i) /\ "ip" \in BansOf(i))
    <3>1. PICK b \in Bans : BansOf(i) = {b}
      BY <2>4, Zenon DEF BansOf, Bans, Ids
    <3>2. Cardinality(BansOf(i)) = 1
      BY <3>1, FS_Singleton, Zenon
    <3>3. m + n <= W * 1
      BY <2>1, <2>2, <2>4
    <3> QED
      BY <2>1, <2>2, <3>2, <3>3, TopBounds DEF W
  <2> QED
    BY <2>3, <2>4, Zenon
<1> QED
  BY <1>1, <1>2, <1>3, Invariance, CountersCorrect, PTL DEF Spec

=============================================================================
