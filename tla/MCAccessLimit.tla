--------------------------- MODULE MCAccessLimit ---------------------------
(* Small instances of AccessLimit: the token x is also the name of an ip.  *)
EXTENDS AccessLimit, TLC

CONSTANTS TokenMax, CookieMax, IpMax, x, y

MCMaxFreq == [token |-> TokenMax, cookie |-> CookieMax, ip |-> IpMax]

Token(c, i) == [kind |-> "token", cred |-> c, ip |-> i]
Cookie(c, i) == [kind |-> "cookie", cred |-> c, ip |-> i]
Ip(i) == [kind |-> "ip", cred |-> NoCred, ip |-> i]

(* One id as a token and as an ip; a token and its ip; a token and a       *)
(* cookie; one client whose commands fail.                                 *)
SharedId == [requests |-> {Token(x, y), Ip(x)}, fails |-> 0]
SharedIp == [requests |-> {Token(x, y), Ip(y)}, fails |-> 0]
SharedCred == [requests |-> {Token(x, y), Cookie(x, y)}, fails |-> 0]
FailingToken == [requests |-> {Token(x, y)}, fails |-> 1]
FailingIp == [requests |-> {Ip(x)}, fails |-> 2]

AllPlans == {SharedId, SharedIp, SharedCred, FailingToken, FailingIp}
FailingPlans == {FailingIp}

=============================================================================
