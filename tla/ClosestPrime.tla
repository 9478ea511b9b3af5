---------------------------- MODULE ClosestPrime ----------------------------
(***************************************************************************)
(* The closest-prime RPC server of Laborator 2 and its clients.  At the    *)
(* first call the server sieves the primes up to INT_MAX (Atkin's sieve,   *)
(* one bit for each odd number); each call searches from the number down   *)
(* and up at once.  INT_MAX is a constant: of 2^31 - 1 the code relies on  *)
(* it being prime and on the root of MAX_SQRT.                             *)
(***************************************************************************)
EXTENDS PrimeNumbers, Sequences, SequencesExt

CONSTANTS
  INT_MAX, MAX_SQRT,
  Client,      \* the runs of the client
  Number,      \* the numbers they ask for
  NULL

ASSUME IntAssumption ==
  /\ INT_MAX \in Nat /\ INT_MAX > 3 /\ IsPrimeNumber(INT_MAX)
  /\ MAX_SQRT \in Nat
  /\ MAX_SQRT * MAX_SQRT >= INT_MAX /\ (MAX_SQRT - 1) * (MAX_SQRT - 1) < INT_MAX
  /\ Number \subseteq -INT_MAX - 1 .. INT_MAX
  /\ NULL \notin Int

-----------------------------------------------------------------------------
\* generate_primes.  A bit is set when it is toggled an odd number of times; a
\* pair (i, j) toggles a number by one of the forms at most.
Pair == (1 .. MAX_SQRT) \X (1 .. MAX_SQRT)
Residue(n, R) == n % 12 \in R
\* A fault: the pairs with i <= j count for the third form too.
TogglersAll(n) ==
  {p \in Pair : LET i == p[1] j == p[2] IN
     \/ n = 4*i*i + j*j /\ Residue(n, {1, 5})
     \/ n = 3*i*i + j*j /\ Residue(n, {7})
     \/ n = 3*i*i - j*j /\ Residue(n, {11})}
Togglers(n) ==
  {p \in Pair : LET i == p[1] j == p[2] IN
     \/ n = 4*i*i + j*j /\ Residue(n, {1, 5})
     \/ n = 3*i*i + j*j /\ Residue(n, {7})
     \/ n = 3*i*i - j*j /\ i > j /\ Residue(n, {11})}
Toggled(len) == {n \in 1 .. len : n % 2 = 1 /\ Cardinality(Togglers(n)) % 2 = 1}

\* k, 3k, 5k, ... for the square k of a number that is set when its turn comes.
ClearSquares(set, i) ==
  LET k == i * i IN
    IF i \in set THEN {n \in set : ~(n >= k /\ (n - k) % (2 * k) = 0)} ELSE set
\* The turns of 5, 7, 9, ... MAX_SQRT.
Turns == (MAX_SQRT - 3) \div 2
Sieve ==
  LET Cleared[t \in 0 .. Turns] ==
        IF t = 0 THEN Toggled(INT_MAX) \cup {3}
        ELSE ClearSquares(Cleared[t - 1], 2 * t + 3)
  IN  Cleared[Turns]

\* The pointer to the sieve is not NULL.
ASSUME SieveAssumption == NULL # Sieve

-----------------------------------------------------------------------------
VARIABLES
  prime,     \* NULL, or the numbers whose bit is set
  ret,       \* the static result
  serving,   \* the request [client, num] being searched for, or NULL
  low, high,
  requests,  \* requests that wait for the server, which handles one at a time
  down,      \* has the server crashed?
  client     \* client -> [state, num, answer]

server == <<prime, ret, serving, low, high, down>>
vars == <<server, requests, client>>

Init ==
  /\ prime = NULL /\ ret = -1
  /\ serving = NULL /\ low = 0 /\ high = 0
  /\ requests = <<>> /\ down = FALSE
  /\ client = [c \in Client |-> [state |-> "new", num |-> 0, answer |-> NULL]]

Waiting(c) == client[c].state = "waiting"

Call(c, n) ==
  /\ client[c].state = "new" /\ ~down
  /\ client' = [client EXCEPT ![c] = [state |-> "waiting", num |-> n, answer |-> NULL]]
  /\ requests' = Append(requests, [client |-> c, num |-> n])
  /\ UNCHANGED server

\* clnt_call gives up, or the connection breaks: the client follows NULL.
CallFails(c) ==
  /\ Waiting(c)
  /\ client' = [client EXCEPT ![c].state = "crashed"]
  /\ UNCHANGED <<server, requests>>
ConnectionBreaks(c) == down /\ CallFails(c)

\* The reply is sent, to a client that waits for it still, before the server
\* looks at the next request.
Reply(c, r) ==
  /\ ret' = r
  /\ client' = IF Waiting(c) THEN [client EXCEPT ![c].state = "printed", ![c].answer = r]
                             ELSE client

Begin ==
  /\ ~down /\ serving = NULL /\ requests # <<>>
  /\ requests' = Tail(requests)

\* A fault: a handler that returns NULL sends no reply.
AllocationFailsSilently ==
  /\ Begin /\ prime = NULL
  /\ UNCHANGED <<client, ret, prime, serving, low, high, down>>

\* calloc returns NULL: the answer is ret as it is.
AllocationFails ==
  /\ Begin /\ prime = NULL
  /\ Reply(Head(requests).client, ret)
  /\ UNCHANGED <<prime, serving, low, high, down>>

StartSearch ==
  /\ Begin
  /\ prime' = IF prime = NULL THEN Sieve ELSE prime
  /\ serving' = Head(requests)
  /\ low' = Head(requests).num /\ high' = Head(requests).num
  /\ UNCHANGED <<ret, down, client>>

\* A fault: 2 is looked up like the other numbers.
IS_ODD_PRIME(n) == IF n < 0 /\ n % 2 = 1 THEN BOOLEAN ELSE {n \in prime}

\* What IS_PRIME may find: a negative number reads what is before the array.
IS_PRIME(n) ==
  IF n < 0 /\ n % 2 = 1 THEN BOOLEAN ELSE {n = 2 \/ n \in prime}

Found(n) ==
  /\ Reply(serving.client, n)
  /\ serving' = NULL /\ low' = 0 /\ high' = 0

\* A fault: INT_MAX itself is left out.
IsBelow(n) == n < INT_MAX
IsInt(n) == n <= INT_MAX

Search ==
  /\ ~down /\ serving # NULL
  /\ \E isLow \in IS_PRIME(low), isHigh \in IS_PRIME(high) :
       LET lowFound == low >= 0 /\ isLow
           highFound == IsInt(high) /\ isHigh IN
         \/ lowFound /\ Found(low)
         \/ ~lowFound /\ highFound /\ Found(high)
         \/ /\ ~lowFound /\ ~highFound
            /\ low' = low - 1 /\ high' = high + 1
            /\ UNCHANGED <<ret, serving, client>>
  /\ UNCHANGED <<prime, requests, down>>

\* Or the read before the array ends the server.
SearchCrashes ==
  /\ ~down /\ serving # NULL
  /\ high < 0 /\ high % 2 = 1
  /\ down' = TRUE
  /\ UNCHANGED <<prime, ret, serving, low, high, requests, client>>

Next ==
  \/ \E c \in Client : (\E n \in Number : Call(c, n)) \/ CallFails(c)
  \/ AllocationFails \/ StartSearch \/ Search \/ SearchCrashes

\* The server goes on with what it has, and a broken connection is noticed; a
\* call need not time out.
Fairness ==
  /\ WF_vars(AllocationFails \/ StartSearch) /\ WF_vars(Search)
  /\ \A c \in Client : WF_vars(ConnectionBreaks(c))

Spec == Init /\ [][Next]_vars /\ Fairness

-----------------------------------------------------------------------------
\* The variables have the values the code gives them; the search never counts
\* past INT_MAX, and looks no further up than the array goes
\* (closest_prime_rpc_server.c, the for loop of get_closest_prime_1_svc).
TypeOK ==
  /\ prime = NULL \/ prime \subseteq 1 .. INT_MAX
  /\ ret \in -INT_MAX - 1 .. INT_MAX
  /\ serving = NULL \/ serving \in [client : Client, num : Number]
  /\ low \in Int /\ high \in Int /\ high <= INT_MAX
  /\ Range(requests) \subseteq [client : Client, num : Number]
  /\ down \in BOOLEAN
  /\ \A c \in Client :
       /\ client[c].state \in {"new", "waiting", "crashed", "printed"}
       /\ (client[c].answer # NULL) <=> (client[c].state = "printed")

Primes == {n \in 2 .. INT_MAX : IsPrimeNumber(n)}

\* The sieve leaves the bits of the odd primes and no other (generate_primes).
SieveIsRight ==
  prime # NULL => prime = Primes \ {2}

\* What a client prints is the prime closest to its own number, the lower one
\* of two, or -1 when the server had no memory for the sieve; whoever else
\* called, gave up or shared the static result meanwhile
\* (get_closest_prime_1_svc).
AnswerIsClosest ==
  \A c \in Client :
    LET n == client[c].num
        r == client[c].answer
        Distance(p) == IF p > n THEN p - n ELSE n - p IN
      (client[c].state = "printed" /\ n >= 0) =>
        \/ r = -1
        \/ /\ r \in Primes
           /\ \A p \in Primes \ {r} : 
                \/ Distance(r) < Distance(p)
                \/ Distance(r) = Distance(p) /\ r < p

\* A call that does not time out is answered, or fails with the server
\* (get_closest_prime_1_svc: the loop has no other end than a prime).
EveryCallEnds == \A c \in Client : Waiting(c) ~> ~Waiting(c)
=============================================================================
