----------------------------- MODULE TokenBucket -----------------------------
(***************************************************************************)
(* The token buckets of apue/para: cps tokens a second, at most burst of   *)
(* them, and programs (main.c) that take as many as they want to read,     *)
(* give back what they did not need, and write.                            *)
(*                                                                         *)
(* thread/posix/mytbf_mt adds the tokens in a thread; every access is made *)
(* under the mutex of the bucket and is one step.  signal/mytbf adds them  *)
(* in a SIGALRM handler, which may run between any two instructions of the *)
(* one thread: token -= n and token += n are a load and a store.           *)
(***************************************************************************)
EXTENDS Integers, FiniteSets

CONSTANTS cps, burst,
          BUFSIZE,     \* tokens asked for at a time
          Users,       \* threads that share the bucket (threaded library)
          Signaled     \* the one of them that is the process (signal library)

ASSUME BucketAssumption ==
    /\ cps \in Nat \ {0} /\ burst \in Nat \ {0} /\ BUFSIZE \in Nat \ {0}
    /\ IsFiniteSet(Users) /\ Signaled \in Users

VARIABLES library,   \* "mt" or "signal"
          token,     \* of the bucket
          listed,    \* is the bucket in the table job?
          user       \* where each user is, the tokens in its hand, the token it loaded
bucketVars == <<library, token, listed, user>>

\* The tokens a user has taken or is about to give back.
Holding == {"read", "return", "putback"}

BucketTypeOK ==
    /\ library \in {"mt", "signal"}
    /\ token \in 0 .. burst + BUFSIZE + 1
    /\ listed \in BOOLEAN
    /\ user \in [Users -> [at : {"fetch", "asleep", "pausing", "load", "store", "clamp", "done"}
                                   \cup Holding,
                           n : 0 .. BUFSIZE + 1, seen : 0 .. burst + BUFSIZE + 1]]

\* mytbf_init has returned.  The process of the signal library has one thread.
BucketInit ==
    /\ library \in {"mt", "signal"}
    /\ token = 0 /\ listed = TRUE
    /\ user = [u \in Users |->
                 [at |-> IF library = "signal" /\ u # Signaled THEN "done" ELSE "fetch",
                  n |-> 0, seen |-> 0]]

min(a, b) == IF a < b THEN a ELSE b
Goes(u, at, n) == user' = [user EXCEPT ![u] = [at |-> at, n |-> n, seen |-> 0]]

-----------------------------------------------------------------------------
\* pthread_cond_broadcast; a signal that was handled ends pause().
Awake == [u \in Users |-> IF user[u].at = "asleep" THEN [user[u] EXCEPT !.at = "fetch"]
                                                   ELSE user[u]]

\* What a second adds, in the handler of either library.
Refilled == min(token + cps, burst)

\* A wrong Tick: nobody is told.
TickSilently ==
    /\ listed
    /\ token' = Refilled
    /\ UNCHANGED <<library, listed, user>>

\* pthread_handler, alrm_handler: one second for a bucket in the table.
Tick ==
    /\ listed
    /\ token' = Refilled
    /\ user' = Awake
    /\ UNCHANGED <<library, listed>>

\* mytbf_fetchtoken finds no token.  Between the test and pause() the signal
\* library can miss a tick.
FetchWaits(u) ==
    /\ user[u].at = "fetch" /\ token <= 0
    /\ Goes(u, IF library = "mt" THEN "asleep" ELSE "pausing", 0)
    /\ UNCHANGED <<library, token, listed>>

\* pthread_cond_wait may return by itself.
FetchSpuriousWakeup(u) ==
    /\ library = "mt" /\ user[u].at = "asleep"
    /\ Goes(u, "fetch", 0)
    /\ UNCHANGED <<library, token, listed>>

Pause(u) ==
    /\ user[u].at = "pausing"
    /\ Goes(u, "asleep", 0)
    /\ UNCHANGED <<library, token, listed>>

\* A wrong FetchTakes: the mutex is not held from the test to the subtraction.
FetchTakesUnlocked(u) ==
    /\ user[u].at = "fetch" /\ token > 0
    /\ Goes(u, "load", min(token, BUFSIZE))
    /\ UNCHANGED <<library, token, listed>>

FetchTakes(u) ==
    /\ user[u].at = "fetch" /\ token > 0
    /\ LET n == min(token, BUFSIZE)
       IN  IF library = "mt" THEN Goes(u, "read", n) /\ token' = token - n
           ELSE Goes(u, "load", n) /\ UNCHANGED token
    /\ UNCHANGED <<library, listed>>

LoadToTake(u) ==
    /\ user[u].at = "load"
    /\ user' = [user EXCEPT ![u].at = "store", ![u].seen = token]
    /\ UNCHANGED <<library, token, listed>>

StoreTaken(u) ==
    /\ user[u].at = "store"
    /\ token' = user[u].seen - user[u].n
    /\ Goes(u, "read", user[u].n)
    /\ UNCHANGED <<library, listed>>

\* main: read returns len bytes, which are written; what they did not need is given
\* back.  A read that fails has len = -1: one token more than was taken is given
\* back.  At the end of the file the tokens in hand are dropped.
ReadFile(u, len) ==
    /\ user[u].at = "read" /\ len <= user[u].n
    /\ IF len = 0 THEN Goes(u, "done", 0)
       ELSE IF user[u].n - len > 0 THEN Goes(u, "return", user[u].n - len)
       ELSE Goes(u, "fetch", 0)
    /\ UNCHANGED <<library, token, listed>>

\* mytbf_returntoken.
ReturnLocked(u) ==
    /\ user[u].at = "return" /\ library = "mt"
    /\ token' = min(token + user[u].n, burst)
    /\ user' = [Awake EXCEPT ![u] = [at |-> "fetch", n |-> 0, seen |-> 0]]
    /\ UNCHANGED <<library, listed>>

LoadToReturn(u) ==
    /\ user[u].at = "return" /\ library = "signal"
    /\ user' = [user EXCEPT ![u].at = "putback", ![u].seen = token]
    /\ UNCHANGED <<library, token, listed>>

StoreReturned(u) ==
    /\ user[u].at = "putback"
    /\ token' = user[u].seen + user[u].n
    /\ Goes(u, "clamp", 0)
    /\ UNCHANGED <<library, listed>>

Clamp(u) ==
    /\ user[u].at = "clamp"
    /\ token' = min(token, burst)
    /\ Goes(u, "fetch", 0)
    /\ UNCHANGED <<library, listed>>

\* The last user leaves and mytbf_destroy takes the bucket out of the table.
mytbf_destroy ==
    /\ listed /\ \A u \in Users : user[u].at = "done"
    /\ listed' = FALSE
    /\ UNCHANGED <<library, token, user>>

\* open or write fails: exit(1), and module_unload empties the table.
ProcessExits(u) ==
    /\ user[u].at = "fetch"
    /\ user' = [v \in Users |-> [at |-> "done", n |-> 0, seen |-> 0]]
    /\ listed' = FALSE
    /\ UNCHANGED <<library, token>>

UserStep(u) ==
    \/ FetchWaits(u) \/ Pause(u) \/ FetchTakes(u) \/ LoadToTake(u) \/ StoreTaken(u)
    \/ \E len \in -1 .. BUFSIZE : ReadFile(u, len)
    \/ ReturnLocked(u) \/ LoadToReturn(u) \/ StoreReturned(u) \/ Clamp(u)

BucketNext ==
    \/ Tick \/ mytbf_destroy
    \/ \E u \in Users : UserStep(u) \/ FetchSpuriousWakeup(u) \/ ProcessExits(u)

\* Seconds pass and threads are scheduled; users that never leave are not made to.
BucketFairness == WF_bucketVars(Tick) /\ \A u \in Users : WF_bucketVars(UserStep(u))

-----------------------------------------------------------------------------
\* The tokens in the users' hands, one by one.
InHands == {t \in Users \X (1 .. BUFSIZE + 1) :
               user[t[1]].at \in Holding /\ t[2] <= user[t[1]].n}
Tokens == token + Cardinality(InHands)

ReadFailed == \E u \in Users : user[u].at = "read" /\ user'[u].at = "return" /\ user'[u].n > user[u].n

\* The rate is kept: only a second adds tokens to those in the bucket and in the
\* users' hands, cps at most; a race with the handler may lose tokens and never
\* makes any.  A failed read, which gives back one too many, is the one exception.
\* At rest the bucket holds no more than burst.
RateKept ==
    [][/\ Tokens' <= Tokens + (IF Tick THEN cps ELSE IF ReadFailed THEN 1 ELSE 0)
       /\ (\A u \in Users : user'[u].at # "clamp") => token' <= burst]_bucketVars

Waiting == {u \in Users : user[u].at \in {"fetch", "pausing", "asleep"}}

\* Whoever waits for tokens does not wait in vain: a fetch returns, this one or
\* another user's (nothing makes the mutex fair between them).  No wakeup is lost
\* between the test of token and the wait; a missed second only delays it.
FetchReturns == Waiting # {} ~> ~ listed \/ \E u \in Users : user[u].at = "read"
=============================================================================
