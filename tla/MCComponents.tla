---------------------------- MODULE MCComponents -----------------------------
(***************************************************************************)
(* The components that share nothing with each other, side by side: a      *)
(* behaviour is one of one of them, the others have ended already.         *)
(***************************************************************************)
EXTENDS WorkerOutput, TokenBucket, PrimerPool, Turns, Semaphore, SignalTimer

MCBytes == {"://", ":", "v", "@", "x", "p", "f", "=", "1", "2", "\r", "\n"}
MCSourceUrl == <<"://", ":", "v", "@">>

\* The redacted URL has six letters: one capacity it just fits, one it just does not.
MCUrlCaps == {6, 7}

\* Short lines with and without an end, a separator, a return, the URL (twice, and
\* behind a false start), and lines of every length around the capacity.
LineSets ==
    [stdout |-> {<<"p", "=">>, <<"p", "=", "\r">>, <<"f", "=", "1">>, <<"f", "=", "2", "\r">>,
                 <<"f", "=">>, <<"f", "1">>, <<"f", "=", "1", "1", "1">>, <<"\r">>, <<>>},
     stderr |-> {MCSourceUrl, <<"x">> \o MCSourceUrl \o <<"\r">>, <<"://">> \o MCSourceUrl,
                 MCSourceUrl \o MCSourceUrl, MCSourceUrl \o MCSourceUrl \o <<"x">>,
                 MCSourceUrl \o MCSourceUrl \o MCSourceUrl \o <<"x">>,
                 <<"x">>, <<"\r">>, <<>>}]

MCOutputs ==
    [s \in {"stdout", "stderr"} |->
        LET line == LineSets[s]
        IN  {a \o <<"\n">> \o b \o <<"\n">> \o c \o d :
                a \in line, b \in line, c \in line, d \in {<<>>, <<"\n">>}}]

\* What the proof that the password is not logged needs of the worker.
ASSUME MCSecretApart == SecretApart

-----------------------------------------------------------------------------
\* The components that have ended: no step of theirs is enabled.

OutputOver ==
    /\ url_cap = Max(UrlCaps) /\ stream = "stdout" /\ written = <<>> /\ taken = 0 /\ closed = TRUE
    /\ parser = [line |-> <<>>, frame |-> 0, latest |-> <<>>, failed |-> FALSE]
    /\ lines = [data |-> <<>>, dropping |-> FALSE, log |-> <<>>]

BucketOver ==
    /\ library = "mt" /\ token = 0 /\ listed = FALSE
    /\ user = [u \in Users |-> [at |-> "done", n |-> 0, seen |-> 0]]

PoolOver ==
    /\ program = "cond" /\ num = 0 /\ main = [at |-> "failed", i |-> LEFT]
    /\ worker = [w \in Workers |-> [at |-> "ended", i |-> 0]]
    /\ printed = [n \in Numbers |-> 0]

RingOver ==
    /\ ring = "cond" /\ mut = {} /\ turn = 0 /\ creating = -1 /\ letter = -1
    /\ thread = [n \in Threads |-> "unborn"]

SemOver ==
    /\ sem = [value |-> 0, live |-> FALSE]
    /\ issuer = [at |-> "killed", i |-> 1]
    /\ thr = [j \in 1 .. Jobs |-> "unborn"]

TimerOver ==
    /\ job = [s \in Slots |-> NULL] /\ heap = [b \in Blocks |-> Freed]
    /\ caller = [Idle EXCEPT !.at = "exited"] /\ sigalrm = "default"

Init ==
    \/ OutputInit /\ BucketOver /\ PoolOver /\ RingOver /\ SemOver /\ TimerOver
    \/ OutputOver /\ BucketInit /\ PoolOver /\ RingOver /\ SemOver /\ TimerOver
    \/ OutputOver /\ BucketOver /\ PoolInit /\ RingOver /\ SemOver /\ TimerOver
    \/ OutputOver /\ BucketOver /\ PoolOver /\ RingInit /\ SemOver /\ TimerOver
    \/ OutputOver /\ BucketOver /\ PoolOver /\ RingOver /\ SemInit /\ TimerOver
    \/ OutputOver /\ BucketOver /\ PoolOver /\ RingOver /\ SemOver /\ TimerInit

Next ==
    \/ OutputNext /\ UNCHANGED <<bucketVars, poolVars, ringVars, semVars, timerVars>>
    \/ BucketNext /\ UNCHANGED <<outputVars, poolVars, ringVars, semVars, timerVars>>
    \/ PoolNext /\ UNCHANGED <<outputVars, bucketVars, ringVars, semVars, timerVars>>
    \/ RingNext /\ UNCHANGED <<outputVars, bucketVars, poolVars, semVars, timerVars>>
    \/ SemNext /\ UNCHANGED <<outputVars, bucketVars, poolVars, ringVars, timerVars>>
    \/ TimerNext /\ UNCHANGED <<outputVars, bucketVars, poolVars, ringVars, semVars>>

vars == <<outputVars, bucketVars, poolVars, ringVars, semVars, timerVars>>

Spec ==
    /\ Init /\ [][Next]_vars
    /\ BucketFairness /\ PoolFairness /\ RingFairness /\ SemFairness /\ TimerFairness
=============================================================================
