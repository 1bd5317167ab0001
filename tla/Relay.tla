-------------------------------- MODULE Relay --------------------------------
(***************************************************************************)
(* The four relays of apue/stdio/adv: a program copies what is typed on    *)
(* each of two terminals to the other with one state machine per direction *)
(* (fsm_driver, the same in all four), and they differ in how the loop     *)
(* waits: not at all, in select, in poll or in epoll_wait.                 *)
(*                                                                         *)
(* Terminal d is the source of direction d and the sink of the other one.  *)
(* A byte is its position in what was typed on its terminal.               *)
(***************************************************************************)
EXTENDS Integers, Sequences

CONSTANTS BUFSIZE,     \* bytes one read returns at most
          Room,        \* bytes a terminal takes before it has shown some
          MaxTyped,    \* bound: bytes typed on one terminal
          CanFail      \* may select, poll and epoll_wait fail?

ASSUME RelayAssumption ==
    BUFSIZE \in Nat \ {0} /\ Room \in Nat \ {0} /\ MaxTyped \in Nat /\ CanFail \in BOOLEAN

Dirs == {1, 2}
Other(d) == 3 - d

VARIABLES program,   \* which of the four runs
          pc,        \* its place in the loop of relay
          fsm,       \* struct fsm_st of each direction
          tty,       \* the terminals
          asked,     \* events asked of each descriptor: the sets, pollfds or interest list
          revents    \* events reported for each descriptor
vars == <<program, pc, fsm, tty, asked, revents>>

Events == {"IN", "OUT", "HUP"}

TypeOK ==
    /\ program \in {"nonblock", "select", "poll", "epoll"}
    /\ pc \in {"head", "wait", "drive12", "drive21", "returned", "exited"}
    /\ fsm \in [Dirs -> [state : {"R", "W", "E", "T"},
                         buf   : Seq(1 .. MaxTyped),
                         len   : -1 .. BUFSIZE,      \* what read returned, less what was sent
                         pos   : 0 .. BUFSIZE]]
    /\ tty \in [Dirs -> [typed : 0 .. MaxTyped,      \* bytes typed so far
                         input : Seq(1 .. MaxTyped), \* those not read yet
                         shown : Seq(1 .. MaxTyped), \* bytes written to it
                         room  : 0 .. Room,
                         hung  : BOOLEAN]]
    /\ asked \in [Dirs -> SUBSET Events]
    /\ revents \in [Dirs -> SUBSET Events]

\* The code leaves buf, len and pos uninitialised and uses none of them before a
\* read has set them.
Init ==
    /\ program \in {"nonblock", "select", "poll", "epoll"}
    /\ pc = "head"
    /\ fsm = [d \in Dirs |-> [state |-> "R", buf |-> <<>>, len |-> 0, pos |-> 0]]
    /\ tty = [d \in Dirs |-> [typed |-> 0, input |-> <<>>, shown |-> <<>>,
                              room |-> Room, hung |-> FALSE]]
    /\ asked = [d \in Dirs |-> {}]
    /\ revents = [d \in Dirs |-> {}]

Smaller(a, b) == IF a < b THEN a ELSE b

-----------------------------------------------------------------------------
\* fsm_driver, one action for each outcome of its read or write.  A terminal that
\* was hung up reads as its end or with an error (EIO) and refuses writes; the
\* descriptors do not block, so nothing to read, or no room, is EAGAIN.

ReadSome(d) ==
    /\ fsm[d].state = "R" /\ ~ tty[d].hung
    /\ \E n \in 1 .. Smaller(BUFSIZE, Len(tty[d].input)) :
          /\ fsm' = [fsm EXCEPT ![d] = [state |-> "W", pos |-> 0, len |-> n,
                                        buf |-> SubSeq(tty[d].input, 1, n)]]
          /\ tty' = [tty EXCEPT ![d].input = SubSeq(@, n + 1, Len(@))]

ReadEnd(d) ==
    /\ fsm[d].state = "R" /\ tty[d].hung
    /\ fsm' = [fsm EXCEPT ![d].state = "T", ![d].len = 0]
    /\ UNCHANGED tty

\* read returns -1, which is stored in len before errno is looked at.
ReadFails(d) ==
    /\ fsm[d].state = "R" /\ tty[d].hung
    /\ fsm' = [fsm EXCEPT ![d].state = "E", ![d].len = -1]
    /\ UNCHANGED tty

ReadAgain(d) ==
    /\ fsm[d].state = "R" /\ ~ tty[d].hung /\ tty[d].input = <<>>
    /\ fsm' = [fsm EXCEPT ![d].len = -1]
    /\ UNCHANGED tty

\* What write(dfd, buf + pos, len) sends when it takes n bytes.
Sent(d, n) == SubSeq(fsm[d].buf, fsm[d].pos + 1, fsm[d].pos + n)

\* A wrong Advance: the buffer is written from its start again.
AdvanceLengthOnly(f, n) ==
    [f EXCEPT !.len = @ - n, !.state = IF f.len > n THEN "W" ELSE "R"]

\* A wrong Advance: a partial write is taken for a complete one.
AdvanceDone(f, n) == [f EXCEPT !.pos = @ + n, !.len = @ - n, !.state = "R"]

Advance(f, n) ==
    [f EXCEPT !.pos = @ + n, !.len = @ - n, !.state = IF f.len > n THEN "W" ELSE "R"]

WriteSome(d) ==
    LET sink == Other(d)
    IN  /\ fsm[d].state = "W" /\ ~ tty[sink].hung
        /\ \E n \in 1 .. Smaller(fsm[d].len, tty[sink].room) :
              /\ fsm' = [fsm EXCEPT ![d] = Advance(@, n)]
              /\ tty' = [tty EXCEPT ![sink].shown = @ \o Sent(d, n), ![sink].room = @ - n]

\* A wrong WriteFails: every error is taken for EAGAIN.
WriteFailsSilently(d) ==
    /\ fsm[d].state = "W" /\ tty[Other(d)].hung
    /\ UNCHANGED <<fsm, tty>>

WriteFails(d) ==
    /\ fsm[d].state = "W" /\ tty[Other(d)].hung
    /\ fsm' = [fsm EXCEPT ![d].state = "E"]
    /\ UNCHANGED tty

WriteAgain(d) ==
    /\ fsm[d].state = "W" /\ ~ tty[Other(d)].hung /\ tty[Other(d)].room = 0
    /\ UNCHANGED <<fsm, tty>>

ReportError(d) ==
    /\ fsm[d].state = "E"
    /\ fsm' = [fsm EXCEPT ![d].state = "T"]
    /\ UNCHANGED tty

fsm_driver(d) ==
    \/ ReadSome(d) \/ ReadEnd(d) \/ ReadFails(d) \/ ReadAgain(d)
    \/ WriteSome(d) \/ WriteFails(d) \/ WriteAgain(d)
    \/ ReportError(d)
    \/ fsm[d].state = "T" /\ UNCHANGED <<fsm, tty>>

-----------------------------------------------------------------------------
\* The loop of relay.

Ended == \A d \in Dirs : fsm[d].state = "T"
BelowAuto == \E d \in Dirs : fsm[d].state \in {"R", "W"}
AboveAuto(d) == fsm[d].state \in {"T", "E"}

\* A wrong Wanted: once a direction has something to write, it is not asked when
\* its sink has room.
WantedInput(fd) == IF fsm[fd].state = "R" THEN {"IN"} ELSE {}

\* The events of descriptor fd that the two directions wait for.
Wanted(fd) ==
    (IF fsm[fd].state = "R" THEN {"IN"} ELSE {}) \cup
    (IF fsm[Other(fd)].state = "W" THEN {"OUT"} ELSE {})

Return ==
    /\ pc = "head" /\ Ended
    /\ pc' = "returned"
    /\ UNCHANGED <<program, fsm, tty, asked, revents>>

NonblockHead ==
    /\ program = "nonblock" /\ pc = "head" /\ ~ Ended
    /\ pc' = "drive12"
    /\ UNCHANGED <<program, fsm, tty, asked, revents>>

\* select and poll are told the events of both descriptors in every turn.
SelectHead ==
    /\ program \in {"select", "poll"} /\ pc = "head" /\ ~ Ended
    /\ asked' = [fd \in Dirs |-> Wanted(fd)]
    /\ pc' = IF BelowAuto THEN "wait" ELSE "drive12"
    /\ UNCHANGED <<program, fsm, tty, revents>>

\* The epoll relay computes the events of both and tells the kernel those of fd1:
\* fd2 stays in the interest list with the empty set it was added with.
EpollHead ==
    /\ program = "epoll" /\ pc = "head" /\ ~ Ended
    /\ asked' = [asked EXCEPT ![1] = Wanted(1)]
    /\ revents' = [fd \in Dirs |-> {}]
    /\ pc' = IF BelowAuto THEN "wait" ELSE "drive12"
    /\ UNCHANGED <<program, fsm, tty>>

\* What the kernel knows of descriptor fd.
Pending(fd) ==
    IF tty[fd].hung THEN Events
    ELSE (IF tty[fd].input # <<>> THEN {"IN"} ELSE {}) \cup
         (IF tty[fd].room > 0 THEN {"OUT"} ELSE {})

Woken(reported) ==
    /\ pc = "wait" /\ pc' = "drive12"
    /\ \E fd \in Dirs : reported[fd] # {}
    /\ revents' = reported
    /\ UNCHANGED <<program, fsm, tty, asked>>

select ==
    /\ program = "select"
    /\ Woken([fd \in Dirs |-> asked[fd] \cap Pending(fd)])

\* A hang-up is reported whether it was asked for or not.
poll ==
    /\ program = "poll"
    /\ Woken([fd \in Dirs |-> (asked[fd] \cup {"HUP"}) \cap Pending(fd)])

\* epoll_wait has space for one descriptor.
epoll_wait ==
    /\ program = "epoll"
    /\ \E ready \in Dirs :
          Woken([fd \in Dirs |-> IF fd = ready THEN (asked[fd] \cup {"HUP"}) \cap Pending(fd)
                                 ELSE {}])

\* EINTR: select goes round the loop, poll and epoll_wait are called again.
Interrupted ==
    /\ pc = "wait"
    /\ pc' = IF program = "select" THEN "head" ELSE "wait"
    /\ UNCHANGED <<program, fsm, tty, asked, revents>>

WaitFails ==
    /\ CanFail /\ pc = "wait"
    /\ pc' = "exited"
    /\ UNCHANGED <<program, fsm, tty, asked, revents>>

\* Is the machine of direction d driven in this turn?  In the epoll relay
\* "ev.data.fd == fd1 & ev.events & EPOLLOUT" is 1 & events & 4, which is 0.
Driven(d) ==
    \/ program = "nonblock"
    \/ "IN" \in revents[d]
    \/ "OUT" \in revents[Other(d)] /\ ~ (program = "epoll" /\ d = 2)
    \/ AboveAuto(d)

Drive(d, from, to) ==
    /\ pc = from /\ pc' = to
    /\ IF Driven(d) THEN fsm_driver(d) ELSE UNCHANGED <<fsm, tty>>
    /\ UNCHANGED <<program, asked, revents>>

Drive12 == Drive(1, "drive12", "drive21")
Drive21 == Drive(2, "drive21", "head")

-----------------------------------------------------------------------------
\* The people at the terminals.

Type(d) ==
    /\ tty[d].typed < MaxTyped /\ ~ tty[d].hung
    /\ tty' = [tty EXCEPT ![d].typed = @ + 1, ![d].input = Append(@, tty[d].typed + 1)]
    /\ UNCHANGED <<program, pc, fsm, asked, revents>>

Shows(d) ==
    /\ tty[d].room < Room
    /\ tty' = [tty EXCEPT ![d].room = @ + 1]
    /\ UNCHANGED <<program, pc, fsm, asked, revents>>

\* What was not read yet is flushed.
HangUp(d) ==
    /\ ~ tty[d].hung
    /\ tty' = [tty EXCEPT ![d].hung = TRUE, ![d].input = <<>>]
    /\ UNCHANGED <<program, pc, fsm, asked, revents>>

Wakes == select \/ poll \/ epoll_wait
Turn == NonblockHead \/ SelectHead \/ EpollHead \/ Drive12 \/ Drive21 \/ Return
Relay == Turn \/ Wakes \/ Interrupted \/ WaitFails

Next == Relay \/ \E d \in Dirs : Type(d) \/ Shows(d) \/ HangUp(d)

Spec == Init /\ [][Next]_vars

\* The program runs, not every wait is interrupted, and terminals show what they
\* are sent.
FairSpec ==
    /\ Spec
    /\ WF_vars(Turn) /\ SF_vars(Wakes)
    /\ \A d \in Dirs : WF_vars(Shows(d))

-----------------------------------------------------------------------------
Upto(n) == [i \in 1 .. n |-> i]
InBuffer(d) == IF fsm[d].state = "W" THEN Sent(d, fsm[d].len) ELSE <<>>

\* The relays copy: what a terminal shows, what is still in the buffer on the way
\* to it and what is not read yet are, in this order and each byte once, what was
\* typed on the other terminal, however reads and writes were split.
CopiesInOrder ==
    \A d \in Dirs :
       LET taken == tty[Other(d)].shown \o InBuffer(d)
       IN  /\ taken = Upto(Len(taken))
           /\ ~ tty[d].hung /\ ~ AboveAuto(d) => taken \o tty[d].input = Upto(tty[d].typed)

HungUp == \E d \in Dirs : tty[d].hung
Reaches(d, n) == Len(tty[Other(d)].shown) >= n \/ HungUp \/ pc = "exited"

\* While both terminals are there, a byte typed on one is shown on the other:
\* no direction starves and no loop waits for the wrong event.
Delivered ==
    \A d \in Dirs : \A n \in 1 .. MaxTyped :
       (program # "epoll" /\ tty[d].typed >= n) ~> Reaches(d, n)

\* The same of the epoll relay.
EpollDelivered ==
    \A d \in Dirs : \A n \in 1 .. MaxTyped :
       (program = "epoll" /\ tty[d].typed >= n) ~> Reaches(d, n)

\* When both terminals are gone the loop ends, whatever each direction was doing and
\* whether its source then reads as an end or as an error.
Ends ==
    (program # "epoll" /\ \A d \in Dirs : tty[d].hung) ~> pc \in {"returned", "exited"}
=============================================================================
