---------------------------- MODULE RelayProofs -----------------------------
(***************************************************************************)
(* The relays copy every byte once and in order, for any buffer, terminal  *)
(* and amount typed, and however the loop waits.  The same machine serves  *)
(* all four programs, so the argument is about fsm_driver alone: how they  *)
(* wait decides when it runs, never what it copies.                        *)
(***************************************************************************)
EXTENDS Relay, SequenceTheorems, TLAPS

Bytes == 1 .. MaxTyped
Machines == [state : {"R", "W", "E", "T"}, buf : Seq(Bytes), len : -1 .. BUFSIZE,
             pos : 0 .. BUFSIZE]
Terminals == [typed : 0 .. MaxTyped, input : Seq(Bytes), shown : Seq(Bytes),
              room : 0 .. Room, hung : BOOLEAN]

\* The bytes of s are the ones typed after the first n.
Follows(s, n) == \A j \in 1 .. Len(s) : s[j] = n + j

\* How many bytes machine f has taken, with shown on its sink.
Taken(f, shown) == Len(shown) + (IF f.state = "W" THEN f.len ELSE 0)

\* Machine f between its source and what its sink shows: the len bytes from pos
\* on are the end of the buffer and follow the ones shown, and the source holds
\* the ones after them.
Copied(f, source, shown) ==
    /\ Follows(shown, 0)
    /\ f.state = "W" => /\ f.len \in 0 .. BUFSIZE
                        /\ f.pos + f.len = Len(f.buf) /\ Len(f.buf) <= BUFSIZE
                        /\ \A j \in 1 .. f.len : f.buf[f.pos + j] = Len(shown) + j
    /\ ~ source.hung /\ f.state \in {"R", "W"} =>
          /\ source.typed = Taken(f, shown) + Len(source.input)
          /\ Follows(source.input, Taken(f, shown))

IInv ==
    /\ fsm \in [Dirs -> Machines] /\ tty \in [Dirs -> Terminals]
    /\ \A d \in Dirs : Copied(fsm[d], tty[d], tty[Other(d)].shown)

-----------------------------------------------------------------------------
\* Sequences of bytes that follow each other.

LEMMA FollowsConcat ==
    ASSUME NEW s \in Seq(Bytes), NEW t \in Seq(Bytes), NEW n \in Nat,
           Follows(s, n), Follows(t, n + Len(s))
    PROVE  /\ s \o t \in Seq(Bytes) /\ Len(s \o t) = Len(s) + Len(t)
           /\ Follows(s \o t, n)
  <1>1. Len(s) \in Nat /\ Len(t) \in Nat
    BY LenProperties
  <1>2. /\ s \o t \in Seq(Bytes) /\ Len(s \o t) = Len(s) + Len(t)
        /\ \A i \in 1 .. Len(s) + Len(t) : (s \o t)[i] =
              IF i <= Len(s) THEN s[i] ELSE t[i - Len(s)]
    BY ConcatProperties
  <1>3. ASSUME NEW i \in 1 .. Len(s) + Len(t) PROVE (s \o t)[i] = n + i
    <2>1. CASE i <= Len(s)
      BY <1>1, <1>2, <2>1 DEF Follows
    <2>2. CASE ~ (i <= Len(s))
      <3>1. i - Len(s) \in 1 .. Len(t)
        BY <1>1, <2>2
      <3>2. t[i - Len(s)] = n + Len(s) + (i - Len(s))
        BY <3>1 DEF Follows
      <3> QED
        BY <1>1, <1>2, <2>2, <3>2
    <2> QED
      BY <2>1, <2>2
  <1> QED
    BY <1>2, <1>3 DEF Follows

LEMMA FollowsUpto ==
    ASSUME NEW s \in Seq(Bytes), Follows(s, 0)
    PROVE  s = Upto(Len(s))
  <1>1. s \in [1 .. Len(s) -> Bytes] /\ Len(s) \in Nat
    BY LenProperties
  <1>2. \A i \in 1 .. Len(s) : s[i] = i
    BY <1>1 DEF Follows
  <1> QED
    BY <1>1, <1>2 DEF Upto

\* A part of a sequence.
LEMMA Part ==
    ASSUME NEW s \in Seq(Bytes), NEW m \in Nat, NEW n \in Nat, m + n <= Len(s)
    PROVE  /\ SubSeq(s, m + 1, m + n) \in Seq(Bytes)
           /\ Len(SubSeq(s, m + 1, m + n)) = n
           /\ \A j \in 1 .. n : SubSeq(s, m + 1, m + n)[j] = s[m + j]
  <1>1. Len(s) \in Nat /\ \A i \in 1 .. Len(s) : s[i] \in Bytes
    BY LenProperties, ElementOfSeq
  <1> DEFINE a == m + 1
             b == m + n
  <1>2. a \in Int /\ b \in Int /\ \A i \in a .. b : s[i] \in Bytes
    BY <1>1
  <1>3. b - a + 1 = n /\ (a <= b \/ n = 0) /\ \A j \in 1 .. n : a + j - 1 = m + j
    OBVIOUS
  <1> HIDE DEF a, b
  <1>4. /\ SubSeq(s, a, b) \in Seq(Bytes)
        /\ Len(SubSeq(s, a, b)) = IF a <= b THEN b - a + 1 ELSE 0
        /\ \A i \in 1 .. b - a + 1 : SubSeq(s, a, b)[i] = s[a + i - 1]
    BY <1>2, SubSeqProperties
  <1>5. /\ SubSeq(s, a, b) \in Seq(Bytes) /\ Len(SubSeq(s, a, b)) = n
        /\ \A j \in 1 .. n : SubSeq(s, a, b)[j] = s[m + j]
    BY <1>3, <1>4
  <1> QED
    BY <1>5 DEF a, b

-----------------------------------------------------------------------------
\* fsm_driver.

LEMMA ReadCopies ==
    ASSUME NEW f \in Machines, NEW source \in Terminals, NEW shown \in Seq(Bytes),
           Copied(f, source, shown), f.state = "R", ~ source.hung,
           NEW n \in 1 .. Smaller(BUFSIZE, Len(source.input))
    PROVE  LET g == [state |-> "W", pos |-> 0, len |-> n, buf |-> SubSeq(source.input, 1, n)]
               t == [source EXCEPT !.input = SubSeq(source.input, n + 1, Len(source.input))]
           IN  g \in Machines /\ t \in Terminals /\ t.shown = source.shown /\ Copied(g, t, shown)
  <1> DEFINE s == source.input
             k == Len(shown)
             l == Len(s) - n
             left == SubSeq(s, n + 1, Len(s))
             g == [state |-> "W", pos |-> 0, len |-> n, buf |-> SubSeq(s, 1, n)]
             t == [source EXCEPT !.input = left]
  <1>1. s \in Seq(Bytes) /\ Len(s) \in Nat /\ k \in Nat
    BY LenProperties DEF Terminals
  <1>2. n \in Nat /\ n <= Len(s) /\ n \in 0 .. BUFSIZE /\ n \in -1 .. BUFSIZE /\ 0 \in 0 .. BUFSIZE /\ l \in Nat
        /\ n + l = Len(s) /\ 0 + 1 = 1 /\ 0 + n = n
    BY <1>1, RelayAssumption DEF Smaller
  <1>3. source.typed = k + Len(s) /\ \A j \in 1 .. Len(s) : s[j] = k + j
    BY <1>1 DEF Copied, Taken, Follows, Terminals
  <1> SUFFICES g \in Machines /\ t \in Terminals /\ t.shown = source.shown /\ Copied(g, t, shown)
    OBVIOUS
  <1>4. t = [source EXCEPT !.input = left] /\ left = SubSeq(s, n + 1, Len(s))
        /\ g = [state |-> "W", pos |-> 0, len |-> n, buf |-> SubSeq(s, 1, n)]
    OBVIOUS
  <1> HIDE DEF s, l, left, g, t
  <1>5. /\ SubSeq(s, 0 + 1, 0 + n) \in Seq(Bytes) /\ Len(SubSeq(s, 0 + 1, 0 + n)) = n
        /\ \A j \in 1 .. n : SubSeq(s, 0 + 1, 0 + n)[j] = s[0 + j]
    BY <1>1, <1>2, Part
  <1>6. /\ SubSeq(s, n + 1, n + l) \in Seq(Bytes) /\ Len(SubSeq(s, n + 1, n + l)) = l
        /\ \A j \in 1 .. l : SubSeq(s, n + 1, n + l)[j] = s[n + j]
    BY <1>1, <1>2, Part
  <1>7. /\ g.state = "W" /\ g.pos = 0 /\ g.len = n
        /\ g.buf \in Seq(Bytes) /\ Len(g.buf) = n
        /\ \A j \in 1 .. n : g.buf[j] = s[j]
        /\ g \in Machines
    BY <1>2, <1>5, <1>4 DEF Machines
  <1>8. left \in Seq(Bytes) /\ Len(left) = l /\ \A j \in 1 .. l : left[j] = s[n + j]
    BY <1>2, <1>6, <1>4
  <1>9. /\ t.input = left /\ t.typed = source.typed /\ t.hung = source.hung
        /\ t.shown = source.shown /\ t \in Terminals
    BY <1>8, <1>4 DEF Terminals
  <1>10. \A j \in 1 .. g.len : g.buf[g.pos + j] = k + j
    BY <1>2, <1>3, <1>7
  <1>11. \A j \in 1 .. Len(left) : left[j] = (k + n) + j
    <2> SUFFICES ASSUME NEW j \in 1 .. l PROVE left[j] = (k + n) + j
      BY <1>8
    <2>1. n + j \in 1 .. Len(s)
      BY <1>1, <1>2
    <2> QED
      BY <1>1, <1>2, <1>3, <1>8, <2>1
  <1>12. t.typed = (k + n) + Len(left)
    <2>1. k + Len(s) = (k + n) + (Len(s) - n)
      BY <1>1, <1>2
    <2> QED
      BY <1>3, <1>8, <1>9, <2>1 DEF l
  <1>13. Follows(shown, 0)
    BY DEF Copied
  <1>14. g.len \in 0 .. BUFSIZE /\ g.pos + g.len = Len(g.buf) /\ Len(g.buf) <= BUFSIZE
    BY <1>2, <1>7, RelayAssumption
  <1>15. Taken(g, shown) = k + n
    BY <1>7 DEF Taken
  <1> QED
    BY <1>7, <1>9, <1>10, <1>11, <1>12, <1>13, <1>14, <1>15 DEF Copied, Follows

LEMMA WriteCopies ==
    ASSUME NEW f \in Machines, NEW source \in Terminals, NEW shown \in Seq(Bytes),
           Copied(f, source, shown), f.state = "W",
           NEW n \in Nat, 1 <= n, n <= f.len,
           NEW more, more = shown \o SubSeq(f.buf, f.pos + 1, f.pos + n)
    PROVE  Advance(f, n) \in Machines /\ more \in Seq(Bytes) /\ Copied(Advance(f, n), source, more)
  <1> DEFINE k == Len(shown)
             buf == f.buf
             pos == f.pos
             len == f.len
             sent == SubSeq(buf, pos + 1, pos + n)
             g == Advance(f, n)
  <1>1. /\ buf \in Seq(Bytes) /\ Len(buf) \in Nat /\ k \in Nat
        /\ pos \in Nat /\ len \in Nat /\ BUFSIZE \in Nat
    BY LenProperties, RelayAssumption DEF Machines, Copied
  <1>2. pos + len = Len(buf) /\ Len(buf) <= BUFSIZE /\ n <= len
    BY DEF Copied
  <1>3. \A j \in 1 .. len : buf[pos + j] = k + j
    BY DEF Copied
  <1>4. g.pos = pos + n /\ g.len = len - n /\ g.buf = buf
    BY DEF Advance, Machines
  <1>5. g.state \in {"W", "R"} /\ (g.state = "R" <=> len <= n)
    <2>1. g.state = IF len > n THEN "W" ELSE "R"
      BY DEF Advance, Machines
    <2> HIDE DEF g, len
    <2> QED
      BY <1>1, <2>1
  <1>6. /\ pos + n \in 0 .. BUFSIZE /\ pos + n <= Len(buf)
        /\ len - n \in 0 .. BUFSIZE /\ len - n \in -1 .. BUFSIZE
    <2> HIDE DEF pos, len, buf
    <2> QED
      BY <1>1, <1>2
  <1>7. g \in Machines
    <2>1. g = [[[f EXCEPT !.state = g.state] EXCEPT !.len = g.len] EXCEPT !.pos = g.pos]
      BY DEF Advance, Machines
    <2> HIDE DEF g, pos, len, buf
    <2> QED
      BY <2>1, <1>1, <1>4, <1>5, <1>6 DEF Machines
  <1>8. more = shown \o sent
    OBVIOUS
  <1> HIDE DEF buf, pos, len, g
  <1>9. sent \in Seq(Bytes) /\ Len(sent) = n /\ \A j \in 1 .. n : sent[j] = buf[pos + j]
    BY <1>1, <1>6, Part
  <1> HIDE DEF sent
  <1>10. Follows(sent, 0 + k)
    <2> SUFFICES ASSUME NEW j \in 1 .. n PROVE sent[j] = (0 + k) + j
      BY <1>9 DEF Follows
    <2>1. j \in 1 .. len
      BY <1>1, <1>2
    <2>2. sent[j] = buf[pos + j] /\ buf[pos + j] = k + j
      BY <1>3, <1>9, <2>1
    <2> QED
      BY <1>1, <2>2
  <1>11. Follows(shown, 0)
    BY DEF Copied
  <1>12. shown \o sent \in Seq(Bytes) /\ Len(shown \o sent) = k + Len(sent)
         /\ Follows(shown \o sent, 0)
    BY <1>9, <1>10, <1>11, FollowsConcat
  <1>13. more \in Seq(Bytes) /\ Len(more) = k + n /\ Follows(more, 0)
    BY <1>8, <1>9, <1>12
  <1>14. g.len \in 0 .. BUFSIZE /\ g.pos + g.len = Len(g.buf) /\ Len(g.buf) <= BUFSIZE
    <2>1. (pos + n) + (len - n) = pos + len
      BY <1>1
    <2> QED
      BY <1>4, <1>2, <1>6, <2>1
  <1>15. \A j \in 1 .. g.len : g.buf[g.pos + j] = Len(more) + j
    <2> SUFFICES ASSUME NEW j \in 1 .. len - n PROVE buf[pos + n + j] = k + n + j
      BY <1>4, <1>13
    <2>1. n + j \in 1 .. len /\ pos + n + j = pos + (n + j)
      BY <1>1, <1>2
    <2>2. buf[pos + (n + j)] = k + (n + j)
      BY <1>3, <2>1
    <2> QED
      BY <1>1, <2>1, <2>2
  <1>16. Taken(g, more) = Taken(f, shown)
    <2>1. Taken(f, shown) = k + len
      BY DEF Taken, len
    <2>2. CASE g.state = "W"
      BY <1>1, <1>4, <1>13, <2>1, <2>2 DEF Taken
    <2>3. CASE g.state = "R"
      <3>1. len = n
        BY <1>1, <1>2, <1>5, <2>3
      <3> QED
        BY <1>1, <1>13, <2>1, <2>3, <3>1 DEF Taken
    <2> QED
      BY <1>5, <2>2, <2>3
  <1>17. Copied(g, source, more)
    BY <1>13, <1>14, <1>15, <1>16 DEF Copied
  <1> QED
    BY <1>7, <1>13, <1>17 DEF g

\* A machine that has stopped copying has shown what it has shown.
LEMMA StopCopies ==
    ASSUME NEW f, NEW source, NEW shown, Copied(f, source, shown),
           NEW g, g.state \in {"E", "T"}
    PROVE  Copied(g, source, shown)
  BY DEF Copied

\* What len holds while the machine reads is of no account.
LEMMA AgainCopies ==
    ASSUME NEW f, NEW source, NEW shown, Copied(f, source, shown), f.state = "R",
           NEW g, g.state = "R"
    PROVE  Copied(g, source, shown)
  BY DEF Copied, Taken

LEMMA TypeCopies ==
    ASSUME NEW f \in Machines, NEW source \in Terminals, NEW shown \in Seq(Bytes),
           Copied(f, source, shown), source.typed < MaxTyped,
           NEW t, t = [source EXCEPT !.typed = @ + 1, !.input = Append(@, source.typed + 1)]
    PROVE  t \in Terminals /\ Copied(f, t, shown)
  <1>1. source.input \in Seq(Bytes) /\ Len(source.input) \in Nat /\ source.typed \in Nat
        /\ source.typed + 1 \in Bytes /\ MaxTyped \in Nat
    BY LenProperties, RelayAssumption DEF Terminals, Bytes
  <1> DEFINE more == Append(source.input, source.typed + 1)
  <1>2. /\ more \in Seq(Bytes) /\ Len(more) = Len(source.input) + 1
        /\ \A i \in 1 .. Len(source.input) : more[i] = source.input[i]
        /\ more[Len(source.input) + 1] = source.typed + 1
    BY <1>1, AppendProperties
  <1>3. t.typed = source.typed + 1 /\ t.input = more /\ t.hung = source.hung
        /\ t \in Terminals
    <2>1. source.typed + 1 \in 0 .. MaxTyped
      BY <1>1
    <2> QED
      BY <1>1, <1>2, <2>1 DEF Terminals
  <1> HIDE DEF more
  <1>4. Taken(f, shown) \in Nat
    BY LenProperties, RelayAssumption DEF Taken, Copied
  <1>5. ASSUME source.typed = Taken(f, shown) + Len(source.input),
               Follows(source.input, Taken(f, shown))
        PROVE  /\ t.typed = Taken(f, shown) + Len(t.input)
               /\ Follows(t.input, Taken(f, shown))
    <2>1. ASSUME NEW j \in 1 .. Len(more) PROVE more[j] = Taken(f, shown) + j
      <3>1. CASE j = Len(source.input) + 1
        BY <1>1, <1>2, <1>4, <1>5, <3>1
      <3>2. CASE j \in 1 .. Len(source.input)
        BY <1>2, <1>5, <3>2 DEF Follows
      <3> QED
        BY <1>1, <1>2, <3>1, <3>2
    <2>2. t.typed = Taken(f, shown) + Len(t.input)
      BY <1>1, <1>2, <1>3, <1>4, <1>5
    <2> QED
      BY <1>3, <2>1, <2>2 DEF Follows
  <1> QED
    BY <1>3, <1>5 DEF Copied

-----------------------------------------------------------------------------
\* The steps.

LEMMA Directions ==
    ASSUME NEW d \in Dirs
    PROVE  /\ Other(d) \in Dirs /\ Other(d) # d /\ Other(Other(d)) = d
           /\ \A e \in Dirs : e = d \/ e = Other(d)
  BY DEF Dirs, Other

LEMMA InitKeeps == Init => IInv
  <1> SUFFICES ASSUME Init PROVE IInv
    OBVIOUS
  <1>1. <<>> \in Seq(Bytes) /\ Len(<<>>) = 0
    BY EmptySeq
  <1>2. 0 \in 0 .. BUFSIZE /\ 0 \in -1 .. BUFSIZE /\ 0 \in 0 .. MaxTyped /\ Room \in 0 .. Room
    BY RelayAssumption
  <1>3. fsm \in [Dirs -> Machines] /\ tty \in [Dirs -> Terminals]
    BY <1>1, <1>2 DEF Init, Machines, Terminals
  <1>4. ASSUME NEW d \in Dirs PROVE Copied(fsm[d], tty[d], tty[Other(d)].shown)
    <2>1. /\ tty[Other(d)].shown = <<>> /\ fsm[d].state = "R"
          /\ tty[d].input = <<>> /\ tty[d].typed = 0
      BY Directions DEF Init
    <2>2. Follows(<<>>, 0)
      BY <1>1 DEF Follows
    <2>3. Taken(fsm[d], <<>>) = 0
      BY <1>1, <2>1 DEF Taken
    <2> QED
      BY <1>1, <2>1, <2>2, <2>3 DEF Copied
  <1> QED
    BY <1>3, <1>4 DEF IInv

LEMMA DriverKeeps ==
    ASSUME IInv, NEW d \in Dirs, fsm_driver(d)
    PROVE  IInv'
  <1> USE DEF IInv
  <1>1. PICK e \in Dirs : e = Other(d) /\ e # d /\ Other(e) = d /\ \A c \in Dirs : c \in {d, e}
    BY Directions
  <1>2. PICK f \in Machines : f = fsm[d]
    OBVIOUS
  <1>3. PICK source \in Terminals : source = tty[d]
    OBVIOUS
  <1>4. PICK sink \in Terminals : sink = tty[e]
    OBVIOUS
  <1>5. PICK shown \in Seq(Bytes) : shown = sink.shown
    BY DEF Terminals
  <1>6. Copied(f, source, shown) /\ Copied(fsm[e], sink, source.shown)
    BY <1>1, <1>2, <1>3, <1>4, <1>5
  <1>7. CASE ReadSome(d)
    <2>1. PICK n \in 1 .. Smaller(BUFSIZE, Len(source.input)) :
             /\ fsm' = [fsm EXCEPT ![d] = [state |-> "W", pos |-> 0, len |-> n,
                                           buf |-> SubSeq(source.input, 1, n)]]
             /\ tty' = [tty EXCEPT ![d].input = SubSeq(@, n + 1, Len(@))]
      BY <1>3, <1>7 DEF ReadSome
    <2>2. f.state = "R" /\ ~ source.hung
      BY <1>2, <1>3, <1>7 DEF ReadSome
    <2> DEFINE g == [state |-> "W", pos |-> 0, len |-> n, buf |-> SubSeq(source.input, 1, n)]
               t == [source EXCEPT !.input = SubSeq(source.input, n + 1, Len(source.input))]
    <2>3. fsm' = [fsm EXCEPT ![d] = g] /\ tty' = [tty EXCEPT ![d] = t]
      BY <1>3, <2>1
    <2>5. g \in Machines /\ t \in Terminals /\ t.shown = source.shown /\ Copied(g, t, shown)
      BY <1>6, <2>1, <2>2, ReadCopies
    <2> HIDE DEF g, t
    <2>6. fsm'[d] = g /\ fsm'[e] = fsm[e] /\ tty'[d] = t /\ tty'[e] = sink
          /\ fsm' \in [Dirs -> Machines] /\ tty' \in [Dirs -> Terminals]
      BY <1>1, <1>4, <2>3, <2>5
    <2>7. Copied(g, tty'[d], tty'[e].shown) /\ Copied(fsm[e], tty'[e], tty'[d].shown)
      BY <1>5, <1>6, <2>5, <2>6
    <2> QED
      BY <1>1, <2>6, <2>7
  <1>8. CASE WriteSome(d)
    <2>1. PICK n \in 1 .. Smaller(fsm[d].len, tty[e].room) :
             /\ fsm' = [fsm EXCEPT ![d] = Advance(@, n)]
             /\ tty' = [tty EXCEPT ![e].shown = @ \o Sent(d, n), ![e].room = @ - n]
      BY <1>1, <1>8 DEF WriteSome
    <2>2. f.state = "W"
      BY <1>2, <1>8 DEF WriteSome
    <2>3. /\ n \in Nat /\ 1 <= n /\ n <= f.len /\ sink.room - n \in 0 .. Room
      <3>1. f.len \in Nat /\ sink.room \in 0 .. Room /\ Room \in Nat
        BY <1>6, <2>2, RelayAssumption DEF Copied, Terminals, Machines
      <3>2. n \in 1 .. Smaller(f.len, sink.room)
        BY <1>2, <1>4
      <3>3. n <= f.len /\ n <= sink.room /\ n \in Nat /\ 1 <= n
        BY <3>1, <3>2 DEF Smaller
      <3> QED
        BY <3>1, <3>3
    <2> DEFINE g == Advance(f, n)
               more == shown \o SubSeq(f.buf, f.pos + 1, f.pos + n)
               t == [sink EXCEPT !.shown = more, !.room = @ - n]
    <2>4. g \in Machines /\ more \in Seq(Bytes) /\ Copied(g, source, more)
      <3>1. more = shown \o SubSeq(f.buf, f.pos + 1, f.pos + n)
        OBVIOUS
      <3> HIDE DEF more
      <3> QED
        BY <1>6, <2>2, <2>3, <3>1, WriteCopies
    <2>5. fsm' = [fsm EXCEPT ![d] = g] /\ tty' = [tty EXCEPT ![e] = t]
      BY <1>2, <1>4, <1>5, <2>1 DEF Sent
    <2>6. t \in Terminals /\ t.shown = more /\ t.input = sink.input /\ t.typed = sink.typed
          /\ t.hung = sink.hung
      <3> HIDE DEF more
      <3> QED
        BY <2>3, <2>4 DEF Terminals
    <2> HIDE DEF g, more, t
    <2>7. Copied(fsm[e], t, source.shown)
      BY <1>6, <2>6 DEF Copied
    <2>8. fsm'[d] = g /\ fsm'[e] = fsm[e] /\ tty'[d] = source /\ tty'[e] = t
          /\ fsm' \in [Dirs -> Machines] /\ tty' \in [Dirs -> Terminals]
      BY <1>1, <1>3, <2>4, <2>5, <2>6
    <2>9. Copied(g, tty'[d], tty'[e].shown) /\ Copied(fsm[e], tty'[e], tty'[d].shown)
      BY <2>4, <2>6, <2>7, <2>8
    <2> QED
      BY <1>1, <2>8, <2>9
  <1>9. CASE ReadEnd(d) \/ ReadFails(d) \/ WriteFails(d) \/ ReportError(d)
    <2>1. /\ tty' = tty /\ fsm' \in [Dirs -> Machines] /\ fsm'[d].state \in {"E", "T"}
          /\ fsm'[e] = fsm[e]
      <3>1. 0 \in -1 .. BUFSIZE /\ -1 \in -1 .. BUFSIZE
        BY RelayAssumption
      <3>2. CASE ReadEnd(d)
        BY <1>1, <3>1, <3>2 DEF ReadEnd, Machines
      <3>2a. CASE ReadFails(d)
        BY <1>1, <3>1, <3>2a DEF ReadFails, Machines
      <3>3. CASE WriteFails(d)
        BY <1>1, <3>3 DEF WriteFails, Machines
      <3>4. CASE ReportError(d)
        BY <1>1, <3>4 DEF ReportError, Machines
      <3> QED
        BY <1>9, <3>2, <3>2a, <3>3, <3>4
    <2> DEFINE g == fsm'[d]
    <2>2. g.state \in {"E", "T"}
      BY <2>1
    <2> HIDE DEF g
    <2>3. Copied(g, source, shown)
      BY <1>6, <2>2, StopCopies
    <2> QED
      BY <1>1, <1>3, <1>4, <1>5, <1>6, <2>1, <2>3 DEF g
  <1>10. CASE ReadAgain(d)
    <2>1. -1 \in -1 .. BUFSIZE
      BY RelayAssumption
    <2> DEFINE g == [f EXCEPT !.len = -1]
    <2>2. tty' = tty /\ fsm' = [fsm EXCEPT ![d] = g] /\ f.state = "R"
      BY <1>2, <1>10 DEF ReadAgain
    <2>3. g \in Machines /\ g.state = "R"
      BY <2>1, <2>2 DEF Machines
    <2> HIDE DEF g
    <2>4. Copied(g, source, shown)
      BY <1>6, <2>2, <2>3, AgainCopies
    <2>5. fsm' \in [Dirs -> Machines] /\ fsm'[d] = g /\ fsm'[e] = fsm[e]
      BY <1>1, <2>2, <2>3
    <2> QED
      BY <1>1, <1>3, <1>4, <1>5, <1>6, <2>2, <2>4, <2>5
  <1>11. CASE UNCHANGED <<fsm, tty>>
    BY <1>11
  <1> QED
    BY <1>7, <1>8, <1>9, <1>10, <1>11 DEF fsm_driver, WriteAgain

LEMMA PeopleKeep ==
    ASSUME IInv, NEW d \in Dirs, Type(d) \/ Shows(d) \/ HangUp(d)
    PROVE  IInv'
  <1> USE DEF IInv
  <1>1. PICK e \in Dirs : e = Other(d) /\ e # d /\ Other(e) = d /\ \A c \in Dirs : c \in {d, e}
    BY Directions
  <1>2. PICK f \in Machines : f = fsm[d]
    OBVIOUS
  <1>3. PICK source \in Terminals : source = tty[d]
    OBVIOUS
  <1>4. PICK shown \in Seq(Bytes) : shown = tty[e].shown
    BY DEF Terminals
  <1>5. Copied(f, source, shown) /\ Copied(fsm[e], tty[e], source.shown)
    BY <1>1, <1>2, <1>3, <1>4
  <1>6. \E t \in Terminals : /\ tty' = [tty EXCEPT ![d] = t] /\ fsm' = fsm
                             /\ t.shown = source.shown /\ Copied(f, t, shown)
    <2>1. CASE Type(d)
      <3> DEFINE t == [source EXCEPT !.typed = @ + 1, !.input = Append(@, source.typed + 1)]
      <3>1. tty' = [tty EXCEPT ![d] = t] /\ fsm' = fsm /\ source.typed < MaxTyped
            /\ t.shown = source.shown
        BY <1>3, <2>1 DEF Type, Terminals
      <3>2. t = [source EXCEPT !.typed = @ + 1, !.input = Append(@, source.typed + 1)]
        OBVIOUS
      <3> HIDE DEF t
      <3>3. t \in Terminals /\ Copied(f, t, shown)
        BY <1>5, <3>1, <3>2, TypeCopies
      <3> QED
        BY <3>1, <3>3
    <2>2. CASE Shows(d)
      <3> DEFINE t == [source EXCEPT !.room = @ + 1]
      <3>1. tty' = [tty EXCEPT ![d] = t] /\ fsm' = fsm
        BY <1>3, <2>2 DEF Shows
      <3>2. source.room + 1 \in 0 .. Room
        BY <1>3, <2>2, RelayAssumption DEF Shows, Terminals
      <3>3. t \in Terminals /\ t.shown = source.shown /\ t.input = source.input
            /\ t.typed = source.typed /\ t.hung = source.hung
        BY <3>2 DEF Terminals
      <3> HIDE DEF t
      <3>4. Copied(f, t, shown)
        BY <1>5, <3>3 DEF Copied
      <3> QED
        BY <3>1, <3>3, <3>4
    <2>3. CASE HangUp(d)
      <3> DEFINE t == [source EXCEPT !.hung = TRUE, !.input = <<>>]
      <3>1. tty' = [tty EXCEPT ![d] = t] /\ fsm' = fsm
        BY <1>3, <2>3 DEF HangUp
      <3>2. t \in Terminals /\ t.shown = source.shown /\ t.hung
        BY EmptySeq DEF Terminals
      <3> HIDE DEF t
      <3>3. Copied(f, t, shown)
        BY <1>5, <3>2 DEF Copied
      <3> QED
        BY <3>1, <3>2, <3>3
    <2> QED
      BY <2>1, <2>2, <2>3
  <1>7. PICK t \in Terminals : /\ tty' = [tty EXCEPT ![d] = t] /\ fsm' = fsm
                               /\ t.shown = source.shown /\ Copied(f, t, shown)
    BY <1>6
  <1>8. tty' \in [Dirs -> Terminals] /\ tty'[d] = t /\ tty'[e] = tty[e]
    BY <1>1, <1>7
  <1>9. Copied(fsm[d], tty'[d], tty'[e].shown) /\ Copied(fsm[e], tty'[e], tty'[d].shown)
    BY <1>2, <1>4, <1>5, <1>7, <1>8
  <1> QED
    BY <1>1, <1>7, <1>8, <1>9

\* The inductive invariant holds of every reachable state, of all four programs.
THEOREM RelayInvariant == Spec => []IInv
  <1>1. ASSUME IInv, [Next]_vars PROVE IInv'
    <2>1. ASSUME UNCHANGED <<fsm, tty>> PROVE IInv'
      BY <1>1, <2>1 DEF IInv
    <2>2. CASE NonblockHead \/ SelectHead \/ EpollHead \/ Return
      BY <2>1, <2>2 DEF NonblockHead, SelectHead, EpollHead, Return
    <2>3. CASE Wakes \/ Interrupted \/ WaitFails
      BY <2>1, <2>3 DEF Wakes, select, poll, epoll_wait, Woken, Interrupted, WaitFails
    <2>4. CASE Drive12
      <3>1. 1 \in Dirs
        BY DEF Dirs
      <3> QED
        BY <1>1, <2>1, <2>4, <3>1, DriverKeeps DEF Drive12, Drive
    <2>5. CASE Drive21
      <3>1. 2 \in Dirs
        BY DEF Dirs
      <3> QED
        BY <1>1, <2>1, <2>5, <3>1, DriverKeeps DEF Drive21, Drive
    <2>6. CASE \E d \in Dirs : Type(d) \/ Shows(d) \/ HangUp(d)
      BY <1>1, <2>6, PeopleKeep
    <2>7. CASE UNCHANGED vars
      BY <2>1, <2>7 DEF vars
    <2> QED
      BY <1>1, <2>2, <2>3, <2>4, <2>5, <2>6, <2>7 DEF Next, Relay, Turn
  <1> QED
    BY <1>1, InitKeeps, PTL DEF Spec

\* fsm_driver, under any of the four loops, loses, repeats and reorders no byte.
THEOREM RelayCopies == Spec => []CopiesInOrder
  <1>1. ASSUME IInv PROVE CopiesInOrder
    <2> SUFFICES ASSUME NEW d \in Dirs
        PROVE  LET taken == tty[Other(d)].shown \o InBuffer(d)
               IN  /\ taken = Upto(Len(taken))
                   /\ ~ tty[d].hung /\ ~ AboveAuto(d) => taken \o tty[d].input = Upto(tty[d].typed)
      BY DEF CopiesInOrder
    <2>1. PICK f \in Machines : f = fsm[d]
      BY <1>1 DEF IInv
    <2>2. PICK source \in Terminals : source = tty[d]
      BY <1>1 DEF IInv
    <2>3. PICK shown \in Seq(Bytes) : shown = tty[Other(d)].shown
      BY <1>1, Directions DEF IInv, Terminals
    <2>4. Copied(f, source, shown)
      BY <1>1, <2>1, <2>2, <2>3 DEF IInv
    <2> DEFINE k == Len(shown)
               sent == IF f.state = "W" THEN SubSeq(f.buf, f.pos + 1, f.pos + f.len) ELSE <<>>
    <2>5. InBuffer(d) = sent
      BY <2>1 DEF InBuffer, Sent
    <2>6. k \in Nat
      BY LenProperties
    <2>7. sent \in Seq(Bytes) /\ k + Len(sent) = Taken(f, shown) /\ Follows(sent, 0 + k)
      <3>1. CASE f.state = "W"
        <4> DEFINE buf == f.buf
                   pos == f.pos
                   len == f.len
        <4>1. buf \in Seq(Bytes) /\ Len(buf) \in Nat /\ pos \in Nat /\ len \in Nat
          BY <2>4, <3>1, LenProperties, RelayAssumption DEF Machines, Copied
        <4>2. pos + len = Len(buf)
          BY <2>4, <3>1 DEF Copied
        <4>3. \A j \in 1 .. len : buf[pos + j] = k + j
          BY <2>4, <3>1 DEF Copied
        <4>4. sent = SubSeq(buf, pos + 1, pos + len) /\ Taken(f, shown) = k + len
          BY <3>1 DEF Taken
        <4> HIDE DEF buf, pos, len, sent
        <4>5. sent \in Seq(Bytes) /\ Len(sent) = len
              /\ \A j \in 1 .. len : sent[j] = buf[pos + j]
          BY <4>1, <4>2, <4>4, Part
        <4> QED
          BY <2>6, <4>3, <4>4, <4>5 DEF Follows
      <3>2. CASE f.state # "W"
        BY <2>6, <3>2, EmptySeq DEF Taken, Follows
      <3> QED
        BY <3>1, <3>2
    <2>8. Follows(shown, 0)
      BY <2>4 DEF Copied
    <2> HIDE DEF sent
    <2> DEFINE taken == shown \o sent
    <2>9. taken \in Seq(Bytes) /\ Len(taken) = k + Len(sent) /\ Follows(taken, 0)
      BY <2>7, <2>8, FollowsConcat
    <2>10. LET input == source.input
           IN  ~ source.hung /\ f.state \in {"R", "W"} =>
                  taken \o input \in Seq(Bytes) /\ Len(taken \o input) = source.typed
                  /\ Follows(taken \o input, 0)
      <3> SUFFICES ASSUME ~ source.hung, f.state \in {"R", "W"}
                   PROVE  /\ taken \o source.input \in Seq(Bytes)
                          /\ Len(taken \o source.input) = source.typed
                          /\ Follows(taken \o source.input, 0)
        OBVIOUS
      <3> DEFINE input == source.input
      <3>1. /\ input \in Seq(Bytes) /\ source.typed = Taken(f, shown) + Len(input)
            /\ Follows(input, Taken(f, shown))
        BY <2>4 DEF Copied, Terminals
      <3>2. Len(taken) = Taken(f, shown) /\ Len(taken) \in Nat
        BY <2>7, <2>9, LenProperties
      <3> HIDE DEF input, taken
      <3>3. Follows(input, 0 + Len(taken)) /\ source.typed = Len(taken) + Len(input)
        BY <3>1, <3>2
      <3>4. taken \o input \in Seq(Bytes) /\ Len(taken \o input) = Len(taken) + Len(input)
            /\ Follows(taken \o input, 0)
        BY <2>9, <3>1, <3>3, FollowsConcat
      <3> QED
        BY <3>3, <3>4 DEF input
    <2>11. ~ AboveAuto(d) <=> f.state \in {"R", "W"}
      BY <2>1 DEF AboveAuto, Machines
    <2> HIDE DEF taken
    <2>12. taken = Upto(Len(taken))
      BY <2>9, FollowsUpto
    <2>13. ~ source.hung /\ f.state \in {"R", "W"} => taken \o source.input = Upto(source.typed)
      <3> DEFINE all == taken \o source.input
      <3>1. ~ source.hung /\ f.state \in {"R", "W"} =>
              all \in Seq(Bytes) /\ Len(all) = source.typed /\ Follows(all, 0)
        BY <2>10
      <3> HIDE DEF all
      <3>2. ~ source.hung /\ f.state \in {"R", "W"} => all = Upto(source.typed)
        BY <3>1, FollowsUpto
      <3> QED
        BY <3>2 DEF all
    <2> QED
      BY <2>2, <2>3, <2>5, <2>11, <2>12, <2>13 DEF taken
  <1> QED
    BY <1>1, RelayInvariant, PTL

-----------------------------------------------------------------------------
\* The loops.

\* What select and poll were told is what the machines want while they wait.
Asking ==
    program \in {"select", "poll"} /\ pc = "wait" =>
       BelowAuto /\ \A fd \in Dirs : asked[fd] = Wanted(fd)

\* Machine d can go on.
Ready(d) ==
    \/ fsm[d].state = "R" /\ (tty[d].hung \/ tty[d].input # <<>>)
    \/ fsm[d].state = "W" /\ (tty[Other(d)].hung \/ tty[Other(d)].room > 0)

\* The loop waits for a machine that lives, and wakes when one can go on.
Listens ==
    program \in {"select", "poll"} /\ pc = "wait" =>
       /\ BelowAuto
       /\ \A d \in Dirs : Ready(d) => \E fd \in Dirs : asked[fd] \cap Pending(fd) # {}

\* No loop leaves the types of its variables, for any buffer and any terminals.
THEOREM RelayTypes == Spec => []TypeOK
  <1> DEFINE Loop ==
        /\ program \in {"nonblock", "select", "poll", "epoll"}
        /\ pc \in {"head", "wait", "drive12", "drive21", "returned", "exited"}
        /\ asked \in [Dirs -> SUBSET Events]
        /\ revents \in [Dirs -> SUBSET Events]
  <1>1. Init => Loop
    BY DEF Init
  <1>2. Loop /\ [Next]_vars => Loop'
    <2> SUFFICES ASSUME Loop, [Next]_vars PROVE Loop'
      OBVIOUS
    <2>1. \A fd \in Dirs : Wanted(fd) \in SUBSET Events
      BY DEF Wanted, Events
    <2>2. ASSUME NEW reported \in [Dirs -> SUBSET Events], Woken(reported) PROVE Loop'
      BY <2>2 DEF Woken
    <2>3. CASE NonblockHead \/ Return \/ Interrupted \/ WaitFails
      BY <2>3 DEF NonblockHead, Return, Interrupted, WaitFails
    <2>4. CASE SelectHead
      BY <2>1, <2>4 DEF SelectHead
    <2>5. CASE EpollHead
      BY <2>1, <2>5 DEF EpollHead, Dirs
    <2>6. CASE select
      <3>1. [fd \in Dirs |-> asked[fd] \cap Pending(fd)] \in [Dirs -> SUBSET Events]
        OBVIOUS
      <3> QED
        BY <2>2, <2>6, <3>1 DEF select
    <2>7. \A fd \in Dirs : (asked[fd] \cup {"HUP"}) \cap Pending(fd) \in SUBSET Events
      BY DEF Events
    <2>8. CASE poll
      <3>1. [fd \in Dirs |-> (asked[fd] \cup {"HUP"}) \cap Pending(fd)] \in [Dirs -> SUBSET Events]
        BY <2>7
      <3> QED
        BY <2>2, <2>8, <3>1 DEF poll
    <2>9. CASE epoll_wait
      <3>1. PICK ready \in Dirs :
               Woken([fd \in Dirs |-> IF fd = ready THEN (asked[fd] \cup {"HUP"}) \cap Pending(fd)
                                      ELSE {}])
        BY <2>9 DEF epoll_wait
      <3>2. [fd \in Dirs |-> IF fd = ready THEN (asked[fd] \cup {"HUP"}) \cap Pending(fd) ELSE {}]
               \in [Dirs -> SUBSET Events]
        BY <2>7
      <3> QED
        BY <2>2, <3>1, <3>2
    <2>10. CASE Drive12 \/ Drive21
      BY <2>10 DEF Drive12, Drive21, Drive
    <2>11. CASE \E d \in Dirs : Type(d) \/ Shows(d) \/ HangUp(d)
      BY <2>11 DEF Type, Shows, HangUp
    <2>12. CASE UNCHANGED vars
      BY <2>12 DEF vars
    <2> QED
      BY <2>3, <2>4, <2>5, <2>6, <2>8, <2>9, <2>10, <2>11, <2>12 DEF Next, Relay, Turn, Wakes
  <1>3. IInv /\ Loop => TypeOK
    BY DEF IInv, TypeOK, Machines, Terminals, Bytes
  <1> QED
    BY <1>1, <1>2, <1>3, RelayInvariant, PTL DEF Spec

\* The select and poll loops never sleep through work: whenever one waits, a machine
\* that can read, write or end has an event among those that were asked for.
THEOREM RelayListens == Spec => []Listens
  <1>1. Init => Asking
    BY DEF Init, Asking
  <1>2. Asking /\ [Next]_vars => Asking'
    <2> SUFFICES ASSUME Asking, [Next]_vars, program' \in {"select", "poll"}, pc' = "wait"
                 PROVE  BelowAuto' /\ \A fd \in Dirs : asked'[fd] = Wanted(fd)'
      BY DEF Asking
    <2>1. ASSUME UNCHANGED <<program, pc, fsm, asked>>
          PROVE  BelowAuto' /\ \A fd \in Dirs : asked'[fd] = Wanted(fd)'
      BY <2>1 DEF Asking, BelowAuto, Wanted
    <2>2. CASE SelectHead
      BY <2>2 DEF SelectHead, BelowAuto, Wanted
    <2>3. CASE Interrupted
      <3>1. program = program' /\ pc = "wait"
        BY <2>3 DEF Interrupted
      <3> QED
        BY <2>1, <2>3, <3>1 DEF Interrupted
    <2>4. ASSUME NonblockHead \/ EpollHead \/ Return \/ WaitFails \/ Drive12 \/ Drive21 \/ Wakes
          PROVE  FALSE
      BY <2>4 DEF NonblockHead, EpollHead, Return, WaitFails, Drive12, Drive21, Drive, Wakes,
         select, poll, epoll_wait, Woken
    <2>5. CASE \E d \in Dirs : Type(d) \/ Shows(d) \/ HangUp(d)
      BY <2>1, <2>5 DEF Type, Shows, HangUp
    <2>6. CASE UNCHANGED vars
      BY <2>1, <2>6 DEF vars
    <2> QED
      BY <2>2, <2>3, <2>4, <2>5, <2>6 DEF Next, Relay, Turn
  <1>3. Asking => Listens
    <2> SUFFICES ASSUME Asking, program \in {"select", "poll"}, pc = "wait",
                        NEW d \in Dirs, Ready(d)
                 PROVE  \E fd \in Dirs : asked[fd] \cap Pending(fd) # {}
      BY DEF Asking, Listens
    <2>1. Other(d) \in Dirs /\ Other(Other(d)) = d
      BY DEF Dirs, Other
    <2>2. asked[d] = Wanted(d) /\ asked[Other(d)] = Wanted(Other(d))
      BY <2>1 DEF Asking
    <2>3. CASE fsm[d].state = "R" /\ (tty[d].hung \/ tty[d].input # <<>>)
      <3>1. "IN" \in asked[d] /\ "IN" \in Pending(d)
        BY <2>2, <2>3 DEF Wanted, Pending, Events
      <3> QED
        BY <3>1
    <2>4. CASE fsm[d].state = "W" /\ (tty[Other(d)].hung \/ tty[Other(d)].room > 0)
      <3>1. "OUT" \in asked[Other(d)] /\ "OUT" \in Pending(Other(d))
        BY <2>1, <2>2, <2>4 DEF Wanted, Pending, Events
      <3> QED
        BY <2>1, <3>1
    <2> QED
      BY <2>3, <2>4 DEF Ready
  <1> QED
    BY <1>1, <1>2, <1>3, PTL DEF Spec
=============================================================================
