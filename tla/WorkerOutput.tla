---------------------------- MODULE WorkerOutput ----------------------------
(***************************************************************************)
(* What gatewayd makes of the bytes of a worker.  Standard output goes     *)
(* through gw_progress_parser_consume (src/monitor/progress_parser.c),     *)
(* standard error through consume_stderr (src/channel/supervisor.c).  Both *)
(* put lines together from reads that may end anywhere, in a buffer that   *)
(* is kept from read to read.                                              *)
(*                                                                         *)
(* A byte is a one-letter string; "://" counts as one.  Of the keys of a   *)
(* progress record "f" (frame) stands for those with a value and "p"       *)
(* (progress) ends a record.                                               *)
(***************************************************************************)
EXTENDS Integers, Sequences, FiniteSets, SequencesExt

CONSTANTS GW_PROGRESS_LINE_CAP, STDERR_LINE_CAP,
          Bytes,       \* the letters
          SourceUrl,   \* channel->input.url
          UrlCaps,     \* values of GW_URL_CAP, the bytes of a buffer for a URL
          Outputs,     \* what a worker may write, by stream
          ReadSize     \* bytes one read returns at most

ASSUME OutputAssumption ==
    /\ GW_PROGRESS_LINE_CAP \in Nat \ {0} /\ STDERR_LINE_CAP \in Nat \ {0}
    /\ SourceUrl \in Seq(Bytes) /\ SourceUrl # <<>> /\ ReadSize \in Nat \ {0}
    /\ \A cap \in UrlCaps : cap \in Nat /\ Len(SourceUrl) < cap
    /\ DOMAIN Outputs = {"stdout", "stderr"}
    /\ \A s \in DOMAIN Outputs : \A text \in Outputs[s] : text \in Seq(Bytes)

VARIABLES url_cap,  \* the GW_URL_CAP this behaviour is about
          stream,   \* which of the two this behaviour is about
          written,  \* all the worker writes to it
          taken,    \* how much of it has been read
          closed,   \* has a read found the end of the stream?
          parser,   \* the gw_progress_parser, and the record it completed last
          lines     \* the stderr_line_buffer, and the lines logged
outputVars == <<url_cap, stream, written, taken, closed, parser, lines>>

Omitted == <<"[line omitted]">>
Overlong == <<"[overlong line omitted]">>

OutputInit ==
    /\ url_cap \in UrlCaps
    /\ stream \in {"stdout", "stderr"}
    /\ written \in Outputs[stream]
    /\ taken = 0 /\ closed = FALSE
    /\ parser = [line |-> <<>>, frame |-> 0, latest |-> <<>>, failed |-> FALSE]
    /\ lines = [data |-> <<>>, dropping |-> FALSE, log |-> <<>>]

WithoutCR(line) ==
    IF line # <<>> /\ Last(line) = "\r" THEN Front(line) ELSE line

-----------------------------------------------------------------------------
\* Standard output.

\* strtoull takes a number and nothing else; otherwise the field keeps its value.
parse_u64(value, old) == IF value = <<"1">> THEN 1 ELSE IF value = <<"2">> THEN 2 ELSE old

parse_line(state, line) ==
    LET separator == SelectInSeq(line, LAMBDA byte : byte = "=")
        key == SubSeq(line, 1, separator - 1)
        value == SubSeq(line, separator + 1, Len(line))
    IN  IF separator = 0 THEN state
        ELSE IF key = <<"f">> THEN [state EXCEPT !.frame = parse_u64(value, @)]
        ELSE IF key = <<"p">> THEN [state EXCEPT !.latest = <<state.frame>>, !.frame = 0]
        ELSE state

\* One byte.  A line that does not fit is an error, which ends the call.
ConsumeByte(state, byte) ==
    IF state.failed THEN state
    ELSE IF byte = "\n"
    THEN [parse_line(state, WithoutCR(state.line)) EXCEPT !.line = <<>>]
    ELSE IF Len(state.line) + 1 >= GW_PROGRESS_LINE_CAP
    THEN [state EXCEPT !.line = <<>>, !.failed = TRUE]
    ELSE [state EXCEPT !.line = Append(@, byte)]

gw_progress_parser_consume(state, chunk) ==
    LET after[i \in 0 .. Len(chunk)] ==
            IF i = 0 THEN state ELSE ConsumeByte(after[i - 1], chunk[i])
    IN  after[Len(chunk)]

-----------------------------------------------------------------------------
\* Standard error.

\* The password, or all the user information when there is no colon in it, gives
\* way to three stars.
gw_redact_url(url) ==
    LET scheme == SelectInSeq(url, LAMBDA byte : byte = "://")
        path == {k \in scheme + 1 .. Len(url) : url[k] \in {"/", "?", "#"}}
        authority_end == Min(path \cup {Len(url) + 1})
        at == {k \in scheme + 1 .. authority_end - 1 : url[k] = "@"}
        colon == {k \in scheme + 1 .. Min(at) - 1 : url[k] = ":"}
    IN  IF scheme = 0 \/ at = {} THEN url
        ELSE SubSeq(url, 1, Max(colon \cup {scheme})) \o <<"*", "*", "*">>
                \o SubSeq(url, Min(at), Len(url))

\* GW_ERR_OVERFLOW: the URL fits its buffer and the redacted one does not, because
\* its password is shorter than the stars.  redact_source_url then fails.
UrlOverflows == Len(gw_redact_url(SourceUrl)) >= url_cap

\* Is the URL in the line where it has n bytes left?
Match(line, n) ==
    Len(SourceUrl) <= n /\ SubSeq(line, Len(line) - n + 1, Len(line) - n + Len(SourceUrl)) = SourceUrl

\* strstr from left to right, by the number of bytes left; every match gives way to
\* the redacted URL.
redact_source_url(line) ==
    LET redacted[n \in 0 .. Len(line)] ==
            IF n = 0 THEN <<>>
            ELSE IF Match(line, n) THEN gw_redact_url(SourceUrl) \o redacted[n - Len(SourceUrl)]
            ELSE <<line[Len(line) - n + 1]>> \o redacted[n - 1]
    IN  redacted[Len(line)]

\* A line that could not be redacted, whether the URL is in it or not, is omitted.
emit_stderr_line(line) ==
    LET redacted == redact_source_url(line)
    IN  IF UrlOverflows \/ Len(redacted) >= STDERR_LINE_CAP THEN Omitted ELSE redacted

Logged(state, line) == [state EXCEPT !.log = Append(@, line)]

\* A wrong StderrByte: a line that does not fit is logged in pieces.
StderrByteInPieces(state, byte) ==
    IF byte = "\n"
    THEN [Logged(state, emit_stderr_line(WithoutCR(state.data))) EXCEPT !.data = <<>>]
    ELSE IF Len(state.data) + 1 >= STDERR_LINE_CAP
    THEN [Logged(state, emit_stderr_line(state.data)) EXCEPT !.data = <<byte>>]
    ELSE [state EXCEPT !.data = Append(@, byte)]

\* One byte.  A line that does not fit is dropped up to its end.
StderrByte(state, byte) ==
    IF state.dropping
    THEN IF byte = "\n" THEN [Logged(state, Overlong) EXCEPT !.dropping = FALSE] ELSE state
    ELSE IF byte = "\n"
    THEN [Logged(state, emit_stderr_line(WithoutCR(state.data))) EXCEPT !.data = <<>>]
    ELSE IF Len(state.data) + 1 >= STDERR_LINE_CAP
    THEN [state EXCEPT !.data = <<>>, !.dropping = TRUE]
    ELSE [state EXCEPT !.data = Append(@, byte)]

consume_stderr(state, chunk) ==
    LET after[i \in 0 .. Len(chunk)] ==
            IF i = 0 THEN state ELSE StderrByte(after[i - 1], chunk[i])
    IN  after[Len(chunk)]

flush_stderr(state) ==
    [data |-> <<>>, dropping |-> FALSE,
     log |-> IF state.dropping THEN Append(state.log, Overlong)
             ELSE IF state.data # <<>> THEN Append(state.log, emit_stderr_line(state.data))
             ELSE state.log]

-----------------------------------------------------------------------------
\* A read returns the next bytes, however many, and then the end of the stream.

Read(n) ==
    /\ taken + n <= Len(written) /\ ~ parser.failed
    /\ LET chunk == SubSeq(written, taken + 1, taken + n)
       IN  IF stream = "stdout"
           THEN parser' = gw_progress_parser_consume(parser, chunk) /\ UNCHANGED lines
           ELSE lines' = consume_stderr(lines, chunk) /\ UNCHANGED parser
    /\ taken' = taken + n
    /\ UNCHANGED <<url_cap, stream, written, closed>>

EndOfStream ==
    /\ taken = Len(written) /\ ~ closed
    /\ lines' = flush_stderr(lines)
    /\ closed' = TRUE
    /\ UNCHANGED <<url_cap, stream, written, taken, parser>>

OutputNext == EndOfStream \/ \E n \in 1 .. ReadSize : Read(n)

-----------------------------------------------------------------------------
\* A text, by its first k bytes: the ends of lines, and what there is of the line at
\* byte k.  The line that byte e ends is LineUpTo(text, e - 1).
Ends(text, k) == {e \in 1 .. k : text[e] = "\n"}
LineUpTo(text, k) == SubSeq(text, Max({0} \cup Ends(text, k)) + 1, k)

\* The lines that end a record and those with a number.
ClosesRecord(line) == Len(line) >= 2 /\ line[1] = "p" /\ line[2] = "="
Closing(text, k) == {e \in Ends(text, k) : ClosesRecord(WithoutCR(LineUpTo(text, e - 1)))}
Counting(text, k) ==
    {e \in Ends(text, k) :
       WithoutCR(LineUpTo(text, e - 1)) \in {<<"f", "=", "1">>, <<"f", "=", "2">>}}

\* The last number since the last record ended, and the last record.
FrameUpTo(text, k) ==
    LET counted == {e \in Counting(text, k) : e > Max({0} \cup Closing(text, k))}
    IN  IF counted = {} THEN 0
        ELSE IF LineUpTo(text, Max(counted) - 1)[3] = "1" THEN 1 ELSE 2
RecordUpTo(text, k) ==
    IF Closing(text, k) = {} THEN <<>> ELSE <<FrameUpTo(text, Max(Closing(text, k)) - 1)>>

HasPart(line, part) ==
    \E k \in 1 .. Len(line) - Len(part) + 1 : SubSeq(line, k, k + Len(part) - 1) = part

\* user:password@: what is between the last colon and the at sign of the URL.
Password ==
    LET at == SelectInSeq(SourceUrl, LAMBDA byte : byte = "@")
        colon == Max({k \in 1 .. at : SourceUrl[k] = ":"})
    IN  SubSeq(SourceUrl, colon + 1, at - 1)

\* What standard error makes of a line: its text when the URL is not in it and could
\* have been redacted.
LoggedAs(line, text, logged) ==
    IF Len(line) >= STDERR_LINE_CAP THEN logged = Overlong
    ELSE IF UrlOverflows THEN logged = Omitted
    ELSE IF HasPart(line, SourceUrl) THEN ~ HasPart(logged, Password)
    ELSE logged = text

\* Where a text has the URL.
Occurs(text, k) ==
    k + Len(SourceUrl) - 1 <= Len(text) /\ SubSeq(text, k, k + Len(SourceUrl) - 1) = SourceUrl

\* A letter of the password is in a text only as part of the URL, which is there without
\* overlaps.
Covered(text, letter) ==
    /\ \A j \in 1 .. Len(text) : text[j] = letter =>
          \E k \in 1 .. j : Occurs(text, k) /\ j <= k + Len(SourceUrl) - 1
    /\ \A k \in 1 .. Len(text) : \A m \in 1 .. Len(text) :
          Occurs(text, k) /\ Occurs(text, m) /\ k < m => k + Len(SourceUrl) <= m
SecretApart ==
    /\ \A i \in 1 .. Len(SourceUrl) : SourceUrl[i] \notin {"\n", "\r"}
    /\ Password \in Seq(Bytes)
    /\ \E i \in 1 .. Len(Password) :
          /\ \A k \in 1 .. Len(gw_redact_url(SourceUrl)) :
                gw_redact_url(SourceUrl)[k] # Password[i]
          /\ Password[i] # Omitted[1]
          /\ \A text \in Outputs["stderr"] : Covered(text, Password[i])

\* "Pipe reads may split anywhere": what is parsed and logged depends on what the
\* worker wrote and not on where the reads ended.  The latest record is that of the
\* last complete one, and a line too long for its buffer is an error on standard output
\* and one remark on standard error.  The other lines of standard error are logged one
\* for one: as they are, without the password where the URL was in them, and each as
\* "[line omitted]" when the redacted URL does not fit its buffer.
ReadsAsWritten ==
    LET rest == LineUpTo(written, taken)
        fits == \A k \in 0 .. taken : Len(LineUpTo(written, k)) < GW_PROGRESS_LINE_CAP
    IN  IF stream = "stdout"
        THEN /\ parser.failed = ~ fits
             /\ fits => parser.line = rest /\ parser.latest = RecordUpTo(written, taken)
        ELSE /\ Len(lines.log) = Cardinality(Ends(written, taken))
                                   + (IF closed /\ rest # <<>> THEN 1 ELSE 0)
             /\ \A e \in Ends(written, taken) :
                  LET line == LineUpTo(written, e - 1)
                  IN  LoggedAs(line, WithoutCR(line), lines.log[Cardinality(Ends(written, e))])
             /\ closed /\ rest # <<>> => LoggedAs(rest, rest, Last(lines.log))
=============================================================================
